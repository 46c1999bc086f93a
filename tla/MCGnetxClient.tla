---------------------------- MODULE MCGnetxClient ----------------------------
(* Instances of GnetxClient for TLC. *)
EXTENDS GnetxClient, TLC

CONSTANTS c1, c2, c3, r1, r2

Sequences == 0 .. 1
TwoKeys == {c1, c2} \X Sequences
ThreeKeys == {c1, c2, c3} \X Sequences
Symmetric == Permutations({r1, r2})
=============================================================================
