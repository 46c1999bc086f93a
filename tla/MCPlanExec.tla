----------------------------- MODULE MCPlanExec -----------------------------
(***************************************************************************)
(* Instances of PlanExec for TLC: items that share a batch, or not.        *)
(***************************************************************************)
EXTENDS PlanExec, TLC

CONSTANTS x1, x2, b1, b2, d1, d2, c1

OneBatch   == x1 :> b1 @@ x2 :> b1
TwoBatches == x1 :> b1 @@ x2 :> b2
OneItem    == x1 :> b1

Symmetry == Permutations(Dispatchers) \cup Permutations(Items)
=============================================================================
