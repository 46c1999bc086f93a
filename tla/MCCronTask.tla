----------------------------- MODULE MCCronTask -----------------------------
(***************************************************************************)
(* Instances of CronTask for TLC.  One clock unit stands for the shortest  *)
(* lease (30 s); times are small so that leases expire, runs are late and  *)
(* lease tokens fall on planned points.                                    *)
(***************************************************************************)
EXTENDS CronTask, TLC

CONSTANTS j1, i1, i2, w1, w2, a1

Symmetry == Permutations(Jobs) \cup Permutations(Instances)
            \cup Permutations(Workers) \cup Permutations(Admins)

Config(points, lock) == [occ |-> points, rrule |-> TRUE, lock |-> lock,
                         maxDelay |-> 0, catchUp |-> FALSE, prio |-> 0]

\* Every second is planned; the lease is two: tokens are planned points.
EverySecond == {Config(1 .. MaxTime, 2)}

\* Every second is planned; an update may halve the lease.
TwoLeases == {Config(1 .. MaxTime, 2), Config(1 .. MaxTime, 1)}

\* Planned points with room for tokens between them; the second rule skips
\* runs that are late by more than a second, the third is a one-shot task.
Sparse == {Config({2, 4}, 2),
           [Config({2, 4}, 1) EXCEPT !.maxDelay = 1],
           [Config({2}, 2) EXCEPT !.rrule = FALSE]}
=============================================================================
