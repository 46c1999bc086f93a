------------------------------ MODULE JobLease ------------------------------
(***************************************************************************)
(* What the lease of a cron job promises (common/crontask/store.go, the    *)
(* contract of LockAndFetch and Complete): a run may start only when every *)
(* lease that is still held on its job has expired.  A holder is never     *)
(* revoked; it may go on after its lease has expired.                      *)
(***************************************************************************)
EXTENDS Integers

CONSTANTS Jobs, Owners, Times

VARIABLES now, leases

Init == now = 1 /\ leases = [j \in Jobs |-> {}]

Acquire(j, w, until) ==
  /\ \A l \in leases[j] : l.who # w /\ l.until =< now
  /\ leases' = [leases EXCEPT ![j] = @ \cup
                  {[who |-> w, since |-> now, until |-> until]}]
  /\ UNCHANGED now

Release(j, w) ==
  /\ \E l \in leases[j] : l.who = w
  /\ leases' = [leases EXCEPT ![j] = {l \in @ : l.who # w}]
  /\ UNCHANGED now

Tick == now' = now + 1 /\ UNCHANGED leases

Next == \/ \E j \in Jobs, w \in Owners, until \in Times : Acquire(j, w, until)
        \/ \E j \in Jobs, w \in Owners : Release(j, w)
        \/ Tick

Spec == Init /\ [][Next]_<<now, leases>>
=============================================================================
