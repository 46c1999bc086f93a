---------------------------- MODULE PendingReplies ----------------------------
(***************************************************************************)
(* What antsx.ReplyPool promises its users (comments of replypool.go): a   *)
(* request waits alone under its key until one reply, one error, its       *)
(* timeout or Close finishes it, in one instant and for good, and then the *)
(* key is free.                                                            *)
(***************************************************************************)
CONSTANTS Requests, Keys, None, Errors

VARIABLES
  waiting,  \* the request that waits under every key, or None
  outcome,  \* what every request has come to: None, "waiting" or how it ended
  open      \* whether Register accepts requests

pendingReplies == <<waiting, outcome, open>>

PendingInit ==
  /\ waiting = [k \in Keys |-> None]
  /\ outcome = [r \in Requests |-> None]
  /\ open = TRUE

Begin(r, k) ==
  /\ open /\ waiting[k] = None /\ outcome[r] = None
  /\ waiting' = [waiting EXCEPT ![k] = r]
  /\ outcome' = [outcome EXCEPT ![r] = "waiting"]
  /\ UNCHANGED open

\* The first of reply, error and timeout; for the others nobody waits.
Finish(k, how) ==
  /\ waiting[k] # None
  /\ waiting' = [waiting EXCEPT ![k] = None]
  /\ outcome' = [outcome EXCEPT ![waiting[k]] = how]
  /\ UNCHANGED open

\* Everybody who waits is told.
CloseAll ==
  /\ open /\ open' = FALSE
  /\ waiting' = [k \in Keys |-> None]
  /\ outcome' = [r \in Requests |-> IF \E k \in Keys : waiting[k] = r
                                    THEN "closed" ELSE outcome[r]]

PendingNext ==
  \/ \E r \in Requests, k \in Keys : Begin(r, k)
  \/ \E k \in Keys, how \in Requests \cup Errors : Finish(k, how)
  \/ CloseAll

PendingSpec == PendingInit /\ [][PendingNext]_pendingReplies

-----------------------------------------------------------------------------
(* What follows from it. *)

\* Who waits, waits under exactly one key, and nobody waits in a closed pool.
HeldOnce ==
  /\ \A r \in Requests : outcome[r] = "waiting" <=> \E k \in Keys : waiting[k] = r
  /\ \A k, l \in Keys : waiting[k] = waiting[l] /\ waiting[k] # None => k = l
  /\ ~open => \A k \in Keys : waiting[k] = None

\* How a request has ended never changes.
KeepsDecided ==
  \A r \in Requests : outcome[r] \notin {None, "waiting"} => outcome'[r] = outcome[r]

DecidedOnce == [][KeepsDecided]_pendingReplies
=============================================================================
