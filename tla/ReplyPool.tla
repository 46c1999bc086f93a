------------------------------ MODULE ReplyPool ------------------------------
(***************************************************************************)
(* antsx.ReplyPool: requests wait under a key for the reply that carries   *)
(* the key, with one timing wheel for all of them.  The map of waiting     *)
(* entries is guarded by a mutex; the wheel and the promise are not, so    *)
(* what is done to them after the unlock is an action of its own.          *)
(* The wheel is go-zero's collection.TimingWheel: it drops a timer when it *)
(* hands the key to a goroutine that calls handleTimeout.                  *)
(***************************************************************************)
CONSTANTS Requests, Keys, None

VARIABLES
  pending,   \* the request that waits under every key, or None
  timers,    \* keys with a timer in the wheel
  fired,     \* keys handed to handleTimeout, which has not taken the mutex
  taken,     \* entries taken out by Resolve, Reject or handleTimeout
  promise,   \* what every request's promise is settled with
  pool,      \* how far Close is
  snapshot   \* the requests Close is going to reject

entries  == <<pending, taken, promise>>
wheel    == <<timers, fired>>
closing  == <<pool, snapshot>>
poolVars == <<pending, timers, fired, taken, promise, pool, snapshot>>

Errors == {"failed", "expired"}

\* A reply is named by the request it answers.
PoolTypeOK ==
  /\ pending \in [Keys -> Requests \cup {None}]
  /\ timers \subseteq Keys /\ fired \subseteq Keys
  /\ taken \subseteq [req : Requests, key : Keys, how : Requests \cup Errors]
  /\ promise \in [Requests -> {None, "waiting", "closed"} \cup Requests \cup Errors]
  /\ pool \in {"open", "marked", "stopped", "closed"}
  /\ snapshot \subseteq Requests

PoolInit ==
  /\ pending = [k \in Keys |-> None]
  /\ timers = {} /\ fired = {} /\ taken = {}
  /\ promise = [r \in Requests |-> None]
  /\ pool = "open" /\ snapshot = {}

\* Mutant: the closed flag is not looked at.
AcceptsAlways == TRUE

\* ErrReplyClosed and ErrDuplicateID.
Accepts == pool = "open"
Duplicate(k) == pending[k] # None

\* Register up to the unlock.
Insert(r, k) ==
  /\ Accepts /\ ~Duplicate(k)
  /\ pending' = [pending EXCEPT ![k] = r]
  /\ promise' = [promise EXCEPT ![r] = "waiting"]
  /\ UNCHANGED <<taken, wheel, closing>>

WheelRuns == pool \in {"open", "marked"}

\* Mutant: the timer is never started.
SetTimerNever(k) ==
  /\ pending' = IF WheelRuns THEN pending ELSE [pending EXCEPT ![k] = None]
  /\ UNCHANGED <<wheel, taken, promise, closing>>

\* Register after the unlock; a stopped wheel refuses and the entry goes.
SetTimer(k) ==
  /\ IF WheelRuns THEN timers' = timers \cup {k} /\ UNCHANGED pending
                  ELSE pending' = [pending EXCEPT ![k] = None] /\ UNCHANGED timers
  /\ UNCHANGED <<fired, taken, promise, closing>>

\* Mutant: nobody looks whether there is an entry.
TakeOutBlindly(k, how) ==
  /\ pending' = [pending EXCEPT ![k] = None]
  /\ taken' = taken \cup {[req |-> pending[k], key |-> k, how |-> how]}

\* Mutant: the entry is not deleted.
TakeOutKeeps(k, how) ==
  /\ taken' = IF pending[k] = None THEN taken
              ELSE taken \cup {[req |-> pending[k], key |-> k, how |-> how]}
  /\ UNCHANGED pending

\* Resolve, Reject and handleTimeout up to the unlock.
TakeOut(k, how) ==
  /\ pending' = [pending EXCEPT ![k] = None]
  /\ taken' = IF pending[k] = None THEN taken
              ELSE taken \cup {[req |-> pending[k], key |-> k, how |-> how]}

\* The timer is removed by key (not after a timeout), the promise is settled.
Settle(t) ==
  /\ t \in taken
  /\ taken' = taken \ {t}
  /\ timers' = IF t.how = "expired" THEN timers ELSE timers \ {t.key}
  /\ promise' = [promise EXCEPT ![t.req] = IF @ = "waiting" THEN t.how ELSE @]
  /\ UNCHANGED <<pending, fired, closing>>

Fire(k) ==
  /\ WheelRuns /\ k \in timers
  /\ timers' = timers \ {k} /\ fired' = fired \cup {k}
  /\ UNCHANGED <<entries, closing>>

HandleTimeout(k) ==
  /\ k \in fired
  /\ fired' = fired \ {k}
  /\ TakeOut(k, "expired")
  /\ UNCHANGED <<timers, promise, closing>>

\* Mutant: the entries are dropped, not copied.
CloseMarkDrops ==
  /\ pool = "open"
  /\ pool' = "marked"
  /\ pending' = [k \in Keys |-> None]
  /\ UNCHANGED <<taken, promise, wheel, snapshot>>

\* Close: mark and copy under the mutex, stop the wheel, reject the copy.
CloseMark ==
  /\ pool = "open"
  /\ pool' = "marked"
  /\ snapshot' = {pending[k] : k \in Keys} \ {None}
  /\ pending' = [k \in Keys |-> None]
  /\ UNCHANGED <<taken, promise, wheel>>

CloseStop ==
  /\ pool = "marked"
  /\ pool' = "stopped" /\ timers' = {}
  /\ UNCHANGED <<fired, entries, snapshot>>

CloseReject ==
  /\ pool = "stopped"
  /\ pool' = "closed" /\ snapshot' = {}
  /\ promise' = [r \in Requests |-> IF r \in snapshot /\ promise[r] = "waiting"
                                    THEN "closed" ELSE promise[r]]
  /\ UNCHANGED <<pending, taken, wheel>>

-----------------------------------------------------------------------------
(* Properties. *)

\* What a request has come to, with everything in flight: an entry that has been
\* taken out is as good as settled, and so is what Close is going to reject.
Outcome(r) ==
  IF promise[r] # "waiting" THEN promise[r]
  ELSE IF \E t \in taken : t.req = r
       THEN CHOOSE how \in Requests \cup Errors : \E t \in taken : t.req = r /\ t.how = how
  ELSE IF r \in snapshot THEN "closed" ELSE "waiting"

Replies == INSTANCE PendingReplies WITH
  waiting <- pending, outcome <- [r \in Requests |-> Outcome(r)], open <- (pool = "open")

\* Register, Resolve, Reject, the timing wheel and Close, which let go of the
\* mutex before they touch the wheel and the promise, race for every entry, and
\* yet each request is finished as if in one instant: by the first who takes its
\* entry, with what that one brings, and never again.
PoolImplemented == Replies!PendingSpec
=============================================================================
