---------------------------- MODULE UnboundedChan ----------------------------
(***************************************************************************)
(* antsx.UnboundedChan: a queue without a limit behind a mutex and a       *)
(* condition variable.  Of the values only their number is kept.  The      *)
(* mutex is held across steps in one place only: by a receiver that has    *)
(* found nothing and is about to sleep.                                    *)
(***************************************************************************)
EXTENDS Naturals, FiniteSets

CONSTANTS
  Receivers,
  MaxSends   \* bound: the values sent to a channel

ASSUME ChanAssumption == IsFiniteSet(Receivers) /\ MaxSends \in Nat

VARIABLES
  unread,    \* how many values the buffer holds
  sends,     \* how many were sent
  chClosed,
  rcv,       \* what every receiver does
  rctx,      \* the context of its last call; Receive has none
  watcher    \* the goroutine of that call that waits for the context and for done

chanVars == <<unread, sends, chClosed, rcv, rctx, watcher>>

ChanTypeOK ==
  /\ sends \in 0..MaxSends /\ unread \in 0..sends /\ chClosed \in BOOLEAN
  /\ rcv \in [Receivers -> {"idle", "test", "wait", "asleep"}]
  /\ rctx \in [Receivers -> {"none", "live", "ended"}]
  /\ watcher \in [Receivers -> {"off", "armed"}]

ChanInit ==
  /\ unread = 0 /\ sends = 0 /\ chClosed = FALSE
  /\ rcv = [r \in Receivers |-> "idle"]
  /\ rctx = [r \in Receivers |-> "none"]
  /\ watcher = [r \in Receivers |-> "off"]

QueueFree == \A r \in Receivers : rcv[r] # "wait"
Asleep == {r \in Receivers : rcv[r] = "asleep"}
Looking == {r \in Receivers : rcv[r] = "test"}
Woken(rs) == [r \in Receivers |-> IF r \in rs THEN "test" ELSE rcv[r]]

\* Mutant: whoever sends to a queue that is not empty wakes nobody.
SendValueQuietly ==
  /\ QueueFree /\ ~chClosed /\ sends < MaxSends
  /\ unread' = unread + 1 /\ sends' = sends + 1
  /\ IF Asleep = {} \/ unread > 0 THEN UNCHANGED rcv ELSE \E r \in Asleep : rcv' = Woken({r})
  /\ UNCHANGED <<chClosed, rctx, watcher>>

\* Send and TrySend; on a closed channel one panics, the other returns false.
SendValue ==
  /\ QueueFree /\ ~chClosed /\ sends < MaxSends
  /\ unread' = unread + 1 /\ sends' = sends + 1
  /\ IF Asleep = {} THEN UNCHANGED rcv ELSE \E r \in Asleep : rcv' = Woken({r})
  /\ UNCHANGED <<chClosed, rctx, watcher>>

CloseChan ==
  /\ QueueFree /\ ~chClosed
  /\ chClosed' = TRUE /\ rcv' = Woken(Asleep)
  /\ UNCHANGED <<unread, sends, rctx, watcher>>

\* Receive or ReceiveContext, up to mu.Lock.  A receiver calls again once the
\* watcher of its last call is gone.
CallReceive(r, ctx) ==
  /\ rcv[r] = "idle" /\ watcher[r] = "off"
  /\ rcv' = [rcv EXCEPT ![r] = "test"] /\ rctx' = [rctx EXCEPT ![r] = ctx]
  /\ watcher' = [watcher EXCEPT ![r] = IF ctx = "none" THEN "off" ELSE "armed"]
  /\ UNCHANGED <<unread, sends, chClosed>>

RcvContextEnds(r) ==
  /\ rctx[r] = "live" /\ rctx' = [rctx EXCEPT ![r] = "ended"]
  /\ UNCHANGED <<unread, sends, chClosed, rcv, watcher>>

\* The test of the loop, under the mutex: a value, the end of the channel or of
\* the context returns, otherwise the receiver keeps the mutex up to Wait.
TestQueue(r) ==
  /\ rcv[r] = "test" /\ QueueFree
  /\ unread' = IF unread > 0 THEN unread - 1 ELSE 0
  /\ rcv' = [rcv EXCEPT ![r] =
               IF unread > 0 \/ chClosed \/ rctx[r] = "ended" THEN "idle" ELSE "wait"]
  /\ UNCHANGED <<sends, chClosed, rctx, watcher>>

FallAsleep(r) ==
  /\ rcv[r] = "wait" /\ rcv' = [rcv EXCEPT ![r] = "asleep"]
  /\ UNCHANGED <<unread, sends, chClosed, rctx, watcher>>

\* The watcher broadcasts without the mutex, or finds done closed.
WakeAll(r) ==
  /\ watcher[r] = "armed" /\ rctx[r] = "ended"
  /\ rcv' = Woken(Asleep) /\ watcher' = [watcher EXCEPT ![r] = "off"]
  /\ UNCHANGED <<unread, sends, chClosed, rctx>>

WatcherQuits(r) ==
  /\ watcher[r] = "armed" /\ rcv[r] = "idle"
  /\ watcher' = [watcher EXCEPT ![r] = "off"]
  /\ UNCHANGED <<unread, sends, chClosed, rcv, rctx>>

ReceiverStep(r) ==
  \/ TestQueue(r) \/ FallAsleep(r) \/ WakeAll(r) \/ WatcherQuits(r) \/ RcvContextEnds(r)
  \/ \E ctx \in {"none", "live", "ended"} : CallReceive(r, ctx)

ChanNext == SendValue \/ CloseChan \/ \E r \in Receivers : ReceiverStep(r)

ChanSpec == ChanInit /\ [][ChanNext]_chanVars

-----------------------------------------------------------------------------
(* Properties. *)

\* No wakeup is lost between senders, receivers and Close: while somebody sleeps
\* the channel is open, and for every value in the queue a receiver is awake and
\* about to look, however many came and went since the value was sent.
NoSleepOverValues ==
  Asleep # {} => /\ ~chClosed
                 /\ unread <= Cardinality(Looking)
=============================================================================
