---------------------------- MODULE LibrariesProofs ----------------------------
(***************************************************************************)
(* Proofs about the libraries of MCLibraries that have no proofs module of *)
(* their own, for any number of threads and values: nobody waits in vain   *)
(* at an unbounded channel, Invoke answers rightly, the emitter sends on   *)
(* no closed stream and serves every subscriber, the MQTT client installs  *)
(* every handler.  And the libraries side by side keep their types.        *)
(***************************************************************************)
EXTENDS MCLibraries, GnetxServerProofs, FiniteSetTheorems, TLAPS

USE ChanAssumption

(* The unbounded channel. *)

\* Whoever has tested the queue and is about to sleep keeps the mutex, so what he
\* found is still so.
WaiterInv == \A r \in Receivers : rcv[r] = "wait" => unread = 0 /\ ~chClosed

ChanInv == ChanTypeOK /\ WaiterInv /\ NoSleepOverValues

\* The receivers about to look are finitely many.
LEMMA LookingFinite == IsFiniteSet(Looking) /\ Cardinality(Looking) \in Nat
<1>1. Looking \subseteq Receivers BY DEF Looking
<1> QED BY <1>1, FS_Subset, FS_CardinalityType

\* A channel begins empty, open and with nobody waiting.
LEMMA ChanInitInv == ChanInit => ChanInv
<1> SUFFICES ASSUME ChanInit PROVE ChanInv OBVIOUS
<1>1. ChanTypeOK
  <2>1. sends \in 0..MaxSends /\ unread \in 0..sends BY DEF ChanInit
  <2>2. chClosed \in BOOLEAN BY Zenon DEF ChanInit
  <2>3. rcv \in [Receivers -> {"idle", "test", "wait", "asleep"}] BY DEF ChanInit
  <2>4. rctx \in [Receivers -> {"none", "live", "ended"}] BY DEF ChanInit
  <2>5. watcher \in [Receivers -> {"off", "armed"}] BY DEF ChanInit
  <2> QED BY <2>1, <2>2, <2>3, <2>4, <2>5 DEF ChanTypeOK
<1>2. WaiterInv BY DEF ChanInit, WaiterInv
<1>3. Asleep = {} BY DEF ChanInit, Asleep
<1> QED BY <1>1, <1>2, <1>3 DEF ChanInv, NoSleepOverValues

\* A value wakes one sleeper, who counts for it from then on.
LEMMA SendKeeps == ChanInv /\ SendValue => ChanInv'
<1> SUFFICES ASSUME ChanInv, SendValue PROVE ChanInv' OBVIOUS
<1> USE DEF ChanInv, ChanTypeOK
<1>1. CASE Asleep = {}
  <2>1. rcv' = rcv /\ chClosed' = chClosed BY <1>1 DEF SendValue
  <2>2. Asleep' = {} BY <1>1, <2>1 DEF Asleep
  <2>3. ChanTypeOK' BY <2>1 DEF SendValue
  <2>4. WaiterInv' BY <2>1 DEF SendValue, WaiterInv, QueueFree
  <2> QED BY <2>2, <2>3, <2>4 DEF NoSleepOverValues
<1>2. CASE Asleep # {}
  <2>1. PICK r \in Asleep : rcv' = Woken({r}) BY <1>2 DEF SendValue
  <2>2. r \in Receivers /\ rcv[r] = "asleep" BY DEF Asleep
  <2>3. rcv' = [q \in Receivers |-> IF q = r THEN "test" ELSE rcv[q]] BY <2>1 DEF Woken
  <2>4. ChanTypeOK' BY <2>3 DEF SendValue
  <2>5. WaiterInv' BY <2>3 DEF SendValue, WaiterInv, QueueFree
  <2>6. Looking' = Looking \cup {r} /\ r \notin Looking BY <2>2, <2>3 DEF Looking
  <2>7. Cardinality(Looking') = Cardinality(Looking) + 1 BY <2>6, LookingFinite, FS_AddElement
  <2>8. unread <= Cardinality(Looking) /\ ~chClosed BY <1>2 DEF NoSleepOverValues
  <2>9. unread' = unread + 1 /\ chClosed' = chClosed BY DEF SendValue
  <2>10. unread' <= Cardinality(Looking') BY <2>7, <2>8, <2>9, LookingFinite
  <2> QED BY <2>4, <2>5, <2>8, <2>9, <2>10 DEF NoSleepOverValues
<1> QED BY <1>1, <1>2

\* A receiver that looks takes a value with him, or finds none.
LEMMA TestKeeps == ASSUME NEW r \in Receivers, ChanInv, TestQueue(r) PROVE ChanInv'
<1> USE DEF ChanInv, ChanTypeOK
<1>1. rcv' \in [Receivers -> {"idle", "test", "wait", "asleep"}] BY DEF TestQueue
<1>2. ChanTypeOK' BY <1>1 DEF TestQueue
<1>3. WaiterInv' BY DEF TestQueue, WaiterInv, QueueFree
<1>4. Looking' = Looking \ {r} /\ r \in Looking /\ Asleep' = Asleep
  BY DEF TestQueue, Looking, Asleep
<1>5. Cardinality(Looking') = Cardinality(Looking) - 1
  BY <1>4, LookingFinite, FS_RemoveElement
<1>6. Cardinality(Looking') \in Nat
  BY <1>4, LookingFinite, FS_Subset, FS_CardinalityType
<1>7. NoSleepOverValues'
  BY <1>4, <1>5, <1>6, LookingFinite DEF NoSleepOverValues, TestQueue
<1> QED BY <1>2, <1>3, <1>7

\* Calls add to those who look; the other steps leave the queue alone, and whoever
\* falls asleep has found it empty.
LEMMA ReceiverKeeps == ASSUME NEW r \in Receivers, ChanInv, ReceiverStep(r) PROVE ChanInv'
<1> USE DEF ChanInv, ChanTypeOK
<1>1. CASE TestQueue(r) BY <1>1, TestKeeps
<1>2. CASE FallAsleep(r)
  <2>1. rcv[r] = "wait" /\ unread' = 0 /\ ~chClosed' BY <1>2 DEF FallAsleep, WaiterInv
  <2>2. ChanTypeOK' /\ WaiterInv' BY <1>2 DEF FallAsleep, WaiterInv
  <2>3. Looking' = Looking BY <1>2 DEF FallAsleep, Looking
  <2> QED BY <2>1, <2>2, <2>3, LookingFinite DEF NoSleepOverValues
<1>3. CASE WakeAll(r)
  <2>1. rcv' = [q \in Receivers |-> IF q \in Asleep THEN "test" ELSE rcv[q]]
    BY <1>3 DEF WakeAll, Woken
  <2>2. Asleep' = {} BY <2>1 DEF Asleep
  <2>3. ChanTypeOK' BY <1>3, <2>1 DEF WakeAll
  <2>4. WaiterInv' BY <1>3, <2>1 DEF WakeAll, WaiterInv
  <2> QED BY <2>2, <2>3, <2>4 DEF NoSleepOverValues
<1>4. CASE WatcherQuits(r) \/ RcvContextEnds(r)
  BY <1>4 DEF WatcherQuits, RcvContextEnds, WaiterInv, NoSleepOverValues, Asleep, Looking
<1>5. CASE \E ctx \in {"none", "live", "ended"} : CallReceive(r, ctx)
  <2>0. PICK ctx \in {"none", "live", "ended"} : CallReceive(r, ctx) BY <1>5
  <2>1. ChanTypeOK' /\ WaiterInv' BY <2>0 DEF CallReceive, WaiterInv
  <2>2. Looking' = Looking \cup {r} /\ r \notin Looking /\ Asleep' = Asleep
    BY <2>0 DEF CallReceive, Looking, Asleep
  <2>3. Cardinality(Looking') = Cardinality(Looking) + 1
    BY <2>2, LookingFinite, FS_AddElement
  <2>4. unread' = unread /\ chClosed' = chClosed BY <2>0 DEF CallReceive
  <2>5. NoSleepOverValues' BY <2>2, <2>3, <2>4, LookingFinite DEF NoSleepOverValues
  <2> QED BY <2>1, <2>5
<1> QED BY <1>1, <1>2, <1>3, <1>4, <1>5 DEF ReceiverStep

LEMMA CloseKeeps == ChanInv /\ CloseChan => ChanInv'
<1> SUFFICES ASSUME ChanInv, CloseChan PROVE ChanInv' OBVIOUS
<1> USE DEF ChanInv, ChanTypeOK
<1>1. rcv' = [q \in Receivers |-> IF q \in Asleep THEN "test" ELSE rcv[q]]
  BY DEF CloseChan, Woken
<1>2. Asleep' = {} BY <1>1 DEF Asleep
<1>3. ChanTypeOK' BY <1>1 DEF CloseChan
<1>4. WaiterInv' BY <1>1 DEF CloseChan, WaiterInv, QueueFree
<1> QED BY <1>2, <1>3, <1>4 DEF NoSleepOverValues

\* The invariant of the channel.
LEMMA ChanInvariant == ChanSpec => []ChanInv
<1>1. ChanInv /\ [ChanNext]_chanVars => ChanInv'
  <2> SUFFICES ASSUME ChanInv, [ChanNext]_chanVars PROVE ChanInv' OBVIOUS
  <2>1. CASE SendValue BY <2>1, SendKeeps
  <2>2. CASE CloseChan BY <2>2, CloseKeeps
  <2>3. CASE \E r \in Receivers : ReceiverStep(r) BY <2>3, ReceiverKeeps
  <2>4. CASE UNCHANGED chanVars
    BY <2>4 DEF chanVars, ChanInv, ChanTypeOK, WaiterInv, NoSleepOverValues, Asleep, Looking
  <2> QED BY <2>1, <2>2, <2>3, <2>4 DEF ChanNext
<1> QED BY <1>1, ChanInitInv, PTL DEF ChanSpec

\* No wakeup is lost between Send, Receive and Close, with any number of receivers:
\* a receiver sleeps only while the channel is open and every value has somebody
\* awake to take it.
THEOREM NoLostWakeup == ChanSpec => []NoSleepOverValues
<1>1. ChanInv => NoSleepOverValues BY DEF ChanInv
<1> QED BY <1>1, ChanInvariant, PTL

\* Every variable of the channel keeps its type.
THEOREM ChanTypeCorrect == ChanSpec => []ChanTypeOK
<1>1. ChanInv => ChanTypeOK BY DEF ChanInv
<1> QED BY <1>1, ChanInvariant, PTL

-----------------------------------------------------------------------------
(* Invoke. *)

USE InvokeAssumption DEF Jobs

\* Before the call nothing has happened, and afterwards no task is under way.
CallInv ==
  /\ caller = "start" => /\ turn = 1
                         /\ \A i \in Jobs : job[i] = "new" /\ slot[i] = "empty"
  /\ caller \in {"values", "error", "refused"} => mode = "fast"
  /\ caller = "results" => mode = "settled"
  /\ Returned => Counted = {}

\* Tasks are submitted in their order; what counts for the WaitGroup and does not run
\* is the task that is being submitted.
JobsInv ==
  /\ \A i \in Jobs : job[i] = "added" => caller = "submit" /\ i = turn
  /\ \A i \in Jobs : i < turn => job[i] \notin {"new", "added"}
  /\ \A i \in Jobs : job[i] \in {"running", "failing"} => i < turn
  /\ \A i \in Jobs : job[i] = "failing" => fault[i] \in {"own", "canceled"}
  /\ caller = "submit" => turn \in Jobs
  /\ mode = "settled" => \A i \in Jobs : job[i] # "failing"

\* cancel is called behind the first error, so a task that sees its context end
\* before an error is kept owes that to the caller.
ErrorInv ==
  /\ errOnce = "idle" <=> firstErr = NoError
  /\ givenUp <=> errOnce = "done"
  /\ \A i \in Jobs : fault[i] = "canceled" => Canceled
  /\ firstErr = "canceled" => ctxEnded

\* InvokeWithReactor: a task ends with a value or behind an error, and the loop is
\* left early only when the context has ended.
FastInv ==
  mode = "fast" =>
    /\ \A i \in Jobs : job[i] = "ended" =>
         \/ slot[i] = "value"
         \/ errOnce = "done"
         \/ caller = "refused"
    /\ caller = "wait" => turn = N + 1 \/ Canceled
    /\ caller = "values" => \A i \in Jobs : slot[i] = "value"
    /\ caller = "error" => firstErr # NoError \/ ctxEnded

\* InvokeAllSettledWithReactor: a task ends with a result, and from the first one
\* that is refused all are.
SettledInv ==
  mode = "settled" =>
    /\ \A i \in Jobs : job[i] = "ended" => slot[i] # "empty"
    /\ \A i \in Jobs : slot[i] = "refused" => i >= turn /\ caller \in {"wait", "results"}
    /\ caller \in {"wait", "results"} =>
         \A i \in Jobs : i >= turn => slot[i] = "refused"
    /\ caller = "results" => \A i \in Jobs : slot[i] # "empty"

InvokeInv ==
  InvokeTypeOK /\ CallInv /\ JobsInv /\ ErrorInv /\ FastInv /\ SettledInv

\* Before a call the invariant holds.
LEMMA InvokeInitInv == InvokeInit => InvokeInv
<1> SUFFICES ASSUME InvokeInit PROVE InvokeInv OBVIOUS
<1>1. InvokeTypeOK
  <2>1. mode \in {"fast", "settled"} /\ turn \in 1..N+1 BY DEF InvokeInit
  <2>2. caller \in {"start", "loop", "submit", "refused", "wait", "values", "error", "results"}
    BY DEF InvokeInit
  <2>3. /\ job \in [Jobs -> {"new", "added", "running", "failing", "ended"}]
        /\ fault \in [Jobs -> {NoError, "own", "canceled"}]
        /\ slot \in [Jobs -> {"empty", "value", "error", "refused"}]
    BY DEF InvokeInit
  <2>4. givenUp \in BOOLEAN /\ ctxEnded \in BOOLEAN /\ released \in BOOLEAN
    BY Zenon DEF InvokeInit
  <2>5. firstErr \in Errors \cup {NoError} /\ errOnce \in {"idle", "inside", "done"}
    BY DEF InvokeInit
  <2> QED BY <2>1, <2>2, <2>3, <2>4, <2>5 DEF InvokeTypeOK
<1>2. CallInv BY DEF InvokeInit, CallInv, Returned
<1>3. JobsInv BY DEF InvokeInit, JobsInv
<1>4. ErrorInv BY DEF InvokeInit, ErrorInv
<1>5. FastInv BY DEF InvokeInit, FastInv
<1>6. SettledInv BY DEF InvokeInit, SettledInv
<1> QED BY <1>1, <1>2, <1>3, <1>4, <1>5, <1>6 DEF InvokeInv

\* The call begins with all tasks new.
LEMMA StartKeeps == ASSUME NEW m \in {"fast", "settled"}, InvokeInv, Start(m) PROVE InvokeInv'
<1> USE DEF InvokeInv, InvokeTypeOK, Start
<1>1. InvokeTypeOK' BY DEF Errors
<1>2. CallInv' BY DEF CallInv, Returned, Counted, JobsInv
<1>3. JobsInv' BY DEF JobsInv, CallInv
<1>4. ErrorInv' BY DEF ErrorInv, Canceled, Errors
<1>5. FastInv' BY DEF FastInv, CallInv, JobsInv, ErrorInv, Canceled, Counted, Returned
<1>6. SettledInv' BY DEF SettledInv, CallInv, JobsInv, Counted, Returned
<1> QED BY <1>1, <1>2, <1>3, <1>4, <1>5, <1>6

\* The loop goes on, or ends because all tasks are submitted or the context has ended.
LEMMA AddKeeps == ASSUME InvokeInv, Add PROVE InvokeInv'
<1> USE DEF InvokeInv, InvokeTypeOK, Add
<1>1. InvokeTypeOK' BY DEF Errors
<1>2. CallInv' BY DEF CallInv, Returned, Counted, JobsInv
<1>3. JobsInv' BY DEF JobsInv, CallInv
<1>4. ErrorInv' BY DEF ErrorInv, Canceled, Errors
<1>5. FastInv' BY DEF FastInv, CallInv, JobsInv, ErrorInv, Canceled, Counted, Returned
<1>6. SettledInv' BY DEF SettledInv, CallInv, JobsInv, Counted, Returned
<1> QED BY <1>1, <1>2, <1>3, <1>4, <1>5, <1>6

\* The task that was added is taken by the pool.
LEMMA SubmitKeeps == ASSUME InvokeInv, Submit PROVE InvokeInv'
<1> USE DEF InvokeInv, InvokeTypeOK, Submit
<1>1. InvokeTypeOK' BY DEF JobsInv
<1>2. CallInv' BY DEF CallInv, Returned, Counted, JobsInv
<1>3. JobsInv' BY DEF JobsInv, CallInv
<1>4. ErrorInv' BY DEF ErrorInv, Canceled, Errors
<1>5. FastInv' BY DEF FastInv, CallInv, JobsInv, ErrorInv, Canceled, Counted, Returned
<1>6. SettledInv' BY DEF SettledInv, CallInv, JobsInv, Counted, Returned
<1> QED BY <1>1, <1>2, <1>3, <1>4, <1>5, <1>6

\* The task that was added ends without having run, and with it the loop.
LEMMA RefusedKeeps == ASSUME InvokeInv, Refused PROVE InvokeInv'
<1> USE DEF InvokeInv, InvokeTypeOK, Refused
<1>1. InvokeTypeOK' BY DEF Errors
<1>2. CallInv' BY DEF CallInv, Returned, Counted, JobsInv
<1>3. JobsInv' BY DEF JobsInv, CallInv
<1>4. ErrorInv' BY DEF ErrorInv, Canceled, Errors
<1>5. FastInv' BY DEF FastInv, CallInv, JobsInv, ErrorInv, Canceled, Counted, Returned
<1>6. SettledInv' BY DEF SettledInv, CallInv, JobsInv, Counted, Returned
<1> QED BY <1>1, <1>2, <1>3, <1>4, <1>5, <1>6

\* wg.Wait returns when every task that was submitted has ended.
LEMMA ReturnKeeps == ASSUME InvokeInv, WaitReturns PROVE InvokeInv'
<1> USE DEF InvokeInv, InvokeTypeOK, WaitReturns
<1>1. InvokeTypeOK' BY DEF Errors
<1>2. CallInv' BY DEF CallInv, Returned, Counted, JobsInv
<1>3. JobsInv' BY DEF JobsInv, CallInv
<1>4. ErrorInv' BY DEF ErrorInv, Canceled, Errors
<1>5. FastInv' BY DEF FastInv, CallInv, JobsInv, ErrorInv, Canceled, Counted, Returned
<1>6. SettledInv' BY DEF SettledInv, CallInv, JobsInv, Counted, Returned
<1> QED BY <1>1, <1>2, <1>3, <1>4, <1>5, <1>6

\* The first error is kept, while cancel has not been called.
LEMMA KeepErrorKeeps == ASSUME NEW err \in Errors, err = "canceled" => Canceled, InvokeInv, KeepError(err) PROVE InvokeInv'
<1> USE DEF InvokeInv, InvokeTypeOK, KeepError
<1>1. InvokeTypeOK' BY DEF Errors
<1>2. CallInv' BY DEF CallInv, Returned, Counted, JobsInv
<1>3. JobsInv' BY DEF JobsInv, CallInv
<1>4. ErrorInv' BY DEF ErrorInv, Canceled, Errors
<1>5. FastInv' BY DEF FastInv, CallInv, JobsInv, ErrorInv, Canceled, Counted, Returned
<1>6. SettledInv' BY DEF SettledInv, CallInv, JobsInv, Counted, Returned
<1> QED BY <1>1, <1>2, <1>3, <1>4, <1>5, <1>6

\* cancel follows the error.
LEMMA CancelKeeps == ASSUME InvokeInv, CallCancel PROVE InvokeInv'
<1> USE DEF InvokeInv, InvokeTypeOK, CallCancel
<1>1. InvokeTypeOK' BY DEF Errors
<1>2. CallInv' BY DEF CallInv, Returned, Counted, JobsInv
<1>3. JobsInv' BY DEF JobsInv, CallInv
<1>4. ErrorInv' BY DEF ErrorInv, Canceled, Errors
<1>5. FastInv' BY DEF FastInv, CallInv, JobsInv, ErrorInv, Canceled, Counted, Returned
<1>6. SettledInv' BY DEF SettledInv, CallInv, JobsInv, Counted, Returned
<1> QED BY <1>1, <1>2, <1>3, <1>4, <1>5, <1>6

\* A task that has failed ends behind an error.
LEMMA TaskGivesUpKeeps == ASSUME NEW i \in Jobs, InvokeInv, TaskGivesUp(i) PROVE InvokeInv'
<1> USE DEF InvokeInv, InvokeTypeOK, TaskGivesUp
<1>1. InvokeTypeOK' BY DEF Errors
<1>2. CallInv' BY DEF CallInv, Returned, Counted, JobsInv
<1>3. JobsInv' BY DEF JobsInv, CallInv
<1>4. ErrorInv' BY DEF ErrorInv, Canceled, Errors
<1>5. FastInv' BY DEF FastInv, CallInv, JobsInv, ErrorInv, Canceled, Counted, Returned
<1>6. SettledInv' BY DEF SettledInv, CallInv, JobsInv, Counted, Returned
<1> QED BY <1>1, <1>2, <1>3, <1>4, <1>5, <1>6

\* A caller that was refused waits, with the context ended.
LEMMA CallerGivesUpKeeps == ASSUME InvokeInv, CallerGivesUp PROVE InvokeInv'
<1> USE DEF InvokeInv, InvokeTypeOK, CallerGivesUp
<1>1. InvokeTypeOK' BY DEF Errors
<1>2. CallInv' BY DEF CallInv, Returned, Counted, JobsInv
<1>3. JobsInv' BY DEF JobsInv, CallInv
<1>4. ErrorInv' BY DEF ErrorInv, Canceled, Errors
<1>5. FastInv' BY DEF FastInv, CallInv, JobsInv, ErrorInv, Canceled, Counted, Returned
<1>6. SettledInv' BY DEF SettledInv, CallInv, JobsInv, Counted, Returned
<1> QED BY <1>1, <1>2, <1>3, <1>4, <1>5, <1>6

\* A task ends with its value.
LEMMA SucceedKeeps == ASSUME NEW i \in Jobs, InvokeInv, Succeed(i) PROVE InvokeInv'
<1> USE DEF InvokeInv, InvokeTypeOK, Succeed
<1>1. InvokeTypeOK' BY DEF Errors
<1>2. CallInv' BY DEF CallInv, Returned, Counted, JobsInv
<1>3. JobsInv' BY DEF JobsInv, CallInv
<1>4. ErrorInv' BY DEF ErrorInv, Canceled, Errors
<1>5. FastInv' BY DEF FastInv, CallInv, JobsInv, ErrorInv, Canceled, Counted, Returned
<1>6. SettledInv' BY DEF SettledInv, CallInv, JobsInv, Counted, Returned
<1> QED BY <1>1, <1>2, <1>3, <1>4, <1>5, <1>6

\* A task fails.
LEMMA FailKeeps == ASSUME NEW i \in Jobs, NEW err \in {"own", "canceled"}, InvokeInv, Fail(i, err) PROVE InvokeInv'
<1> USE DEF InvokeInv, InvokeTypeOK, Fail
<1>1. InvokeTypeOK' BY DEF Errors
<1>2. CallInv' BY DEF CallInv, Returned, Counted, JobsInv
<1>3. JobsInv' BY DEF JobsInv, CallInv
<1>4. ErrorInv' BY DEF ErrorInv, Canceled, Errors
<1>5. FastInv' BY DEF FastInv, CallInv, JobsInv, ErrorInv, Canceled, Counted, Returned
<1>6. SettledInv' BY DEF SettledInv, CallInv, JobsInv, Counted, Returned
<1> QED BY <1>1, <1>2, <1>3, <1>4, <1>5, <1>6

\* The context ends, or the pool is released.
LEMMA OutsideOnlyKeeps == ASSUME InvokeInv, ContextEnds \/ Release PROVE InvokeInv'
<1> USE DEF InvokeInv, InvokeTypeOK, ContextEnds, Release
<1>1. InvokeTypeOK' OBVIOUS
<1>2. CallInv' BY DEF CallInv, Returned, Counted
<1>3. JobsInv' BY DEF JobsInv
<1>4. ErrorInv' BY DEF ErrorInv, Canceled
<1>5. FastInv' BY DEF FastInv, Canceled
<1>6. SettledInv' BY DEF SettledInv
<1> QED BY <1>1, <1>2, <1>3, <1>4, <1>5, <1>6

\* A task keeps an error of its own, and the caller the one of the pool.
LEMMA KeepersKeep == ASSUME InvokeInv, CallerKeepsError \/ \E i \in Jobs : TaskKeepsError(i)
                     PROVE  InvokeInv'
<1>1. ASSUME CallerKeepsError PROVE InvokeInv'
  <2>1. "refused" \in Errors /\ KeepError("refused") BY <1>1 DEF CallerKeepsError, Errors
  <2> QED BY <2>1, KeepErrorKeeps
<1>2. ASSUME NEW i \in Jobs, TaskKeepsError(i) PROVE InvokeInv'
  <2>1. fault[i] \in {"own", "canceled"} /\ (fault[i] = "canceled" => Canceled)
    BY <1>2 DEF TaskKeepsError, InvokeInv, JobsInv, ErrorInv
  <2>2. fault[i] \in Errors BY <2>1 DEF Errors
  <2>3. KeepError(fault[i]) BY <1>2 DEF TaskKeepsError
  <2> QED BY <2>1, <2>2, <2>3, KeepErrorKeeps
<1> QED BY <1>1, <1>2

\* The invariant of Invoke.
LEMMA InvokeInvariant == InvokeSpec => []InvokeInv
<1>1. InvokeInv /\ [InvokeNext]_invokeVars => InvokeInv'
  <2> SUFFICES ASSUME InvokeInv, [InvokeNext]_invokeVars PROVE InvokeInv' OBVIOUS
  <2>1. CASE \E m \in {"fast", "settled"} : Start(m) BY <2>1, StartKeeps
  <2>2. CASE CallerStep
    BY <2>2, AddKeeps, SubmitKeeps, RefusedKeeps, KeepersKeep, CallerGivesUpKeeps, ReturnKeeps
       DEF CallerStep
  <2>3. CASE CallCancel BY <2>3, CancelKeeps
  <2>4. CASE \E i \in Jobs : TaskStep(i)
    <3>1. PICK i \in Jobs : TaskStep(i) BY <2>4
    <3> QED BY <3>1, SucceedKeeps, KeepersKeep, TaskGivesUpKeeps, FailKeeps DEF TaskStep
  <2>5. CASE ContextEnds \/ Release BY <2>5, OutsideOnlyKeeps
  <2>6. CASE UNCHANGED invokeVars
    BY <2>6 DEF invokeVars, InvokeInv, InvokeTypeOK, CallInv, JobsInv, ErrorInv, FastInv,
                SettledInv, Returned, Counted, Canceled
  <2> QED BY <2>1, <2>2, <2>3, <2>4, <2>5, <2>6 DEF InvokeNext
<1> QED BY <1>1, InvokeInitInv, PTL DEF InvokeSpec

\* Whatever fails, is refused or is cancelled between, the two functions answer as
\* they promise, for any number of tasks and any size of the pool: no call waits for a
\* task the pool refused, no value is missing, no error hides behind the cancellation
\* it has caused.
THEOREM InvokeAnswersRight == InvokeSpec => []InvokeAnswers
<1>1. InvokeInv => InvokeAnswers
  BY DEF InvokeInv, InvokeTypeOK, InvokeAnswers, CallInv, JobsInv, ErrorInv, FastInv,
         SettledInv, Returned, Counted
<1> QED BY <1>1, InvokeInvariant, PTL

\* Every variable of a fan-out keeps its type.
THEOREM InvokeTypeCorrect == InvokeSpec => []InvokeTypeOK
<1>1. InvokeInv => InvokeTypeOK
  BY DEF InvokeInv
<1> QED BY <1>1, InvokeInvariant, PTL

-----------------------------------------------------------------------------
(* The emitter: nothing is sent on a closed stream, for any number of calls  *)
(* of Emit and of subscribers and any size of stream.                        *)

USE EmitterAssumption

Places == {"idle", "send", "sending", "stop", "closing", "end"}

\* The parts of the type that the argument needs, and the other ones.
CoreTypeOK ==
  /\ topic \in Seq(Subs) /\ joined \subseteq Subs
  /\ mutex \in [Subs -> Values \cup {Nobody}]
  /\ stopped \in [Subs -> BOOLEAN] /\ itemsClosed \in [Subs -> BOOLEAN]
  /\ call \in [EmThreads -> [at : Places, todo : Seq(Subs)]]

RestTypeOK ==
  /\ emClosed \in BOOLEAN
  /\ stopOnce \in [Subs -> {"idle", "running", "done"}]
  /\ items \in [Subs -> 0..BufSize]
  /\ reader \in [Subs -> {"reading", "left", "closed", "ended"}]
  /\ due \in [Values -> SUBSET Subs] /\ put \in [Values -> SUBSET Subs]

LEMMA TypeParts == EmitterTypeOK <=> CoreTypeOK /\ RestTypeOK
BY DEF EmitterTypeOK, CoreTypeOK, RestTypeOK, Places

\* All of a list have subscribed.
Known(list) == \A i \in 1..Len(list) : list[i] \in joined

\* Whoever has a subscriber to go to has it at the head of the list.
Busy(t) == call[t].at \in {"send", "sending", "stop", "closing"}
ListInv ==
  /\ Known(topic)
  /\ \A t \in EmThreads : Known(call[t].todo) /\ (Busy(t) => call[t].todo # <<>>)

\* Whoever writes holds the mutex of a subscriber that is not stopped.  The
\* stream of a subscriber is closed exactly when it is stopped.
WriterInv ==
  /\ \A s \in Subs : itemsClosed[s] <=> stopped[s]
  /\ \A v \in Values : CallAt(v, "sending") => mutex[First(v)] = v /\ ~stopped[First(v)]

EmInv == CoreTypeOK /\ RestTypeOK /\ ListInv /\ WriterInv

-----------------------------------------------------------------------------
(* Lists. *)

\* What a step of a thread does to its list: the rest of it, or a new one.
LEMMA TailType ==
  ASSUME NEW list \in Seq(Subs), list # <<>>
  PROVE  /\ Head(list) \in Subs /\ Tail(list) \in Seq(Subs)
         /\ Known(list) => Head(list) \in joined /\ Known(Tail(list))
<1>1. Len(list) \in Nat /\ Len(list) >= 1 /\ Head(list) = list[1]
  OBVIOUS
<1>2. Tail(list) \in Seq(Subs) /\ Len(Tail(list)) = Len(list) - 1
      /\ \A i \in 1..Len(Tail(list)) : Tail(list)[i] = list[i + 1]
  BY <1>1
<1>3. Known(list) => Known(Tail(list))
  BY <1>1, <1>2 DEF Known
<1> QED BY <1>1, <1>2, <1>3 DEF Known

\* A thread whose list is known and not used up keeps it so.
MovesWell(t, place, list) ==
  /\ place \in Places /\ list \in Seq(Subs) /\ Known(list)
  /\ place \in {"send", "sending", "stop", "closing"} => list # <<>>

LEMMA MovesKeep ==
  ASSUME CoreTypeOK, ListInv, NEW t \in EmThreads, NEW place, NEW list,
         Moves(t, place, list), MovesWell(t, place, list),
         joined \subseteq joined', joined' \subseteq Subs,
         topic' \in Seq(Subs), Known(topic)'
  PROVE  /\ call' \in [EmThreads -> [at : Places, todo : Seq(Subs)]]
         /\ call'[t].at = place /\ call'[t].todo = list
         /\ \A u \in EmThreads : u # t => call'[u] = call[u]
         /\ ListInv'
<1>1. /\ call \in [EmThreads -> [at : Places, todo : Seq(Subs)]]
      /\ call' = [call EXCEPT ![t] = [at |-> place, todo |-> list]]
      /\ [at |-> place, todo |-> list] \in [at : Places, todo : Seq(Subs)]
  BY DEF CoreTypeOK, Moves, MovesWell
<1>2. /\ call' \in [EmThreads -> [at : Places, todo : Seq(Subs)]]
      /\ call'[t] = [at |-> place, todo |-> list]
      /\ \A u \in EmThreads : u # t => call'[u] = call[u]
  BY <1>1
<1>3. ASSUME NEW u \in EmThreads
      PROVE  /\ \A i \in 1..Len(call'[u].todo) : call'[u].todo[i] \in joined'
             /\ call'[u].at \in {"send", "sending", "stop", "closing"} => call'[u].todo # <<>>
  <2>1. CASE u = t
    BY <1>2, <2>1 DEF MovesWell, Known
  <2>2. CASE u # t
    BY <1>2, <2>2 DEF ListInv, Known, Busy
  <2> QED BY <2>1, <2>2
<1>4. ListInv'
  BY <1>3 DEF ListInv, Known, Busy
<1> QED BY <1>2, <1>4

\* On to the next of the list.
LEMMA Next1Well ==
  ASSUME CoreTypeOK, ListInv, NEW t \in EmThreads, Busy(t), NEW place \in Places, Next1(t, place)
  PROVE  /\ First(t) \in Subs /\ First(t) \in joined
         /\ \E to \in {place, "end"} : Moves(t, to, Tail(call[t].todo))
                                       /\ MovesWell(t, to, Tail(call[t].todo))
<1>1. call[t].todo \in Seq(Subs) /\ call[t].todo # <<>> /\ Known(call[t].todo)
  BY DEF CoreTypeOK, ListInv
<1>2. /\ Tail(call[t].todo) \in Seq(Subs) /\ Known(Tail(call[t].todo))
      /\ First(t) \in Subs /\ First(t) \in joined
  BY <1>1, TailType DEF First
<1>3. CASE Tail(call[t].todo) = <<>>
  BY <1>2, <1>3 DEF Next1, MovesWell, Places
<1>4. CASE Tail(call[t].todo) # <<>>
  BY <1>2, <1>4 DEF Next1, MovesWell
<1> QED BY <1>2, <1>3, <1>4

\* From the head of the list to the next place, with the same list.
LEMMA SameWell ==
  ASSUME CoreTypeOK, ListInv, NEW t \in EmThreads, Busy(t), NEW place \in Places
  PROVE  First(t) \in Subs /\ First(t) \in joined /\ MovesWell(t, place, call[t].todo)
BY TailType DEF CoreTypeOK, ListInv, MovesWell, First

\* The topic becomes the list of a call.
LEMMA BeginWell ==
  ASSUME NEW t \in EmThreads, NEW place \in Places, NEW list \in Seq(Subs), Known(list),
         Begin(t, place, list)
  PROVE  \E to \in {place, "end"} : Moves(t, to, list) /\ MovesWell(t, to, list)
BY DEF Begin, MovesWell, Places

-----------------------------------------------------------------------------
(* The steps. *)

LEMMA EmInitInv == EmitterInit => EmInv
<1> SUFFICES ASSUME EmitterInit PROVE EmInv
  OBVIOUS
<1>1. topic = <<>> /\ \A t \in EmThreads : call[t] = [at |-> "idle", todo |-> <<>>]
  BY DEF EmitterInit
<1>2. CoreTypeOK
  BY DEF EmitterInit, CoreTypeOK, Places
<1>3. RestTypeOK
  <2>1. emClosed \in BOOLEAN
    BY Zenon DEF EmitterInit
  <2>2. /\ stopOnce \in [Subs -> {"idle", "running", "done"}]
        /\ items \in [Subs -> 0..BufSize]
        /\ reader \in [Subs -> {"reading", "left", "closed", "ended"}]
        /\ due \in [Values -> SUBSET Subs] /\ put \in [Values -> SUBSET Subs]
    BY DEF EmitterInit
  <2> QED BY <2>1, <2>2 DEF RestTypeOK
<1>4. ListInv
  BY <1>1 DEF ListInv, Known, Busy
<1>5. WriterInv
  BY <1>1 DEF EmitterInit, WriterInv, CallAt, EmThreads
<1> QED BY <1>2, <1>3, <1>4, <1>5 DEF EmInv

\* A subscriber of a closed emitter is stopped before anybody knows it.
LEMMA SubscribeInv == ASSUME EmInv, NEW s \in Subs, Subscribe(s) PROVE EmInv'
<1>1. /\ joined' = joined \cup {s} /\ s \notin joined
      /\ UNCHANGED <<emClosed, mutex, items, reader, call, due, put>>
  BY DEF Subscribe
<1>2. topic' \in Seq(Subs) /\ Known(topic)'
  <2>1. CASE emClosed
    BY <1>1, <2>1 DEF Subscribe, EmInv, CoreTypeOK, ListInv, Known
  <2>2. CASE ~emClosed
    <3>1. topic' = Append(topic, s) /\ topic \in Seq(Subs)
      BY <2>2 DEF Subscribe, EmInv, CoreTypeOK
    <3>2. /\ topic' \in Seq(Subs) /\ Len(topic') = Len(topic) + 1 /\ Len(topic) \in Nat
          /\ \A i \in 1..Len(topic) : topic'[i] = topic[i]
          /\ topic'[Len(topic) + 1] = s
      BY <3>1
    <3>3. ASSUME NEW i \in 1..Len(topic') PROVE topic'[i] \in joined'
      <4>1. CASE i = Len(topic) + 1
        BY <4>1, <1>1, <3>2
      <4>2. CASE i # Len(topic) + 1
        <5>1. i \in 1..Len(topic)
          BY <4>2, <3>2
        <5> QED BY <5>1, <1>1, <3>2 DEF EmInv, ListInv, Known
      <4> QED BY <4>1, <4>2
    <3> QED BY <3>2, <3>3 DEF Known
  <2> QED BY <2>1, <2>2
<1>3. ListInv'
  BY <1>1, <1>2 DEF EmInv, ListInv, Known, Busy
<1>4. /\ stopped' \in [Subs -> BOOLEAN] /\ itemsClosed' \in [Subs -> BOOLEAN]
      /\ stopOnce' \in [Subs -> {"idle", "running", "done"}]
      /\ \A q \in Subs : q # s => stopped'[q] = stopped[q]
      /\ \A q \in Subs : itemsClosed'[q] <=> stopped'[q]
  <2>1. CASE emClosed
    <3>1. /\ stopped' = [stopped EXCEPT ![s] = TRUE]
          /\ stopOnce' = [stopOnce EXCEPT ![s] = "done"]
          /\ itemsClosed' = [itemsClosed EXCEPT ![s] = TRUE]
      BY <2>1 DEF Subscribe
    <3>2. /\ stopped \in [Subs -> BOOLEAN] /\ itemsClosed \in [Subs -> BOOLEAN]
          /\ stopOnce \in [Subs -> {"idle", "running", "done"}]
          /\ \A q \in Subs : itemsClosed[q] <=> stopped[q]
      BY DEF EmInv, CoreTypeOK, RestTypeOK, WriterInv
    <3> QED BY <3>1, <3>2
  <2>2. CASE ~emClosed
    BY <2>2 DEF Subscribe, EmInv, CoreTypeOK, RestTypeOK, WriterInv
  <2> QED BY <2>1, <2>2
<1>5. ASSUME NEW v \in Values, CallAt(v, "sending")
      PROVE  mutex[First(v)] = v /\ ~stopped'[First(v)]
  <2>1. v \in EmThreads /\ Busy(v)
    BY <1>5 DEF EmThreads, Busy, CallAt
  <2>2. First(v) \in Subs /\ First(v) \in joined
    BY <2>1, SameWell DEF EmInv, Places
  <2> QED BY <1>1, <1>4, <1>5, <2>2 DEF EmInv, WriterInv
<1>6. WriterInv'
  BY <1>1, <1>4, <1>5 DEF WriterInv, CallAt, First
<1>7. CoreTypeOK'
  BY <1>1, <1>2, <1>4 DEF EmInv, CoreTypeOK
<1>8. RestTypeOK'
  BY <1>1, <1>4 DEF EmInv, RestTypeOK
<1> QED BY <1>3, <1>6, <1>7, <1>8 DEF EmInv

\* The writers are left alone by a step of another thread that stops nobody.
LEMMA WritersKept ==
  ASSUME EmInv, NEW t \in EmThreads,
         \A u \in EmThreads : u # t => call'[u] = call[u],
         t \in Values => call'[t].at # "sending",
         UNCHANGED <<mutex, stopped, itemsClosed>>
  PROVE  WriterInv'
<1>1. ASSUME NEW v \in Values, call'[v].at = "sending"
      PROVE  mutex[Head(call'[v].todo)] = v /\ ~stopped[Head(call'[v].todo)]
  <2>1. v # t /\ v \in EmThreads
    BY <1>1 DEF EmThreads
  <2>2. call'[v] = call[v]
    BY <2>1
  <2> QED BY <1>1, <2>2 DEF EmInv, WriterInv, CallAt, First
<1> QED BY <1>1 DEF EmInv, WriterInv, CallAt, First

\* One place is taken out of the topic.
LEMMA CancelInv == ASSUME EmInv, NEW s \in Subs, Cancel(s) PROVE EmInv'
<1>1. /\ s \in joined /\ s \in EmThreads /\ s \notin Values
      /\ Begin(s, "stop", <<s>>)
      /\ UNCHANGED <<emClosed, joined, mutex, stopped, stopOnce, items, itemsClosed, reader, due, put>>
  BY DEF Cancel, streams, EmThreads
<1>2. topic' \in Seq(Subs) /\ Known(topic)'
  <2>0. topic \in Seq(Subs) /\ Known(topic)
    BY DEF EmInv, CoreTypeOK, ListInv
  <2>1. CASE UNCHANGED topic
    BY <1>1, <2>0, <2>1 DEF Known
  <2>2. ASSUME NEW i \in 1..Len(topic),
               topic' = SubSeq(topic, 1, i - 1) \o SubSeq(topic, i + 1, Len(topic))
        PROVE  topic' \in Seq(Subs) /\ Known(topic)'
    <3> DEFINE front == SubSeq(topic, 1, i - 1)
               back  == SubSeq(topic, i + 1, Len(topic))
    <3>0. Len(topic) \in Nat /\ i \in Nat /\ i >= 1 /\ i <= Len(topic)
      BY <2>0
    <3>1. /\ front \in Seq(Subs) /\ Len(front) = i - 1
          /\ \A j \in 1..(i - 1) : front[j] = topic[j]
      BY <2>0, <3>0
    <3>2. /\ back \in Seq(Subs) /\ Len(back) = Len(topic) - i
          /\ \A j \in 1..(Len(topic) - i) : back[j] = topic[j + i]
      BY <2>0, <3>0
    <3>3. \A j \in 1..Len(front) : front[j] \in joined
      BY <2>0, <3>0, <3>1 DEF Known
    <3>4. \A j \in 1..Len(back) : back[j] \in joined
      BY <2>0, <3>0, <3>2 DEF Known
    <3> HIDE DEF front, back
    <3>5. /\ topic' = front \o back /\ topic' \in Seq(Subs)
          /\ Len(topic') = Len(front) + Len(back)
      BY <2>2, <3>1, <3>2 DEF front, back
    <3>6. ASSUME NEW j \in 1..Len(topic') PROVE topic'[j] \in joined
      <4>1. CASE j \in 1..Len(front)
        BY <4>1, <3>1, <3>2, <3>3, <3>5
      <4>2. CASE j \notin 1..Len(front)
        <5>1. j - Len(front) \in 1..Len(back) /\ topic'[j] = back[j - Len(front)]
          BY <4>2, <3>0, <3>1, <3>2, <3>5
        <5> QED BY <5>1, <3>4
      <4> QED BY <4>1, <4>2
    <3> QED BY <1>1, <3>5, <3>6 DEF Known
  <2> QED BY <2>1, <2>2 DEF Cancel
<1>3. <<s>> \in Seq(Subs) /\ Known(<<s>>)
  BY <1>1 DEF Known
<1>4. PICK to \in {"stop", "end"} : Moves(s, to, <<s>>) /\ MovesWell(s, to, <<s>>)
  BY <1>1, <1>3, BeginWell DEF Places
<1>5. /\ call' \in [EmThreads -> [at : Places, todo : Seq(Subs)]]
      /\ \A u \in EmThreads : u # s => call'[u] = call[u]
      /\ ListInv'
  BY <1>1, <1>2, <1>4, MovesKeep DEF EmInv, CoreTypeOK
<1>6. WriterInv'
  BY <1>1, <1>5, WritersKept
<1>7. CoreTypeOK' /\ RestTypeOK'
  BY <1>1, <1>2, <1>5 DEF EmInv, CoreTypeOK, RestTypeOK
<1> QED BY <1>5, <1>6, <1>7 DEF EmInv

LEMMA CloseEmitterInv == ASSUME EmInv, CloseEmitter PROVE EmInv'
<1>1. /\ topic' = <<>> /\ Begin(Closer, "stop", topic)
      /\ Closer \in EmThreads /\ Closer \notin Values /\ emClosed' = TRUE
      /\ UNCHANGED <<joined, mutex, stopped, stopOnce, items, itemsClosed, reader, due, put>>
  BY DEF CloseEmitter, streams, EmThreads
<1>2. topic' \in Seq(Subs) /\ Known(topic)'
  BY <1>1 DEF Known
<1>3. PICK to \in {"stop", "end"} : Moves(Closer, to, topic) /\ MovesWell(Closer, to, topic)
  BY <1>1, BeginWell DEF Places, EmInv, CoreTypeOK, ListInv
<1>4. /\ call' \in [EmThreads -> [at : Places, todo : Seq(Subs)]]
      /\ \A u \in EmThreads : u # Closer => call'[u] = call[u]
      /\ ListInv'
  BY <1>1, <1>2, <1>3, MovesKeep DEF EmInv, CoreTypeOK
<1>5. WriterInv'
  BY <1>1, <1>4, WritersKept
<1>6. CoreTypeOK' /\ RestTypeOK'
  BY <1>1, <1>2, <1>4 DEF EmInv, CoreTypeOK, RestTypeOK
<1> QED BY <1>4, <1>5, <1>6 DEF EmInv

LEMMA EmitInv == ASSUME EmInv, NEW v \in Values, Emit(v) PROVE EmInv'
<1>1. /\ Begin(v, "send", topic) /\ v \in EmThreads
      /\ UNCHANGED <<emClosed, topic, joined, mutex, stopped, stopOnce, items, itemsClosed, reader, put>>
  BY DEF Emit, streams, EmThreads
<1>2. due' \in [Values -> SUBSET Subs]
  BY DEF Emit, EmInv, CoreTypeOK, RestTypeOK
<1>3. PICK to \in {"send", "end"} : Moves(v, to, topic) /\ MovesWell(v, to, topic)
  BY <1>1, BeginWell DEF Places, EmInv, CoreTypeOK, ListInv
<1>4. /\ call' \in [EmThreads -> [at : Places, todo : Seq(Subs)]] /\ call'[v].at = to
      /\ \A u \in EmThreads : u # v => call'[u] = call[u]
      /\ ListInv'
  BY <1>1, <1>3, MovesKeep DEF EmInv, CoreTypeOK, ListInv, Known
<1>5. WriterInv'
  BY <1>1, <1>4, WritersKept
<1>6. CoreTypeOK' /\ RestTypeOK'
  BY <1>1, <1>2, <1>4 DEF EmInv, CoreTypeOK, RestTypeOK
<1> QED BY <1>4, <1>5, <1>6 DEF EmInv

\* Nobody else can be writing to a subscriber whose mutex is free.
LEMMA LockInv == ASSUME EmInv, NEW v \in Values, Lock(v) PROVE EmInv'
<1> DEFINE s == First(v)
<1>1. /\ v \in EmThreads /\ Busy(v) /\ mutex[s] = Nobody
      /\ UNCHANGED <<emClosed, topic, joined, stopped, stopOnce, items, itemsClosed, reader, due, put>>
  BY DEF Lock, streams, EmThreads, Busy, CallAt
<1>2. s \in Subs
  BY <1>1, SameWell DEF EmInv, Places
<1>3. topic' \in Seq(Subs) /\ Known(topic)' /\ joined' = joined /\ joined \subseteq Subs
  BY <1>1 DEF EmInv, CoreTypeOK, ListInv, Known
<1>4. CASE stopped[s] \/ reader[s] = "closed"
  <2>1. Next1(v, "send") /\ UNCHANGED mutex
    BY <1>4 DEF Lock
  <2>2. PICK to \in {"send", "end"} : /\ Moves(v, to, Tail(call[v].todo))
                                      /\ MovesWell(v, to, Tail(call[v].todo))
    BY <1>1, <2>1, Next1Well DEF EmInv, Places
  <2>3. /\ call' \in [EmThreads -> [at : Places, todo : Seq(Subs)]] /\ call'[v].at = to
        /\ \A u \in EmThreads : u # v => call'[u] = call[u]
        /\ ListInv'
    BY <1>1, <1>3, <2>2, MovesKeep DEF EmInv
  <2>4. WriterInv'
    BY <1>1, <2>1, <2>3, WritersKept
  <2>5. CoreTypeOK' /\ RestTypeOK'
    BY <1>1, <2>1, <2>3 DEF EmInv, CoreTypeOK, RestTypeOK
  <2> QED BY <2>3, <2>4, <2>5 DEF EmInv
<1>5. CASE ~(stopped[s] \/ reader[s] = "closed")
  <2>1. Moves(v, "sending", call[v].todo) /\ mutex' = [mutex EXCEPT ![s] = v]
    BY <1>5 DEF Lock
  <2>2. MovesWell(v, "sending", call[v].todo)
    BY <1>1, SameWell DEF EmInv, Places
  <2>3. /\ call' \in [EmThreads -> [at : Places, todo : Seq(Subs)]]
        /\ call'[v].todo = call[v].todo
        /\ \A u \in EmThreads : u # v => call'[u] = call[u]
        /\ ListInv'
    BY <1>1, <1>3, <2>1, <2>2, MovesKeep DEF EmInv
  <2>4. /\ mutex' \in [Subs -> Values \cup {Nobody}] /\ mutex'[s] = v
        /\ \A q \in Subs : q # s => mutex'[q] = mutex[q]
    BY <1>2, <2>1 DEF EmInv, CoreTypeOK
  <2>5. ASSUME NEW w \in Values, call'[w].at = "sending"
        PROVE  mutex'[Head(call'[w].todo)] = w /\ ~stopped[Head(call'[w].todo)]
    <3>1. CASE w = v
      BY <3>1, <1>5, <2>3, <2>4 DEF First
    <3>2. CASE w # v
      <4>1. w \in EmThreads /\ call'[w] = call[w]
        BY <3>2, <2>3 DEF EmThreads
      <4>2. mutex[First(w)] = w /\ ~stopped[First(w)] /\ Busy(w)
        BY <2>5, <4>1 DEF EmInv, WriterInv, CallAt, Busy
      <4>3. First(w) \in Subs
        BY <4>1, <4>2, SameWell DEF EmInv, Places
      <4>4. First(w) # s
        BY <1>1, <4>2
      <4> QED BY <2>4, <4>1, <4>2, <4>3, <4>4 DEF First
    <3> QED BY <3>1, <3>2
  <2>6. WriterInv'
    BY <1>1, <2>5 DEF EmInv, WriterInv, CallAt, First
  <2>7. CoreTypeOK' /\ RestTypeOK'
    BY <1>1, <2>3, <2>4 DEF EmInv, CoreTypeOK, RestTypeOK
  <2> QED BY <2>3, <2>6, <2>7 DEF EmInv
<1> QED BY <1>4, <1>5

\* The writer gives its mutex back; it is nobody else's.
LEMMA PutInv ==
  ASSUME EmInv, NEW v \in Values, Put(v) \/ SendRefused(v)
  PROVE  EmInv'
<1> DEFINE s == First(v)
<1>1. /\ v \in EmThreads /\ Busy(v) /\ CallAt(v, "sending")
      /\ mutex' = [mutex EXCEPT ![s] = Nobody] /\ Next1(v, "send")
      /\ UNCHANGED <<emClosed, topic, joined, stopped, stopOnce, itemsClosed, reader, due>>
  BY DEF Put, SendRefused, streams, EmThreads, Busy, CallAt
<1>2. s \in Subs /\ mutex[s] = v
  BY <1>1, SameWell DEF EmInv, Places, WriterInv
<1>3. topic' \in Seq(Subs) /\ Known(topic)' /\ joined' = joined /\ joined \subseteq Subs
  BY <1>1 DEF EmInv, CoreTypeOK, ListInv, Known
<1>4. PICK to \in {"send", "end"} : /\ Moves(v, to, Tail(call[v].todo))
                                    /\ MovesWell(v, to, Tail(call[v].todo))
  BY <1>1, Next1Well DEF EmInv, Places
<1>5. /\ call' \in [EmThreads -> [at : Places, todo : Seq(Subs)]] /\ call'[v].at = to
      /\ \A u \in EmThreads : u # v => call'[u] = call[u]
      /\ ListInv'
  BY <1>1, <1>3, <1>4, MovesKeep DEF EmInv
<1>6. /\ mutex' \in [Subs -> Values \cup {Nobody}]
      /\ \A q \in Subs : q # s => mutex'[q] = mutex[q]
  BY <1>1, <1>2 DEF EmInv, CoreTypeOK
<1>7. ASSUME NEW w \in Values, call'[w].at = "sending"
      PROVE  mutex'[Head(call'[w].todo)] = w /\ ~stopped[Head(call'[w].todo)]
  <2>1. w # v /\ w \in EmThreads
    BY <1>5, <1>7 DEF EmThreads
  <2>2. call'[w] = call[w]
    BY <1>5, <2>1
  <2>3. mutex[First(w)] = w /\ ~stopped[First(w)] /\ Busy(w)
    BY <1>7, <2>2 DEF EmInv, WriterInv, CallAt, Busy
  <2>4. First(w) \in Subs
    BY <2>1, <2>3, SameWell DEF EmInv, Places
  <2>5. First(w) # s
    BY <1>2, <2>1, <2>3
  <2> QED BY <1>6, <2>2, <2>3, <2>4, <2>5 DEF First
<1>8. WriterInv'
  BY <1>1, <1>7 DEF EmInv, WriterInv, CallAt, First
<1>9. items' \in [Subs -> 0..BufSize] /\ put' \in [Values -> SUBSET Subs]
  <2>1. CASE Put(v)
    BY <1>2, <2>1 DEF Put, EmInv, RestTypeOK
  <2>2. CASE SendRefused(v)
    BY <2>2 DEF SendRefused, streams, EmInv, RestTypeOK
  <2> QED BY <2>1, <2>2
<1>10. CoreTypeOK' /\ RestTypeOK'
  BY <1>1, <1>5, <1>6, <1>9 DEF EmInv, CoreTypeOK, RestTypeOK
<1> QED BY <1>5, <1>8, <1>10 DEF EmInv

LEMMA EnterStopInv ==
  ASSUME EmInv, NEW t \in Subs \cup {Closer}, EnterStop(t)
  PROVE  EmInv'
<1> DEFINE s == First(t)
<1>1. /\ t \in EmThreads /\ t \notin Values /\ Busy(t)
      /\ UNCHANGED <<emClosed, topic, joined, mutex, stopped, items, itemsClosed, reader, due, put>>
  BY DEF EnterStop, streams, EmThreads, Busy, CallAt
<1>2. s \in Subs /\ MovesWell(t, "closing", call[t].todo)
  BY <1>1, SameWell DEF EmInv, Places
<1>3. topic' \in Seq(Subs) /\ Known(topic)' /\ joined' = joined /\ joined \subseteq Subs
  BY <1>1 DEF EmInv, CoreTypeOK, ListInv, Known
<1>4. \E to \in Places : \E list : Moves(t, to, list) /\ MovesWell(t, to, list)
  <2>1. CASE stopOnce[s] = "idle"
    BY <1>2, <2>1 DEF EnterStop, Places
  <2>2. CASE stopOnce[s] # "idle"
    <3>1. Next1(t, "stop")
      BY <2>2 DEF EnterStop
    <3> QED BY <1>1, <3>1, Next1Well DEF EmInv, Places
  <2> QED BY <2>1, <2>2
<1>5. stopOnce' \in [Subs -> {"idle", "running", "done"}]
  BY <1>2 DEF EnterStop, EmInv, RestTypeOK
<1>6. /\ call' \in [EmThreads -> [at : Places, todo : Seq(Subs)]]
      /\ \A u \in EmThreads : u # t => call'[u] = call[u]
      /\ ListInv'
  BY <1>1, <1>3, <1>4, MovesKeep DEF EmInv
<1>7. WriterInv'
  BY <1>1, <1>6, WritersKept
<1>8. CoreTypeOK' /\ RestTypeOK'
  BY <1>1, <1>5, <1>6 DEF EmInv, CoreTypeOK, RestTypeOK
<1> QED BY <1>6, <1>7, <1>8 DEF EmInv

\* A subscriber is stopped while its mutex is free: nobody is writing to it.
LEMMA StopInv ==
  ASSUME EmInv, NEW t \in Subs \cup {Closer}, Stop(t)
  PROVE  EmInv'
<1> DEFINE s == First(t)
<1>1. /\ t \in EmThreads /\ t \notin Values /\ Busy(t) /\ mutex[s] = Nobody
      /\ stopped' = [stopped EXCEPT ![s] = TRUE]
      /\ itemsClosed' = [itemsClosed EXCEPT ![s] = TRUE]
      /\ stopOnce' = [stopOnce EXCEPT ![s] = "done"] /\ Next1(t, "stop")
      /\ UNCHANGED <<emClosed, topic, joined, mutex, items, reader, due, put>>
  BY DEF Stop, EmThreads, Busy, CallAt
<1>2. s \in Subs
  BY <1>1, SameWell DEF EmInv, Places
<1>3. topic' \in Seq(Subs) /\ Known(topic)' /\ joined' = joined /\ joined \subseteq Subs
  BY <1>1 DEF EmInv, CoreTypeOK, ListInv, Known
<1>4. PICK to \in {"stop", "end"} : /\ Moves(t, to, Tail(call[t].todo))
                                    /\ MovesWell(t, to, Tail(call[t].todo))
  BY <1>1, Next1Well DEF EmInv, Places
<1>5. /\ call' \in [EmThreads -> [at : Places, todo : Seq(Subs)]]
      /\ \A u \in EmThreads : u # t => call'[u] = call[u]
      /\ ListInv'
  BY <1>1, <1>3, <1>4, MovesKeep DEF EmInv
<1>6. /\ stopped' \in [Subs -> BOOLEAN] /\ itemsClosed' \in [Subs -> BOOLEAN]
      /\ stopOnce' \in [Subs -> {"idle", "running", "done"}]
      /\ \A q \in Subs : q # s => stopped'[q] = stopped[q]
      /\ \A q \in Subs : itemsClosed'[q] <=> stopped'[q]
  BY <1>1, <1>2 DEF EmInv, CoreTypeOK, RestTypeOK, WriterInv
<1>7. ASSUME NEW v \in Values, call'[v].at = "sending"
      PROVE  mutex[Head(call'[v].todo)] = v /\ ~stopped'[Head(call'[v].todo)]
  <2>1. v # t /\ v \in EmThreads
    BY <1>1 DEF EmThreads
  <2>2. call'[v] = call[v]
    BY <1>5, <2>1
  <2>3. mutex[First(v)] = v /\ ~stopped[First(v)] /\ Busy(v)
    BY <1>7, <2>2 DEF EmInv, WriterInv, CallAt, Busy
  <2>4. First(v) \in Subs /\ First(v) # s
    BY <1>1, <2>1, <2>3, SameWell DEF EmInv, Places
  <2> QED BY <1>6, <2>2, <2>3, <2>4 DEF First
<1>8. WriterInv'
  BY <1>1, <1>6, <1>7 DEF WriterInv, CallAt, First
<1>9. CoreTypeOK' /\ RestTypeOK'
  BY <1>1, <1>5, <1>6 DEF EmInv, CoreTypeOK, RestTypeOK
<1> QED BY <1>5, <1>8, <1>9 DEF EmInv

\* Readers take from the stream, or come to its end.
LEMMA ReadsInv ==
  ASSUME EmInv, NEW s \in Subs, Reads(s) \/ Leave(s) \/ CloseReader(s)
  PROVE  EmInv'
<1>1. UNCHANGED <<emClosed, topic, joined, mutex, stopped, stopOnce, itemsClosed, call, due, put>>
  BY DEF Reads, Receive, EndOfStream, Leave, CloseReader, ReaderGoes, streams
<1>2. /\ items' \in [Subs -> 0..BufSize]
      /\ reader' \in [Subs -> {"reading", "left", "closed", "ended"}]
  <2>1. /\ items \in [Subs -> 0..BufSize]
        /\ reader \in [Subs -> {"reading", "left", "closed", "ended"}]
    BY DEF EmInv, RestTypeOK
  <2>2. CASE Receive(s)
    BY <2>1, <2>2 DEF Receive
  <2>3. ASSUME NEW place \in {"left", "closed", "ended"}, ReaderGoes(s, place)
        PROVE  /\ items' \in [Subs -> 0..BufSize]
               /\ reader' \in [Subs -> {"reading", "left", "closed", "ended"}]
    BY <2>1, <2>3 DEF ReaderGoes, streams
  <2> QED BY <2>2, <2>3 DEF Reads, EndOfStream, Leave, CloseReader
<1>3. CoreTypeOK' /\ RestTypeOK'
  BY <1>1, <1>2 DEF EmInv, CoreTypeOK, RestTypeOK
<1>4. ListInv' /\ WriterInv'
  BY <1>1 DEF EmInv, ListInv, WriterInv, Known, Busy, CallAt, First
<1> QED BY <1>3, <1>4 DEF EmInv

LEMMA EmNextInv == EmInv /\ [EmitterNext]_emitterVars => EmInv'
<1> SUFFICES ASSUME EmInv, [EmitterNext]_emitterVars PROVE EmInv'
  OBVIOUS
<1>1. CASE UNCHANGED emitterVars
  <2>1. CoreTypeOK' /\ RestTypeOK'
    BY <1>1 DEF emitterVars, streams, EmInv, CoreTypeOK, RestTypeOK
  <2>2. ListInv' /\ WriterInv'
    BY <1>1 DEF emitterVars, streams, EmInv, ListInv, WriterInv, Known, Busy, CallAt, First
  <2> QED BY <2>1, <2>2 DEF EmInv
<1> QED BY <1>1, SubscribeInv, CancelInv, ReadsInv, EmitInv, CloseEmitterInv, LockInv, PutInv,
           EnterStopInv, StopInv DEF EmitterNext, EmStep

LEMMA EmInvariant == EmitterSpec => []EmInv
BY EmInitInv, EmNextInv, PTL DEF EmitterSpec

\* Types of all the variables of the emitter.
THEOREM EmitterTypeCorrect == EmitterSpec => []EmitterTypeOK
<1>1. EmInv => EmitterTypeOK
  BY TypeParts DEF EmInv
<1> QED BY <1>1, EmInvariant, PTL

LEMMA WriterExcludesStop == EmInv => NoSendOnClosed
<1> SUFFICES ASSUME EmInv, NEW v \in Values, CallAt(v, "sending")
             PROVE  ~itemsClosed[First(v)] /\ mutex[First(v)] = v
  BY DEF NoSendOnClosed
<1>1. v \in EmThreads /\ Busy(v)
  BY DEF EmThreads, Busy, CallAt
<1>2. First(v) \in Subs
  BY <1>1, SameWell DEF EmInv, Places
<1> QED BY <1>2 DEF EmInv, WriterInv

\* send never writes to a stream that stop has closed, which would be a panic,
\* however Emit, cancel, Close and the reader interleave: who is about to write
\* holds the mutex of the subscriber, and stop needs it.
THEOREM NothingSentOnClosed == EmitterSpec => []NoSendOnClosed
BY WriterExcludesStop, EmInvariant, PTL

-----------------------------------------------------------------------------
(* Who stays is served.  A subscriber that stays is in the topic and not     *)
(* stopped: a cancel stops its own subscriber only, and Close the others.    *)

In(s, list) == \E i \in 1..Len(list) : list[i] = s

\* The call of Emit still has the subscriber in its list.
Waits(v, s) == call[v].at \in {"send", "sending"} /\ In(s, call[v].todo)

Here(s) == s \in joined /\ call[s].at = "idle" /\ ~emClosed /\ reader[s] # "closed"

OwnInv ==
  /\ \A s \in Subs : \A i \in 1..Len(call[s].todo) : call[s].todo[i] = s
  /\ call[Closer].at # "idle" => emClosed

StayInv ==
  \A s \in Subs : /\ ~emClosed /\ call[s].at = "idle" => ~stopped[s]
                  /\ Here(s) => In(s, topic)

\* A value that has not reached a subscriber is still on its way to it.
DueInv ==
  \A v \in Values : \A s \in due[v] :
    /\ s \in joined
    /\ Here(s) => s \in put[v] \/ Waits(v, s)

ServedInv == OwnInv /\ StayInv /\ DueInv

LEMMA TailIn ==
  ASSUME NEW list \in Seq(Subs), NEW s, In(s, list), s # Head(list)
  PROVE  In(s, Tail(list)) /\ Tail(list) # <<>>
<1>1. PICK i \in 1..Len(list) : list[i] = s
  BY DEF In
<1>2. Len(list) \in Nat /\ Len(list) >= 1 /\ Head(list) = list[1] /\ i # 1
  BY <1>1
<1>3. /\ Len(Tail(list)) = Len(list) - 1
      /\ \A j \in 1..Len(Tail(list)) : Tail(list)[j] = list[j + 1]
  BY <1>2
<1>4. i - 1 \in 1..Len(Tail(list)) /\ (i - 1) + 1 = i
  BY <1>2, <1>3
<1>5. Tail(list)[i - 1] = s
  BY <1>1, <1>3, <1>4
<1>6. In(s, Tail(list))
  BY <1>4, <1>5 DEF In
<1>7. Tail(list) # <<>>
  <2> SUFFICES ASSUME Tail(list) = <<>> PROVE FALSE
    OBVIOUS
  <2>1. Len(<<>>) = 0
    OBVIOUS
  <2>2. Len(Tail(list)) = 0
    BY <2>1, Zenon
  <2> QED BY <1>4, <2>2
<1> QED BY <1>6, <1>7

LEMMA CallMoves ==
  ASSUME CoreTypeOK, NEW t \in EmThreads, NEW place, NEW list, Moves(t, place, list)
  PROVE  /\ call'[t].at = place /\ call'[t].todo = list
         /\ \A u \in EmThreads : u # t => call'[u] = call[u]
<1>1. /\ call'[t] = [at |-> place, todo |-> list]
      /\ \A u \in EmThreads : u # t => call'[u] = call[u]
  BY DEF CoreTypeOK, Moves
<1> QED BY <1>1

LEMMA Next1Moves ==
  ASSUME CoreTypeOK, NEW t \in EmThreads, NEW place, Next1(t, place)
  PROVE  /\ call'[t].todo = Tail(call[t].todo)
         /\ Tail(call[t].todo) # <<>> => call'[t].at = place
         /\ call'[t].at \in {place, "end"}
         /\ \A u \in EmThreads : u # t => call'[u] = call[u]
<1>1. CASE Tail(call[t].todo) = <<>>
  BY <1>1, CallMoves DEF Next1
<1>2. CASE Tail(call[t].todo) # <<>>
  BY <1>2, CallMoves DEF Next1
<1> QED BY <1>1, <1>2

LEMMA BeginMoves ==
  ASSUME CoreTypeOK, NEW t \in EmThreads, NEW place, NEW list, Begin(t, place, list)
  PROVE  /\ call'[t].todo = list
         /\ list # <<>> => call'[t].at = place
         /\ call'[t].at \in {place, "end"}
         /\ \A u \in EmThreads : u # t => call'[u] = call[u]
<1>1. CASE list = <<>>
  BY <1>1, CallMoves DEF Begin
<1>2. CASE list # <<>>
  BY <1>2, CallMoves DEF Begin
<1> QED BY <1>1, <1>2

LEMMA ServedInit == EmitterInit => ServedInv
<1> SUFFICES ASSUME EmitterInit PROVE ServedInv
  OBVIOUS
<1>1. \A t \in EmThreads : call[t] = [at |-> "idle", todo |-> <<>>]
  BY DEF EmitterInit
<1>2. \A t \in EmThreads : call[t].at = "idle" /\ call[t].todo = <<>>
  BY <1>1
<1>3. Closer \in EmThreads /\ \A s \in Subs : s \in EmThreads
  BY DEF EmThreads
<1>4. OwnInv
  BY <1>2, <1>3 DEF OwnInv
<1>5. joined = {} /\ due = [v \in Values |-> {}] /\ stopped = [s \in Subs |-> FALSE]
  BY DEF EmitterInit
<1>6. StayInv /\ DueInv
  BY <1>5 DEF StayInv, DueInv, Here
<1> QED BY <1>4, <1>6 DEF ServedInv

LEMMA DueKept ==
  ASSUME DueInv, \A v \in Values : call'[v] = call[v], UNCHANGED <<due, put>>,
         joined \subseteq joined', \A s \in joined : Here(s)' => Here(s)
  PROVE  DueInv'
BY DEF DueInv, Waits, In

\* A call of Emit goes on and leaves nobody out of its list that stays.
LEMMA ValueServed ==
  ASSUME CoreTypeOK, ServedInv, NEW v \in Values,
         \A u \in EmThreads : u # v => call'[u] = call[u],
         UNCHANGED <<emClosed, topic, joined, stopped, reader, due>>,
         \A w \in Values : put[w] \subseteq put'[w],
         \A s \in due[v] : Here(s) /\ s \notin put'[v] /\ Waits(v, s) => Waits(v, s)'
  PROVE  ServedInv'
<1>1. /\ \A s \in Subs : call'[s] = call[s]
      /\ call'[Closer] = call[Closer]
      /\ \A w \in Values : w # v => call'[w] = call[w]
  BY DEF EmThreads
<1>2. OwnInv' /\ StayInv'
  BY <1>1 DEF ServedInv, OwnInv, StayInv, Here
<1>3. \A w \in Values : \A s \in due[w] : Here(s)' => Here(s)
  BY <1>1 DEF ServedInv, DueInv, Here, CoreTypeOK
<1>4. DueInv'
  <2> SUFFICES ASSUME NEW w \in Values, NEW s \in due[w], Here(s)'
               PROVE  s \in put'[w] \/ Waits(w, s)'
    BY <1>3 DEF ServedInv, DueInv, Here, Waits, In
  <2>1. Here(s) /\ (s \in put[w] \/ Waits(w, s))
    BY <1>3 DEF ServedInv, DueInv
  <2>2. CASE w = v
    BY <2>1, <2>2
  <2>3. CASE w # v
    BY <1>1, <2>1, <2>3 DEF Waits
  <2> QED BY <2>2, <2>3
<1> QED BY <1>2, <1>4 DEF ServedInv

LEMMA LockServed == ASSUME EmInv, ServedInv, NEW v \in Values, Lock(v) PROVE ServedInv'
<1>1. /\ v \in EmThreads /\ call[v].at = "send" /\ Busy(v) /\ CoreTypeOK
      /\ UNCHANGED <<emClosed, topic, joined, stopped, reader, due, put>>
      /\ call[v].todo \in Seq(Subs)
  BY DEF Lock, streams, EmThreads, CallAt, Busy, EmInv, CoreTypeOK
<1>2. CASE stopped[First(v)] \/ reader[First(v)] = "closed"
  <2>1. Next1(v, "send")
    BY <1>2 DEF Lock
  <2>2. /\ call'[v].todo = Tail(call[v].todo)
        /\ Tail(call[v].todo) # <<>> => call'[v].at = "send"
        /\ \A u \in EmThreads : u # v => call'[u] = call[u]
    BY <1>1, <2>1, Next1Moves
  <2>3. ASSUME NEW s \in due[v], Here(s), In(s, call[v].todo)
        PROVE  call'[v].at = "send" /\ In(s, call'[v].todo)
    <3>1. s \in Subs
      BY <1>1, <2>3 DEF Here, CoreTypeOK
    <3>2. ~stopped[s] /\ reader[s] # "closed"
      BY <2>3, <3>1 DEF Here, ServedInv, StayInv
    <3>3. s # Head(call[v].todo)
      BY <1>2, <3>2 DEF First
    <3> QED BY <1>1, <2>2, <2>3, <3>3, TailIn
  <2>4. \A s \in due[v] : Here(s) /\ s \notin put'[v] /\ Waits(v, s) => Waits(v, s)'
    BY <2>3 DEF Waits, In
  <2>5. \A w \in Values : put[w] \subseteq put'[w]
    BY <1>1
  <2> QED BY <1>1, <2>2, <2>4, <2>5, ValueServed
<1>3. CASE ~(stopped[First(v)] \/ reader[First(v)] = "closed")
  <2>1. Moves(v, "sending", call[v].todo)
    BY <1>3 DEF Lock
  <2>2. /\ call'[v].todo = call[v].todo /\ call'[v].at = "sending"
        /\ \A u \in EmThreads : u # v => call'[u] = call[u]
    BY <1>1, <2>1, CallMoves
  <2>3. \A s \in due[v] : Waits(v, s) => Waits(v, s)'
    BY <2>2 DEF Waits, In
  <2>4. \A w \in Values : put[w] \subseteq put'[w]
    BY <1>1
  <2> QED BY <1>1, <2>2, <2>3, <2>4, ValueServed
<1> QED BY <1>2, <1>3

LEMMA PutServed ==
  ASSUME EmInv, ServedInv, NEW v \in Values, Put(v) \/ SendRefused(v)
  PROVE  ServedInv'
<1>1. /\ v \in EmThreads /\ CoreTypeOK /\ Next1(v, "send")
      /\ UNCHANGED <<emClosed, topic, joined, stopped, reader, due>>
      /\ call[v].todo \in Seq(Subs)
  BY DEF Put, SendRefused, EmThreads, EmInv, CoreTypeOK
<1>2. /\ First(v) \in put'[v] \/ reader[First(v)] = "closed"
      /\ \A w \in Values : put[w] \subseteq put'[w]
  <2>1. CASE Put(v)
    <3>1. put' = [put EXCEPT ![v] = put[v] \cup {First(v)}] /\ put \in [Values -> SUBSET Subs]
      BY <2>1 DEF Put, EmInv, RestTypeOK
    <3> QED BY <3>1
  <2>2. CASE SendRefused(v)
    BY <2>2 DEF SendRefused
  <2> QED BY <2>1, <2>2
<1>3. /\ call'[v].todo = Tail(call[v].todo)
      /\ Tail(call[v].todo) # <<>> => call'[v].at = "send"
      /\ \A u \in EmThreads : u # v => call'[u] = call[u]
  BY <1>1, Next1Moves
<1>4. ASSUME NEW s \in due[v], Here(s), s \notin put'[v], In(s, call[v].todo)
      PROVE  call'[v].at = "send" /\ In(s, call'[v].todo)
  <2>1. s # Head(call[v].todo)
    BY <1>2, <1>4 DEF First, Here
  <2> QED BY <1>1, <1>3, <1>4, <2>1, TailIn
<1>5. \A s \in due[v] : Here(s) /\ s \notin put'[v] /\ Waits(v, s) => Waits(v, s)'
  BY <1>4 DEF Waits, In
<1> QED BY <1>1, <1>2, <1>3, <1>5, ValueServed

\* Emit takes the list of who is there.
LEMMA EmitServed == ASSUME EmInv, ServedInv, NEW v \in Values, Emit(v) PROVE ServedInv'
<1>1. /\ v \in EmThreads /\ CoreTypeOK /\ Begin(v, "send", topic)
      /\ UNCHANGED <<emClosed, topic, joined, stopped, reader, put>>
      /\ due' = [due EXCEPT ![v] = IF emClosed THEN {} ELSE {s \in joined : CallAt(s, "idle")}]
      /\ due \in [Values -> SUBSET Subs] /\ joined \subseteq Subs
  BY DEF Emit, EmThreads, EmInv, CoreTypeOK, RestTypeOK
<1>2. /\ call'[v].todo = topic
      /\ topic # <<>> => call'[v].at = "send"
      /\ \A u \in EmThreads : u # v => call'[u] = call[u]
  BY <1>1, BeginMoves
<1>3. /\ \A s \in Subs : call'[s] = call[s]
      /\ call'[Closer] = call[Closer]
      /\ \A w \in Values : w # v => call'[w] = call[w]
  BY <1>2 DEF EmThreads
<1>4. OwnInv' /\ StayInv'
  BY <1>1, <1>3 DEF ServedInv, OwnInv, StayInv, Here
<1>5. /\ \A w \in Values : w # v => due'[w] = due[w]
      /\ \A s \in due'[v] : s \in joined
  BY <1>1
<1>6. \A s \in joined : Here(s)' => Here(s)
  BY <1>1, <1>3 DEF Here
<1>7. ASSUME NEW s \in due'[v], Here(s)'
      PROVE  call'[v].at = "send" /\ In(s, call'[v].todo)
  <2>1. Here(s) /\ s \in Subs
    BY <1>1, <1>5, <1>6, <1>7
  <2>2. In(s, topic)
    BY <2>1 DEF ServedInv, StayInv
  <2>3. topic # <<>>
    BY <2>2 DEF In
  <2> QED BY <1>2, <2>2, <2>3 DEF In
<1>8. DueInv'
  <2> SUFFICES ASSUME NEW w \in Values, NEW s \in due'[w]
               PROVE  /\ s \in joined'
                      /\ Here(s)' => s \in put'[w] \/ Waits(w, s)'
    BY DEF DueInv, In, Here, Waits
  <2>1. CASE w = v
    BY <1>1, <1>5, <1>7, <2>1 DEF Waits, In
  <2>2. CASE w # v
    BY <1>1, <1>3, <1>5, <1>6, <2>2 DEF ServedInv, DueInv, Waits
  <2> QED BY <2>1, <2>2
<1> QED BY <1>4, <1>8 DEF ServedInv

LEMMA SubscribeServed == ASSUME EmInv, ServedInv, NEW s \in Subs, Subscribe(s) PROVE ServedInv'
<1>1. /\ joined' = joined \cup {s} /\ s \notin joined /\ UNCHANGED <<emClosed, reader, call, due, put>>
      /\ topic \in Seq(Subs)
      /\ ~emClosed => topic' = Append(topic, s) /\ UNCHANGED stopped
  BY DEF Subscribe, EmInv, CoreTypeOK
<1>2. OwnInv'
  BY <1>1 DEF ServedInv, OwnInv
<1>3. ASSUME ~emClosed, NEW q \in Subs, In(q, topic) \/ q = s PROVE In(q, topic')
  <2>1. /\ Len(topic') = Len(topic) + 1 /\ Len(topic) \in Nat
        /\ \A i \in 1..Len(topic) : topic'[i] = topic[i]
        /\ topic'[Len(topic) + 1] = s
    BY <1>1, <1>3
  <2> QED BY <1>3, <2>1 DEF In
<1>4. StayInv'
  BY <1>1, <1>3 DEF ServedInv, StayInv, Here
<1>5. DueInv'
  BY <1>1, DueKept DEF ServedInv, Here
<1> QED BY <1>2, <1>4, <1>5 DEF ServedInv

\* A thread that stops subscribers goes on; its own list stays its own.
LEMMA OthersServed ==
  ASSUME CoreTypeOK, ServedInv, NEW t \in EmThreads, t \notin Values,
         \A u \in EmThreads : u # t => call'[u] = call[u],
         call'[t].at # "idle",
         t \in Subs => \A i \in 1..Len(call'[t].todo) : call'[t].todo[i] = t,
         t = Closer => emClosed',
         UNCHANGED <<joined, reader, due, put>>, emClosed => emClosed',
         ~emClosed' => \A q \in Subs : q # t => /\ stopped'[q] = stopped[q]
                                                /\ In(q, topic) => In(q, topic')
  PROVE  ServedInv'
<1>1. /\ \A q \in Subs : q # t => call'[q] = call[q]
      /\ t # Closer => call'[Closer] = call[Closer]
      /\ \A v \in Values : call'[v] = call[v]
  BY DEF EmThreads
<1>2. OwnInv'
  BY <1>1 DEF ServedInv, OwnInv
<1>3. \A q \in joined : Here(q)' => Here(q) /\ q # t /\ q \in Subs
  BY <1>1 DEF Here, CoreTypeOK
<1>4. StayInv'
  <2> SUFFICES ASSUME NEW q \in Subs
               PROVE  /\ ~emClosed' /\ call'[q].at = "idle" => ~stopped'[q]
                      /\ Here(q)' => In(q, topic')
    BY DEF StayInv, In, Here
  <2>1. ~emClosed' /\ call'[q].at = "idle" => ~stopped'[q]
    BY <1>1 DEF ServedInv, StayInv
  <2>2. Here(q)' => In(q, topic')
    BY <1>3 DEF ServedInv, StayInv, Here
  <2> QED BY <2>1, <2>2
<1>5. DueInv'
  BY <1>1, <1>3, DueKept DEF ServedInv
<1> QED BY <1>2, <1>4, <1>5 DEF ServedInv

\* One place of the topic goes, and it is that of the subscriber that goes.
LEMMA CancelServed == ASSUME EmInv, ServedInv, NEW s \in Subs, Cancel(s) PROVE ServedInv'
<1>1. /\ s \in EmThreads /\ s \notin Values /\ s # Closer /\ Begin(s, "stop", <<s>>) /\ CoreTypeOK
      /\ UNCHANGED <<emClosed, joined, stopped, reader, due, put>> /\ topic \in Seq(Subs)
  BY DEF Cancel, EmThreads, EmInv, CoreTypeOK
<1>2. <<s>> # <<>> /\ Len(<<s>>) = 1 /\ <<s>>[1] = s
  OBVIOUS
<1>3. /\ call'[s].todo = <<s>> /\ call'[s].at = "stop"
      /\ \A u \in EmThreads : u # s => call'[u] = call[u]
  BY <1>1, <1>2, BeginMoves
<1>4. ASSUME NEW q \in Subs, q # s, In(q, topic) PROVE In(q, topic')
  <2>1. CASE UNCHANGED topic
    BY <1>4, <2>1
  <2>2. ASSUME NEW i \in 1..Len(topic), topic[i] = s,
               topic' = SubSeq(topic, 1, i - 1) \o SubSeq(topic, i + 1, Len(topic))
        PROVE  In(q, topic')
    <3> DEFINE front == SubSeq(topic, 1, i - 1)
               back  == SubSeq(topic, i + 1, Len(topic))
    <3>0. Len(topic) \in Nat /\ i \in Nat /\ i >= 1 /\ i <= Len(topic)
      BY <1>1
    <3>1. /\ front \in Seq(Subs) /\ Len(front) = i - 1
          /\ \A j \in 1..(i - 1) : front[j] = topic[j]
      BY <1>1, <3>0
    <3>2. /\ back \in Seq(Subs) /\ Len(back) = Len(topic) - i
          /\ \A j \in 1..(Len(topic) - i) : back[j] = topic[j + i]
      BY <1>1, <3>0
    <3>3. topic' = front \o back
      BY <2>2
    <3> HIDE DEF front, back
    <3>4. Len(front) \in Nat /\ Len(back) \in Nat
      BY <3>1, <3>2
    <3>5. Len(topic') = Len(front) + Len(back)
      <4>1. Len(front \o back) = Len(front) + Len(back)
        <5>1. front \in Seq(Subs) /\ back \in Seq(Subs)
          BY <3>1, <3>2
        <5> QED BY <5>1
      <4> QED BY <3>3, <4>1, Zenon
    <3>6. \A j \in 1..Len(front) : topic'[j] = front[j]
      BY <3>1, <3>2, <3>3, <3>4
    <3>7. ASSUME NEW j \in 1..Len(back) PROVE topic'[Len(front) + j] = back[j]
      <4>1. Len(front) + j \in 1..(Len(front) + Len(back)) /\ ~(Len(front) + j <= Len(front))
        BY <3>4
      <4>2. (Len(front) + j) - Len(front) = j
        BY <3>4
      <4> QED BY <3>1, <3>2, <3>3, <4>1, <4>2
    <3>8. PICK j \in 1..Len(topic) : topic[j] = q
      BY <1>4 DEF In
    <3>9. CASE j < i
      <4>1. j \in 1..Len(front) /\ j \in 1..Len(topic') /\ topic'[j] = q
        BY <3>0, <3>1, <3>2, <3>5, <3>6, <3>8, <3>9
      <4> QED BY <4>1 DEF In
    <3>10. CASE j > i
      <4>1. j - i \in 1..Len(back) /\ (j - i) + i = j /\ Len(front) + (j - i) \in 1..Len(topic')
        BY <3>0, <3>1, <3>2, <3>5, <3>8, <3>10
      <4>2. topic'[Len(front) + (j - i)] = q
        BY <3>0, <3>2, <3>5, <3>6, <3>7, <3>8, <4>1
      <4> QED BY <4>1, <4>2 DEF In
    <3>11. j # i
      BY <1>4, <2>2, <3>8
    <3> QED BY <3>0, <3>8, <3>9, <3>10, <3>11
  <2> QED BY <2>1, <2>2 DEF Cancel
<1> QED BY <1>1, <1>2, <1>3, <1>4, OthersServed

LEMMA CloseServed == ASSUME EmInv, ServedInv, CloseEmitter PROVE ServedInv'
<1>1. /\ Closer \in EmThreads /\ Closer \notin Values /\ Closer \notin Subs /\ CoreTypeOK
      /\ Begin(Closer, "stop", topic) /\ emClosed' = TRUE
      /\ UNCHANGED <<joined, reader, due, put>>
  BY DEF CloseEmitter, EmThreads, EmInv
<1>2. /\ call'[Closer].at \in {"stop", "end"}
      /\ \A u \in EmThreads : u # Closer => call'[u] = call[u]
  BY <1>1, BeginMoves
<1> QED BY <1>1, <1>2, OthersServed

LEMMA StopServed ==
  ASSUME EmInv, ServedInv, NEW t \in Subs \cup {Closer}, EnterStop(t) \/ Stop(t)
  PROVE  ServedInv'
<1>1. /\ t \in EmThreads /\ t \notin Values /\ CoreTypeOK /\ Busy(t) /\ call[t].at # "idle"
      /\ UNCHANGED <<emClosed, topic, joined, reader, due, put>>
      /\ call[t].todo \in Seq(Subs) /\ call[t].todo # <<>>
  BY DEF EnterStop, Stop, EmThreads, EmInv, CoreTypeOK, CallAt, Busy, ListInv
<1>2. /\ call'[t].at # "idle" /\ call'[t].todo \in {call[t].todo, Tail(call[t].todo)}
      /\ \A u \in EmThreads : u # t => call'[u] = call[u]
  <2>1. CASE Next1(t, "stop")
    <3>1. /\ call'[t].todo = Tail(call[t].todo)
          /\ call'[t].at \in {"stop", "end"}
          /\ \A u \in EmThreads : u # t => call'[u] = call[u]
      BY <1>1, <2>1, Next1Moves
    <3> QED BY <3>1
  <2>2. CASE Moves(t, "closing", call[t].todo)
    BY <1>1, <2>2, CallMoves
  <2> QED BY <2>1, <2>2 DEF EnterStop, Stop
<1>3. t = Closer => emClosed
  BY <1>1 DEF ServedInv, OwnInv
<1>4. t \in Subs => \A i \in 1..Len(call'[t].todo) : call'[t].todo[i] = t
  <2>1. CASE call'[t].todo = call[t].todo
    BY <2>1 DEF ServedInv, OwnInv
  <2>2. CASE call'[t].todo = Tail(call[t].todo)
    <3>1. /\ Len(call[t].todo) \in Nat
          /\ Len(Tail(call[t].todo)) = Len(call[t].todo) - 1
          /\ \A i \in 1..Len(Tail(call[t].todo)) : Tail(call[t].todo)[i] = call[t].todo[i + 1]
      BY <1>1
    <3>2. t \in Subs => \A i \in 1..Len(call[t].todo) : call[t].todo[i] = t
      BY DEF ServedInv, OwnInv
    <3>3. \A i \in 1..Len(Tail(call[t].todo)) : i + 1 \in 1..Len(call[t].todo)
      BY <3>1
    <3> QED BY <2>2, <3>1, <3>2, <3>3
  <2> QED BY <1>2, <2>1, <2>2
<1>5. ASSUME ~emClosed', NEW q \in Subs, q # t PROVE stopped'[q] = stopped[q]
  <2>1. ~emClosed /\ t \in Subs
    BY <1>1, <1>3, <1>5
  <2>2. First(t) = t
    <3>1. 1 \in 1..Len(call[t].todo) /\ Head(call[t].todo) = call[t].todo[1]
      BY <1>1
    <3> QED BY <2>1, <3>1 DEF First, ServedInv, OwnInv
  <2>3. stopped' = stopped \/ stopped' = [stopped EXCEPT ![t] = TRUE]
    BY <2>2 DEF EnterStop, Stop
  <2> QED BY <1>1, <1>5, <2>3 DEF CoreTypeOK
<1> QED BY <1>1, <1>2, <1>3, <1>4, <1>5, OthersServed

LEMMA ServedNext == EmInv /\ ServedInv /\ [EmitterNext]_emitterVars => ServedInv'
<1> SUFFICES ASSUME EmInv, ServedInv, [EmitterNext]_emitterVars PROVE ServedInv'
  OBVIOUS
<1>1. ASSUME UNCHANGED <<emClosed, topic, joined, stopped, call, due, put>>,
             \A s \in Subs : reader[s] = "closed" => reader'[s] = "closed"
      PROVE  ServedInv'
  <2>1. \A s \in Subs : Here(s)' => Here(s)
    BY <1>1 DEF Here
  <2>2. OwnInv' /\ StayInv'
    BY <1>1, <2>1 DEF ServedInv, OwnInv, StayInv, In
  <2>3. joined \subseteq Subs
    BY DEF EmInv, CoreTypeOK
  <2>4. DueInv'
    BY <1>1, <2>1, <2>3, DueKept DEF ServedInv
  <2> QED BY <2>2, <2>4 DEF ServedInv
<1>2. ASSUME NEW s \in Subs, Reads(s) \/ Leave(s) \/ CloseReader(s) PROVE ServedInv'
  <2>1. UNCHANGED <<emClosed, topic, joined, stopped, call, due, put>>
    BY <1>2 DEF Reads, Receive, EndOfStream, Leave, CloseReader, ReaderGoes
  <2>2. reader \in [Subs -> {"reading", "left", "closed", "ended"}]
    BY DEF EmInv, RestTypeOK
  <2>3. \/ reader' = reader
        \/ reader[s] # "closed" /\ \E place \in {"left", "closed", "ended"} :
             reader' = [reader EXCEPT ![s] = place]
    BY <1>2 DEF Reads, Receive, EndOfStream, Leave, CloseReader, ReaderGoes
  <2> QED BY <1>1, <2>1, <2>2, <2>3
<1>3. CASE UNCHANGED emitterVars
  BY <1>1, <1>3 DEF emitterVars
<1> QED BY <1>2, <1>3, SubscribeServed, CancelServed, EmitServed, CloseServed, LockServed, PutServed,
           StopServed DEF EmitterNext, EmStep

\* A value reaches every subscriber that was there when Emit was called and has
\* stayed with an open reader, whoever subscribes, cancels or closes meanwhile.
THEOREM WhoStaysIsServed == EmitterSpec => []SubscribersServed
<1>1. EmInv /\ ServedInv => SubscribersServed
  <2> SUFFICES ASSUME EmInv, ServedInv, NEW v \in Values, CallAt(v, "end"),
                      NEW s \in due[v], CallAt(s, "idle"), ~emClosed, reader[s] # "closed"
               PROVE  s \in put[v]
    BY DEF SubscribersServed
  <2>1. s \in joined /\ Here(s)
    BY DEF ServedInv, DueInv, Here, CallAt
  <2> QED BY <2>1 DEF ServedInv, DueInv, CallAt, Waits
<1>2. EmInv /\ ServedInv /\ [EmitterNext]_emitterVars => EmInv' /\ ServedInv'
  BY EmNextInv, ServedNext
<1> QED BY EmInitInv, ServedInit, <1>1, <1>2, PTL DEF EmitterSpec

-----------------------------------------------------------------------------
(* The chain of waits.  The once of a subscriber is held by a call that is   *)
(* about to close its stream, its mutex by a call that writes to it, and a   *)
(* reader goes only after the stream has been closed, which the writer       *)
(* excludes: nobody in the chain is missing.                                 *)

StopperInv ==
  \A s \in Subs : stopOnce[s] = "running" =>
    \E t \in Subs \cup {Closer} : call[t].at = "closing" /\ Head(call[t].todo) = s

HolderInv ==
  \A s \in Subs : mutex[s] # Nobody =>
    call[mutex[s]].at = "sending" /\ Head(call[mutex[s]].todo) = s

ReaderInv == \A s \in Subs : reader[s] = "ended" => stopped[s]

WaitsInv == StopperInv /\ HolderInv /\ ReaderInv

LEMMA WaitsInit == EmitterInit => WaitsInv
BY DEF EmitterInit, WaitsInv, StopperInv, HolderInv, ReaderInv

\* Whoever stops a subscriber goes on with it while another thread moves.
LEMMA StopperKept ==
  ASSUME StopperInv, NEW t \in EmThreads, call[t].at # "closing",
         \A u \in EmThreads : u # t => call'[u] = call[u],
         \A s \in Subs : stopOnce'[s] = "running" => stopOnce[s] = "running"
  PROVE  StopperInv'
<1> SUFFICES ASSUME NEW s \in Subs, stopOnce'[s] = "running"
             PROVE  \E u \in Subs \cup {Closer} :
                      call'[u].at = "closing" /\ Head(call'[u].todo) = s
  BY DEF StopperInv
<1>1. PICK u \in Subs \cup {Closer} : call[u].at = "closing" /\ Head(call[u].todo) = s
  BY DEF StopperInv
<1>2. u \in EmThreads /\ u # t
  BY <1>1 DEF EmThreads
<1>3. call'[u] = call[u]
  BY <1>2
<1> QED BY <1>1, <1>3

\* So does the holder of a mutex.
LEMMA HolderKept ==
  ASSUME CoreTypeOK, HolderInv, NEW t \in EmThreads, call[t].at # "sending",
         \A u \in EmThreads : u # t => call'[u] = call[u], mutex' = mutex
  PROVE  HolderInv'
<1> SUFFICES ASSUME NEW s \in Subs, mutex[s] # Nobody
             PROVE  call'[mutex[s]].at = "sending" /\ Head(call'[mutex[s]].todo) = s
  BY DEF HolderInv
<1>1. call[mutex[s]].at = "sending" /\ Head(call[mutex[s]].todo) = s
  BY DEF HolderInv
<1>2. mutex[s] \in EmThreads /\ mutex[s] # t
  BY <1>1 DEF CoreTypeOK, EmThreads
<1>3. call'[mutex[s]] = call[mutex[s]]
  BY <1>2
<1> QED BY <1>1, <1>3

LEMMA SubscribeWaits ==
  ASSUME EmInv, WaitsInv, NEW s \in Subs, Subscribe(s)
  PROVE  WaitsInv'
<1>1. UNCHANGED <<mutex, reader, call>>
  BY DEF Subscribe
<1>2. \A q \in Subs : /\ stopped[q] => stopped'[q]
                      /\ stopOnce'[q] = "running" => stopOnce[q] = "running"
  <2>1. CASE emClosed
    <3>1. stopped' = [stopped EXCEPT ![s] = TRUE] /\ stopOnce' = [stopOnce EXCEPT ![s] = "done"]
      BY <2>1 DEF Subscribe
    <3> QED BY <3>1 DEF EmInv, CoreTypeOK, RestTypeOK
  <2>2. CASE ~emClosed
    BY <2>2 DEF Subscribe
  <2> QED BY <2>1, <2>2
<1>3. StopperInv'
  BY <1>1, <1>2 DEF WaitsInv, StopperInv
<1>4. HolderInv'
  BY <1>1 DEF WaitsInv, HolderInv
<1>5. ReaderInv'
  BY <1>1, <1>2 DEF WaitsInv, ReaderInv
<1> QED BY <1>3, <1>4, <1>5 DEF WaitsInv

\* A call begins: of Emit, of a cancel, or of Close.
LEMMA BeginWaits ==
  ASSUME EmInv, WaitsInv, NEW t \in EmThreads, call[t].at = "idle",
         NEW place, NEW list, Begin(t, place, list),
         UNCHANGED <<mutex, stopped, stopOnce, reader>>
  PROVE  WaitsInv'
<1>1. \A u \in EmThreads : u # t => call'[u] = call[u]
  BY BeginMoves DEF EmInv
<1>2. StopperInv'
  BY <1>1, StopperKept DEF WaitsInv
<1>3. HolderInv'
  BY <1>1, HolderKept DEF WaitsInv, EmInv
<1>4. ReaderInv'
  BY DEF WaitsInv, ReaderInv
<1> QED BY <1>2, <1>3, <1>4 DEF WaitsInv

\* Whoever takes the mutex goes on to write to its subscriber.
LEMMA LockWaits ==
  ASSUME EmInv, WaitsInv, NEW v \in Values, Lock(v)
  PROVE  WaitsInv'
<1> DEFINE s == First(v)
<1>1. /\ v \in EmThreads /\ Busy(v) /\ call[v].at = "send" /\ mutex[s] = Nobody
      /\ CoreTypeOK /\ UNCHANGED <<stopped, stopOnce, reader>>
  BY DEF Lock, EmThreads, Busy, CallAt, EmInv
<1>2. s \in Subs
  BY <1>1, SameWell DEF EmInv, Places
<1>3. ReaderInv'
  BY <1>1 DEF WaitsInv, ReaderInv
<1>4. CASE stopped[s] \/ reader[s] = "closed"
  <2>1. Next1(v, "send") /\ mutex' = mutex
    BY <1>4 DEF Lock
  <2>2. \A u \in EmThreads : u # v => call'[u] = call[u]
    BY <1>1, <2>1, Next1Moves
  <2> QED BY <1>1, <1>3, <2>1, <2>2, StopperKept, HolderKept DEF WaitsInv
<1>5. CASE ~(stopped[s] \/ reader[s] = "closed")
  <2>1. Moves(v, "sending", call[v].todo) /\ mutex' = [mutex EXCEPT ![s] = v]
    BY <1>5 DEF Lock
  <2>2. /\ call'[v].at = "sending" /\ call'[v].todo = call[v].todo
        /\ \A u \in EmThreads : u # v => call'[u] = call[u]
    BY <1>1, <2>1, CallMoves
  <2>3. mutex'[s] = v /\ \A q \in Subs : q # s => mutex'[q] = mutex[q]
    BY <1>1, <1>2, <2>1 DEF CoreTypeOK
  <2>4. ASSUME NEW q \in Subs, mutex'[q] # Nobody
        PROVE  call'[mutex'[q]].at = "sending" /\ Head(call'[mutex'[q]].todo) = q
    <3>1. CASE q = s
      BY <3>1, <2>2, <2>3 DEF First
    <3>2. CASE q # s
      <4>1. mutex'[q] = mutex[q] /\ mutex[q] \in EmThreads
        BY <3>2, <2>3, <2>4, <1>1 DEF CoreTypeOK, EmThreads
      <4>2. call[mutex[q]].at = "sending" /\ Head(call[mutex[q]].todo) = q
        BY <2>4, <4>1 DEF WaitsInv, HolderInv
      <4>3. mutex[q] # v
        BY <4>2, <1>1
      <4>4. call'[mutex[q]] = call[mutex[q]]
        BY <4>1, <4>3, <2>2
      <4> QED BY <4>1, <4>2, <4>4
    <3> QED BY <3>1, <3>2
  <2>5. HolderInv'
    BY <2>4 DEF HolderInv
  <2> QED BY <1>1, <1>3, <2>2, <2>5, StopperKept DEF WaitsInv
<1> QED BY <1>4, <1>5

\* Whoever has written gives up the only mutex it holds.
LEMMA PutWaits ==
  ASSUME EmInv, WaitsInv, NEW v \in Values, Put(v) \/ SendRefused(v)
  PROVE  WaitsInv'
<1> DEFINE s == First(v)
<1>1. /\ v \in EmThreads /\ Busy(v) /\ call[v].at = "sending" /\ CoreTypeOK
      /\ mutex' = [mutex EXCEPT ![s] = Nobody] /\ Next1(v, "send")
      /\ UNCHANGED <<stopped, stopOnce, reader>>
  BY DEF Put, SendRefused, EmThreads, Busy, CallAt, EmInv
<1>2. s \in Subs
  BY <1>1, SameWell DEF EmInv, Places
<1>3. \A u \in EmThreads : u # v => call'[u] = call[u]
  BY <1>1, Next1Moves
<1>4. mutex'[s] = Nobody /\ \A q \in Subs : q # s => mutex'[q] = mutex[q]
  BY <1>1, <1>2 DEF CoreTypeOK
<1>5. ASSUME NEW q \in Subs, mutex'[q] # Nobody
      PROVE  call'[mutex'[q]].at = "sending" /\ Head(call'[mutex'[q]].todo) = q
  <2>1. q # s /\ mutex'[q] = mutex[q] /\ mutex[q] \in EmThreads
    BY <1>1, <1>4, <1>5 DEF CoreTypeOK, EmThreads
  <2>2. call[mutex[q]].at = "sending" /\ Head(call[mutex[q]].todo) = q
    BY <1>5, <2>1 DEF WaitsInv, HolderInv
  <2>3. mutex[q] # v
    BY <2>1, <2>2 DEF First
  <2>4. call'[mutex[q]] = call[mutex[q]]
    BY <1>3, <2>1, <2>3
  <2> QED BY <2>1, <2>2, <2>4
<1>6. HolderInv'
  BY <1>5 DEF HolderInv
<1>7. ReaderInv'
  BY <1>1 DEF WaitsInv, ReaderInv
<1> QED BY <1>1, <1>3, <1>6, <1>7, StopperKept DEF WaitsInv

\* Whoever comes first to the once of a subscriber goes on to close it.
LEMMA EnterStopWaits ==
  ASSUME EmInv, WaitsInv, NEW t \in Subs \cup {Closer}, EnterStop(t)
  PROVE  WaitsInv'
<1> DEFINE s == First(t)
<1>1. /\ t \in EmThreads /\ Busy(t) /\ call[t].at = "stop" /\ CoreTypeOK
      /\ UNCHANGED <<mutex, stopped, reader>>
  BY DEF EnterStop, EmThreads, Busy, CallAt, EmInv
<1>2. s \in Subs
  BY <1>1, SameWell DEF EmInv, Places
<1>3. ReaderInv'
  BY <1>1 DEF WaitsInv, ReaderInv
<1>4. CASE stopOnce[s] = "idle"
  <2>1. stopOnce' = [stopOnce EXCEPT ![s] = "running"] /\ Moves(t, "closing", call[t].todo)
    BY <1>4 DEF EnterStop
  <2>2. /\ call'[t].at = "closing" /\ call'[t].todo = call[t].todo
        /\ \A u \in EmThreads : u # t => call'[u] = call[u]
    BY <1>1, <2>1, CallMoves
  <2>3. \A q \in Subs : q # s => stopOnce'[q] = stopOnce[q]
    BY <2>1 DEF EmInv, RestTypeOK
  <2>4. ASSUME NEW q \in Subs, stopOnce'[q] = "running"
        PROVE  \E u \in Subs \cup {Closer} : call'[u].at = "closing" /\ Head(call'[u].todo) = q
    <3>1. CASE q = s
      BY <3>1, <2>2 DEF First
    <3>2. CASE q # s
      <4>1. stopOnce[q] = "running"
        BY <2>3, <2>4, <3>2
      <4>2. PICK u \in Subs \cup {Closer} : call[u].at = "closing" /\ Head(call[u].todo) = q
        BY <4>1 DEF WaitsInv, StopperInv
      <4>3. u \in EmThreads /\ u # t
        BY <4>2, <1>1 DEF EmThreads
      <4>4. call'[u] = call[u]
        BY <4>3, <2>2
      <4> QED BY <4>2, <4>4
    <3> QED BY <3>1, <3>2
  <2>5. StopperInv'
    BY <2>4 DEF StopperInv
  <2>6. HolderInv'
    BY <1>1, <2>2, HolderKept DEF WaitsInv
  <2> QED BY <1>3, <2>5, <2>6 DEF WaitsInv
<1>5. CASE stopOnce[s] # "idle"
  <2>1. Next1(t, "stop") /\ stopOnce' = stopOnce
    BY <1>5 DEF EnterStop
  <2>2. \A u \in EmThreads : u # t => call'[u] = call[u]
    BY <1>1, <2>1, Next1Moves
  <2> QED BY <1>1, <1>3, <2>1, <2>2, StopperKept, HolderKept DEF WaitsInv
<1> QED BY <1>4, <1>5

\* The once it was running is done; the others are run by somebody else.
LEMMA StopWaits ==
  ASSUME EmInv, WaitsInv, NEW t \in Subs \cup {Closer}, Stop(t)
  PROVE  WaitsInv'
<1> DEFINE s == First(t)
<1>1. /\ t \in EmThreads /\ Busy(t) /\ call[t].at = "closing" /\ CoreTypeOK
      /\ stopped' = [stopped EXCEPT ![s] = TRUE]
      /\ stopOnce' = [stopOnce EXCEPT ![s] = "done"] /\ Next1(t, "stop")
      /\ UNCHANGED <<mutex, reader>>
  BY DEF Stop, EmThreads, Busy, CallAt, EmInv
<1>2. s \in Subs
  BY <1>1, SameWell DEF EmInv, Places
<1>3. \A u \in EmThreads : u # t => call'[u] = call[u]
  BY <1>1, Next1Moves
<1>4. /\ stopOnce'[s] = "done" /\ \A q \in Subs : q # s => stopOnce'[q] = stopOnce[q]
      /\ \A q \in Subs : stopped[q] => stopped'[q]
  BY <1>1, <1>2 DEF EmInv, CoreTypeOK, RestTypeOK
<1>5. ASSUME NEW q \in Subs, stopOnce'[q] = "running"
      PROVE  \E u \in Subs \cup {Closer} : call'[u].at = "closing" /\ Head(call'[u].todo) = q
  <2>1. q # s /\ stopOnce[q] = "running"
    BY <1>4, <1>5
  <2>2. PICK u \in Subs \cup {Closer} : call[u].at = "closing" /\ Head(call[u].todo) = q
    BY <2>1 DEF WaitsInv, StopperInv
  <2>3. u \in EmThreads /\ u # t
    BY <2>1, <2>2 DEF EmThreads, First
  <2>4. call'[u] = call[u]
    BY <1>3, <2>3
  <2> QED BY <2>2, <2>4
<1>6. StopperInv'
  BY <1>5 DEF StopperInv
<1>7. HolderInv'
  BY <1>1, <1>3, HolderKept DEF WaitsInv
<1>8. ReaderInv'
  BY <1>1, <1>4 DEF WaitsInv, ReaderInv
<1> QED BY <1>6, <1>7, <1>8 DEF WaitsInv

\* A reader goes at the end of a closed stream, that of a stopped subscriber.
LEMMA ReadsWaits ==
  ASSUME EmInv, WaitsInv, NEW s \in Subs, Reads(s) \/ Leave(s) \/ CloseReader(s)
  PROVE  WaitsInv'
<1>1. UNCHANGED <<mutex, stopped, stopOnce, call>>
  BY DEF Reads, Receive, EndOfStream, Leave, CloseReader, ReaderGoes, streams
<1>2. /\ reader \in [Subs -> {"reading", "left", "closed", "ended"}]
      /\ \/ reader' = reader
         \/ \E place \in {"left", "closed"} : reader' = [reader EXCEPT ![s] = place]
         \/ reader' = [reader EXCEPT ![s] = "ended"] /\ itemsClosed[s]
  BY DEF Reads, Receive, EndOfStream, Leave, CloseReader, ReaderGoes, EmInv, RestTypeOK
<1>3. ReaderInv'
  BY <1>1, <1>2 DEF EmInv, WriterInv, WaitsInv, ReaderInv
<1>4. StopperInv' /\ HolderInv'
  BY <1>1 DEF WaitsInv, StopperInv, HolderInv
<1> QED BY <1>3, <1>4 DEF WaitsInv

LEMMA WaitsNext == EmInv /\ ServedInv /\ WaitsInv /\ [EmitterNext]_emitterVars => WaitsInv'
<1> SUFFICES ASSUME EmInv, ServedInv, WaitsInv, [EmitterNext]_emitterVars PROVE WaitsInv'
  OBVIOUS
<1>1. ASSUME NEW s \in Subs, Cancel(s) PROVE WaitsInv'
  BY <1>1, BeginWaits DEF Cancel, EmThreads, CallAt
<1>2. ASSUME CloseEmitter PROVE WaitsInv'
  <2>1. Closer \in EmThreads /\ call[Closer].at = "idle"
    BY <1>2 DEF EmThreads, CloseEmitter, ServedInv, OwnInv
  <2> QED BY <1>2, <2>1, BeginWaits DEF CloseEmitter
<1>3. ASSUME NEW v \in Values, Emit(v) PROVE WaitsInv'
  BY <1>3, BeginWaits DEF Emit, EmThreads, CallAt
<1>4. CASE UNCHANGED emitterVars
  BY <1>4 DEF emitterVars, WaitsInv, StopperInv, HolderInv, ReaderInv
<1> QED BY <1>1, <1>2, <1>3, <1>4, SubscribeWaits, LockWaits, PutWaits, EnterStopWaits, StopWaits,
           ReadsWaits DEF EmitterNext, EmStep

\* The mutex keeps the close of a stream away from a write to it, and the calls
\* of the emitter cannot wait for each other in a ring, whatever their number: a
\* stop that is under way is waited for, it waits for a send, and the send for a
\* reader that has not come to the end of its stream.
THEOREM LocksOfEmitter == EmitterSpec => []EmitterLocks
<1>1. EmInv /\ WaitsInv => WaitsEndAtReader
  <2> SUFFICES ASSUME EmInv, WaitsInv PROVE WaitsEndAtReader
    OBVIOUS
  <2>1. ASSUME NEW v \in Values, CallAt(v, "sending") 
        PROVE  First(v) \in joined /\ reader[First(v)] # "ended"
    <3>1. v \in EmThreads /\ Busy(v) /\ ~stopped[First(v)]
      BY <2>1 DEF EmThreads, Busy, CallAt, EmInv, WriterInv
    <3>2. First(v) \in Subs /\ First(v) \in joined
      BY <3>1, SameWell DEF EmInv, Places
    <3> QED BY <3>1, <3>2 DEF WaitsInv, ReaderInv
  <2>2. \A s \in Subs : stopOnce[s] = "running" =>
          \E t \in Subs \cup {Closer} : CallAt(t, "closing") /\ First(t) = s
    BY DEF WaitsInv, StopperInv, CallAt, First
  <2>3. \A s \in Subs : mutex[s] # Nobody =>
          CallAt(mutex[s], "sending") /\ First(mutex[s]) = s
    BY DEF WaitsInv, HolderInv, CallAt, First
  <2> QED BY <2>1, <2>2, <2>3 DEF WaitsEndAtReader
<1>2. EmInv /\ ServedInv /\ WaitsInv /\ [EmitterNext]_emitterVars
        => EmInv' /\ ServedInv' /\ WaitsInv'
  BY EmNextInv, ServedNext, WaitsNext
<1>3. EmInv /\ WaitsInv => EmitterLocks
  BY <1>1, WriterExcludesStop DEF EmitterLocks
<1> QED BY EmInitInv, ServedInit, WaitsInit, <1>2, <1>3, PTL DEF EmitterSpec

-----------------------------------------------------------------------------
(* The MQTT client. *)

\* A loss that is not dealt with is of a connection there has been.
LossesInv == /\ losses <= connections
             /\ link = "up" => losses < connections

LEMMA Moved ==
  ASSUME MqttTypeOK, NEW g \in Goroutines,
         NEW place \in {"idle", "start", "check", "list", "subscribe", "end"},
         NEW topics \in SUBSET Topics, NEW then \in {"list", "end"},
         Becoming(g, place, topics, then)
  PROVE  /\ work' \in [Goroutines -> WorkType]
         /\ work'[g].at = place /\ work'[g].todo = topics /\ work'[g].next = then
         /\ \A h \in Goroutines : h # g => work'[h] = work[h]
<1>1. [at |-> place, todo |-> topics, next |-> then] \in WorkType
  BY DEF WorkType
<1> QED BY <1>1 DEF Becoming, MqttTypeOK

LEMMA WorkFields ==
  ASSUME MqttTypeOK, NEW g \in Goroutines
  PROVE  /\ work[g] \in WorkType
         /\ work[g].at \in {"idle", "start", "check", "list", "subscribe", "end"}
         /\ work[g].todo \in SUBSET Topics /\ work[g].next \in {"list", "end"}
BY DEF MqttTypeOK, WorkType

LEMMA AskFields ==
  ASSUME MqttTypeOK, ~MutexFree
  PROVE  asked \in Asks /\ asked.topic \in Topics /\ asked.granted \in BOOLEAN
BY DEF MqttTypeOK, MutexFree, Asks

-----------------------------------------------------------------------------
(* Type correctness. *)

LEMMA InitTypeOK == MqttInit => MqttTypeOK /\ LossesInv
<1> SUFFICES ASSUME MqttInit PROVE MqttTypeOK /\ LossesInv
  OBVIOUS
<1>1. work \in [Goroutines -> WorkType]
  BY DEF MqttInit, WorkType
<1>2. 0 \in 0..MaxConnections
  BY MqttAssumption
<1>3. MqttTypeOK
  BY <1>1, <1>2 DEF MqttInit, MqttTypeOK
<1>4. LossesInv
  BY DEF MqttInit, LossesInv
<1> QED BY <1>3, <1>4

\* Which connections there have been, and how many losses wait.
LEMMA NetworkTypeOK ==
  ASSUME MqttTypeOK, LossesInv, [MqttNext]_mqttVars
  PROVE  /\ link' \in {"connecting", "up", "down", "closed"}
         /\ connections' \in 0..MaxConnections /\ losses' \in 0..MaxConnections
         /\ overtaken' \in BOOLEAN /\ LossesInv'
<1>p. /\ link \in {"connecting", "up", "down", "closed"}
      /\ connections \in 0..MaxConnections /\ losses \in 0..MaxConnections
      /\ overtaken \in BOOLEAN /\ MaxConnections \in Nat
  BY MqttAssumption DEF MqttTypeOK
<1>1. CASE Connected
  BY <1>p, <1>1 DEF Connected, LossesInv
<1>2. CASE ConnectionLost
  BY <1>p, <1>2 DEF ConnectionLost, LossesInv
<1>3. CASE OnConnectionLost
  BY <1>p, <1>3 DEF OnConnectionLost, LossesInv
<1>4. CASE Close
  BY <1>p, <1>4 DEF Close, LossesInv
<1>5. CASE UNCHANGED <<link, connections, losses, overtaken>>
  BY <1>p, <1>5 DEF LossesInv
<1>6. Grant \/ Answer => UNCHANGED <<link, connections, losses, overtaken>>
  BY DEF Grant, Answer, Subscribed, SubscribeFails, network
<1>7. ASSUME NEW g \in Goroutines, GoroutineStep(g) PROVE UNCHANGED <<link, connections, losses, overtaken>>
  BY <1>7 DEF GoroutineStep, OnConnect, List, Check, EndOfList, SubscribeTopic, network
<1>8. ASSUME NEW a \in Adders, NEW t \in Topics, AddHandler(a, t)
      PROVE  UNCHANGED <<link, connections, losses, overtaken>>
  BY <1>8 DEF AddHandler, network
<1>9. UNCHANGED mqttVars => UNCHANGED <<link, connections, losses, overtaken>>
  BY DEF mqttVars, network
<1> QED BY <1>1, <1>2, <1>3, <1>4, <1>5, <1>6, <1>7, <1>8, <1>9 DEF MqttNext

\* What is subscribed, by whom, and for which topics.
LEMMA TopicsTypeOK ==
  ASSUME MqttTypeOK, LossesInv, [MqttNext]_mqttVars
  PROVE  /\ granted' \subseteq Topics /\ refused' \in BOOLEAN
         /\ handlers' \subseteq Topics /\ subscribed' \subseteq Topics
         /\ asked' \in {Nothing} \cup Asks /\ ready' \in BOOLEAN
<1>p. /\ granted \subseteq Topics /\ refused \in BOOLEAN
      /\ handlers \subseteq Topics /\ subscribed \subseteq Topics
      /\ asked \in {Nothing} \cup Asks /\ ready \in BOOLEAN
  BY DEF MqttTypeOK
<1>1. CASE Connected \/ ConnectionLost
  BY <1>p, <1>1 DEF Connected, ConnectionLost
<1>2. CASE OnConnectionLost \/ Close
  BY <1>p, <1>2 DEF OnConnectionLost, Close
<1>3. CASE Grant
  <2>1. [asked EXCEPT !.granted = TRUE] \in Asks
    BY <1>3, AskFields DEF Grant, Asks
  <2> QED BY <1>p, <1>3, <2>1, AskFields DEF Grant
<1>4. CASE Subscribed
  BY <1>p, <1>4, AskFields DEF Subscribed, network
<1>5. CASE SubscribeFails
  BY <1>p, <1>5 DEF SubscribeFails, SameConnection
<1>6. ASSUME NEW g \in Goroutines, NEW t \in Topics, SubscribeTopic(g, t)
      PROVE  asked' \in {Nothing} \cup Asks
  <2>1. CASE asked' = Nothing
    BY <2>1
  <2>2. CASE link = "up" /\ asked' = [by |-> g, topic |-> t, conn |-> connections, granted |-> FALSE]
    <3>1. connections \in Callbacks
      BY <2>2, MqttAssumption DEF MqttTypeOK, LossesInv, Callbacks
    <3> QED BY <2>2, <3>1 DEF Asks
  <2> QED BY <1>6, <2>1, <2>2 DEF SubscribeTopic
<1>7. ASSUME NEW g \in Goroutines, GoroutineStep(g)
      PROVE  /\ UNCHANGED <<granted, refused, subscribed>>
             /\ handlers' \subseteq Topics /\ ready' \in BOOLEAN
             /\ asked' = asked \/ \E t \in Topics : SubscribeTopic(g, t)
  <2>1. OnConnect(g) => /\ UNCHANGED <<granted, refused, subscribed, asked>>
                        /\ handlers' \subseteq Topics /\ ready' = TRUE
    BY <1>p, MqttAssumption DEF OnConnect, AddTopic, network
  <2>2. List(g) \/ Check(g) \/ EndOfList(g) \/ (\E t \in Topics : SubscribeTopic(g, t))
          => UNCHANGED <<granted, refused, subscribed, handlers, ready>>
    BY DEF List, Check, EndOfList, SubscribeTopic, network
  <2>3. List(g) \/ Check(g) \/ EndOfList(g) => UNCHANGED asked
    BY DEF List, Check, EndOfList
  <2> QED BY <1>7, <1>p, <2>1, <2>2, <2>3 DEF GoroutineStep
<1>8. ASSUME NEW a \in Adders, NEW t \in Topics, AddHandler(a, t)
      PROVE  /\ UNCHANGED <<granted, refused, subscribed, asked, ready>>
             /\ handlers' \subseteq Topics
  BY <1>8, <1>p DEF AddHandler, AddTopic, network
<1>9. CASE UNCHANGED mqttVars
  BY <1>p, <1>9 DEF mqttVars, network
<1> QED BY <1>p, <1>1, <1>2, <1>3, <1>4, <1>5, <1>6, <1>7, <1>8, <1>9
        DEF MqttNext, Answer

LEMMA WorkTypeOK ==
  ASSUME MqttTypeOK, [MqttNext]_mqttVars
  PROVE  work' \in [Goroutines -> WorkType]
<1>1. CASE UNCHANGED work
  BY <1>1 DEF MqttTypeOK
<1>2. CASE Connected
  <2>1. connections + 1 \in Goroutines
    BY <1>2, MqttAssumption DEF Connected, MqttTypeOK, Goroutines, Callbacks
  <2> QED BY <1>2, <2>1, Moved DEF Connected
<1>3. ASSUME NEW g \in Goroutines, GoroutineStep(g) PROVE work' \in [Goroutines -> WorkType]
  <2>f. /\ work[g].todo \in SUBSET Topics /\ work[g].next \in {"list", "end"}
    BY WorkFields
  <2>1. CASE OnConnect(g)
    <3>1. {ReadyTopic} \in SUBSET Topics
      BY MqttAssumption
    <3>2. Becoming(g, "list", {}, "end") \/ Becoming(g, "check", {ReadyTopic}, "list")
      BY <2>1 DEF OnConnect, AddTopic
    <3> QED BY <3>1, <3>2, Moved
  <2>2. CASE List(g)
    <3>1. handlers \cup Configured \in SUBSET Topics
      BY MqttAssumption DEF MqttTypeOK
    <3> QED BY <2>2, <3>1, Moved DEF List
  <2>3. CASE Check(g)
    <3>1. PICK topics \in SUBSET Topics : Becoming(g, "subscribe", topics, work[g].next)
      <4>1. (IF link = "closed" THEN {} ELSE work[g].todo \ subscribed) \in SUBSET Topics
        BY <2>f
      <4> QED BY <2>3, <4>1 DEF Check
    <3> QED BY <2>f, <3>1, Moved
  <2>4. CASE EndOfList(g)
    <3>1. Becoming(g, work[g].next, {}, "end") /\ {} \in SUBSET Topics
      BY <2>4 DEF EndOfList
    <3> QED BY <2>f, <3>1, Moved
  <2>5. ASSUME NEW t \in Topics, SubscribeTopic(g, t) PROVE work' \in [Goroutines -> WorkType]
    <3>1. Becoming(g, "subscribe", work[g].todo \ {t}, work[g].next)
          /\ work[g].todo \ {t} \in SUBSET Topics
      BY <2>f, <2>5 DEF SubscribeTopic
    <3> QED BY <2>f, <3>1, Moved
  <2> QED BY <1>3, <2>1, <2>2, <2>3, <2>4, <2>5 DEF GoroutineStep
<1>4. ASSUME NEW a \in Adders, NEW t \in Topics, AddHandler(a, t)
      PROVE  work' \in [Goroutines -> WorkType]
  <2>1. a \in Goroutines /\ {t} \in SUBSET Topics /\ Becoming(a, "check", {t}, "end")
    BY <1>4 DEF Goroutines, AddHandler, AddTopic
  <2> QED BY <2>1, Moved
<1>5. ConnectionLost \/ OnConnectionLost \/ Grant \/ Answer \/ Close \/ UNCHANGED mqttVars
        => UNCHANGED work
  BY DEF ConnectionLost, OnConnectionLost, Grant, Answer, Subscribed, SubscribeFails, Close, mqttVars
<1> QED BY <1>1, <1>2, <1>3, <1>4, <1>5 DEF MqttNext

LEMMA StepTypeOK ==
  ASSUME MqttTypeOK, LossesInv, [MqttNext]_mqttVars
  PROVE  MqttTypeOK' /\ LossesInv'
BY NetworkTypeOK, TopicsTypeOK, WorkTypeOK DEF MqttTypeOK

\* Type correctness of the client, whatever paho's goroutines do first.
THEOREM MqttTypeCorrect == MqttSpec => []MqttTypeOK
<1> QED BY InitTypeOK, StepTypeOK, PTL DEF MqttSpec

-----------------------------------------------------------------------------
(* Subscriptions. *)

\* A connection that has overtaken no loss.
Orderly == link = "up" /\ ~overtaken

\* The set claims nothing the broker has not granted on an orderly connection, and
\* the mutex is held for a subscription on that connection.  When all losses have
\* been dealt with, the set is empty and the mutex is free before the next one.
SetInv ==
  /\ link = "connecting" \/ Orderly => losses = 0
  /\ Orderly => subscribed \subseteq granted
  /\ link \in {"connecting", "down"} /\ losses = 0 => subscribed = {}
  /\ ~MutexFree => link = "up" \/ (link = "down" /\ losses > 0)
  /\ ~MutexFree /\ Orderly =>
       asked.conn = connections /\ (asked.granted => asked.topic \in granted)

\* The callback of the last connection has not listed what is to be restored.
ToBeListed == /\ connections \in Callbacks
              /\ \/ work[connections].at \in {"start", "list"}
                 \/ /\ work[connections].at \in {"check", "subscribe"}
                    /\ work[connections].next = "list"

\* Somebody is going to subscribe the topic, or is doing so.
OnTheWay(t) ==
  \/ ToBeListed
  \/ \E g \in Goroutines : work[g].at \in {"check", "subscribe"} /\ t \in work[g].todo
  \/ ~MutexFree /\ asked.topic = t

CoverInv == Orderly /\ ~refused =>
              \A t \in handlers \cup Configured : t \in granted \/ OnTheWay(t)

MqttInv == SetInv /\ CoverInv

LEMMA InitMqtt == MqttInit => MqttInv
BY DEF MqttInit, MqttInv, SetInv, CoverInv, MutexFree, Orderly

LEMMA SetStep ==
  ASSUME MqttTypeOK, SetInv, [MqttNext]_mqttVars
  PROVE  SetInv'
<1>p. losses \in Nat
  BY MqttAssumption DEF MqttTypeOK
<1>1. CASE Connected
  <2>1. CASE losses = 0
    <3>1. MutexFree /\ subscribed = {}
      BY <1>1, <2>1 DEF Connected, SetInv
    <3> QED BY <1>1, <2>1, <3>1 DEF Connected, SetInv, MutexFree, Orderly
  <2>2. CASE losses > 0
    BY <1>1, <2>2 DEF Connected, SetInv, MutexFree, Orderly
  <2> QED BY <1>p, <2>1, <2>2
<1>2. CASE ConnectionLost
  BY <1>p, <1>2 DEF ConnectionLost, SetInv, MutexFree, Orderly
<1>3. CASE OnConnectionLost
  BY <1>p, <1>3 DEF OnConnectionLost, SetInv, MutexFree, Orderly
<1>4. CASE Grant
  <2>1. asked' = [asked EXCEPT !.granted = TRUE] /\ asked \in Asks
    BY <1>4, AskFields DEF Grant
  <2>2. asked'.conn = asked.conn /\ asked'.topic = asked.topic
    BY <2>1 DEF Asks
  <2>3. /\ UNCHANGED <<link, connections, losses, overtaken, subscribed>>
        /\ granted' = granted \cup {asked.topic} /\ ~MutexFree
    BY <1>4 DEF Grant
  <2> QED BY <2>2, <2>3 DEF SetInv, Orderly
<1>5. CASE Subscribed
  BY <1>5 DEF Subscribed, SetInv, MutexFree, Orderly, network
<1>6. CASE SubscribeFails
  BY <1>6 DEF SubscribeFails, SetInv, MutexFree, Orderly
<1>7. CASE Close
  BY <1>7 DEF Close, SetInv, MutexFree, Orderly
<1>8. CASE UNCHANGED <<network, subscribed, asked>>
  BY <1>8 DEF network, SetInv, MutexFree, Orderly
<1>9. ASSUME NEW g \in Goroutines, NEW t \in Topics, SubscribeTopic(g, t) PROVE SetInv'
  <2>1. /\ UNCHANGED <<network, subscribed>> /\ MutexFree
        /\ \/ asked' = Nothing
           \/ /\ link = "up"
              /\ asked' = [by |-> g, topic |-> t, conn |-> connections, granted |-> FALSE]
    BY <1>9 DEF SubscribeTopic
  <2> QED BY <2>1 DEF network, SetInv, MutexFree, Orderly
<1>10. ASSUME NEW g \in Goroutines, GoroutineStep(g) PROVE SetInv'
  <2>1. OnConnect(g) \/ List(g) \/ Check(g) \/ EndOfList(g)
          => UNCHANGED <<network, subscribed, asked>>
    BY DEF OnConnect, List, Check, EndOfList
  <2> QED BY <1>8, <1>9, <1>10, <2>1 DEF GoroutineStep
<1>11. ASSUME NEW a \in Adders, NEW t \in Topics, AddHandler(a, t) PROVE SetInv'
  BY <1>8, <1>11 DEF AddHandler
<1>12. UNCHANGED mqttVars => UNCHANGED <<network, subscribed, asked>>
  BY DEF mqttVars
<1> QED BY <1>1, <1>2, <1>3, <1>4, <1>5, <1>6, <1>7, <1>8, <1>10, <1>11, <1>12
        DEF MqttNext, Answer

\* One goroutine goes on and drops no topic that is not subscribed.
LEMMA GoroutineCovers ==
  ASSUME MqttTypeOK, CoverInv, Orderly, ~refused,
         NEW g \in Goroutines,
         \A h \in Goroutines : h # g => work'[h] = work[h],
         UNCHANGED <<link, connections, granted, refused, overtaken>>,
         asked' = asked \/ MutexFree,
         \A t \in handlers' : t \in handlers \/ OnTheWay(t)',
         work[g].at \in {"check", "subscribe"} =>
           \A t \in work[g].todo : t \in granted \/ OnTheWay(t)',
         g = connections /\ ToBeListed =>
           ToBeListed' \/ \A t \in handlers' \cup Configured : OnTheWay(t)'
  PROVE  CoverInv'
<1> SUFFICES ASSUME NEW t \in handlers' \cup Configured, t \notin granted'
             PROVE  OnTheWay(t)'
  BY DEF CoverInv, Orderly
<1>1. CASE t \notin handlers \cup Configured
  BY <1>1
<1>2. CASE OnTheWay(t)
  <2>1. CASE ToBeListed
    <3>1. CASE g = connections
      BY <2>1, <3>1 DEF OnTheWay
    <3>2. CASE g # connections
      <4>1. connections \in Goroutines /\ work'[connections] = work[connections]
        BY <2>1, <3>2 DEF ToBeListed, Goroutines
      <4> QED BY <2>1, <4>1 DEF ToBeListed, OnTheWay
    <3> QED BY <3>1, <3>2
  <2>2. ASSUME NEW h \in Goroutines, work[h].at \in {"check", "subscribe"}, t \in work[h].todo
        PROVE  OnTheWay(t)'
    <3>1. CASE h = g
      BY <2>2, <3>1
    <3>2. CASE h # g
      BY <2>2, <3>2 DEF OnTheWay
    <3> QED BY <3>1, <3>2
  <2>3. CASE ~MutexFree /\ asked.topic = t
    BY <2>3 DEF OnTheWay, MutexFree
  <2> QED BY <1>2, <2>1, <2>2, <2>3 DEF OnTheWay
<1> QED BY <1>1, <1>2 DEF CoverInv, Orderly

LEMMA OnConnectCovers ==
  ASSUME MqttTypeOK, CoverInv, Orderly, ~refused,
         NEW n \in Callbacks, OnConnect(n)
  PROVE  CoverInv'
<1>g. n \in Goroutines /\ work[n].at = "start"
  BY DEF Goroutines, OnConnect, At
<1>1. UNCHANGED <<network, asked>>
  BY DEF OnConnect
<1>2. CASE ready
  <2>1. Becoming(n, "list", {}, "end") /\ UNCHANGED handlers
    BY <1>2 DEF OnConnect
  <2>2. /\ work'[n].at = "list"
        /\ \A h \in Goroutines : h # n => work'[h] = work[h]
    BY <1>g, <2>1, Moved
  <2>3. n = connections => ToBeListed'
    BY <1>1, <2>2 DEF ToBeListed, network
  <2> QED BY <1>g, <1>1, <2>1, <2>2, <2>3, GoroutineCovers DEF network
<1>3. CASE ~ready
  <2>1. Becoming(n, "check", {ReadyTopic}, "list") /\ handlers' = handlers \cup {ReadyTopic}
    BY <1>3 DEF OnConnect, AddTopic
  <2>2. {ReadyTopic} \in SUBSET Topics
    BY MqttAssumption
  <2>3. /\ work'[n].at = "check" /\ work'[n].todo = {ReadyTopic} /\ work'[n].next = "list"
        /\ \A h \in Goroutines : h # n => work'[h] = work[h]
    BY <1>g, <2>1, <2>2, Moved
  <2>4. n = connections => ToBeListed'
    BY <1>1, <2>3 DEF ToBeListed, network
  <2>5. OnTheWay(ReadyTopic)'
    BY <1>g, <2>3 DEF OnTheWay
  <2> QED BY <1>g, <1>1, <2>1, <2>3, <2>4, <2>5, GoroutineCovers DEF network
<1> QED BY <1>2, <1>3

LEMMA ListCovers ==
  ASSUME MqttTypeOK, CoverInv, Orderly, ~refused, NEW n \in Callbacks, List(n)
  PROVE  CoverInv'
<1>1. n \in Goroutines /\ work[n].at = "list" /\ UNCHANGED <<network, handlers, asked>>
  BY DEF Goroutines, List, At
<1>2. handlers \cup Configured \in SUBSET Topics
  BY MqttAssumption DEF MqttTypeOK
<1>3. /\ work'[n].at = "subscribe" /\ work'[n].todo = handlers \cup Configured
      /\ \A h \in Goroutines : h # n => work'[h] = work[h]
  BY <1>1, <1>2, Moved DEF List
<1>4. \A t \in handlers' \cup Configured : OnTheWay(t)'
  BY <1>1, <1>3 DEF OnTheWay
<1> QED BY <1>1, <1>3, <1>4, GoroutineCovers DEF network

\* What the check leaves out is in the set, and the set claims nothing wrong.
LEMMA CheckCovers ==
  ASSUME MqttTypeOK, SetInv, CoverInv, Orderly, ~refused,
         NEW g \in Goroutines, Check(g)
  PROVE  CoverInv'
<1>1. work[g].at = "check" /\ MutexFree /\ UNCHANGED <<network, handlers, asked>>
  BY DEF Check, At
<1>2. /\ work[g].todo \ subscribed \in SUBSET Topics /\ work[g].next \in {"list", "end"}
      /\ Becoming(g, "subscribe", work[g].todo \ subscribed, work[g].next)
  BY WorkFields DEF Check, Orderly
<1>3. /\ work'[g].at = "subscribe" /\ work'[g].todo = work[g].todo \ subscribed
      /\ work'[g].next = work[g].next
      /\ \A h \in Goroutines : h # g => work'[h] = work[h]
  BY <1>2, Moved
<1>4. \A t \in work[g].todo : t \in granted \/ OnTheWay(t)'
  <2>1. subscribed \subseteq granted
    BY DEF SetInv, Orderly
  <2> QED BY <1>3, <2>1 DEF OnTheWay
<1>5. g = connections /\ ToBeListed => ToBeListed'
  BY <1>1, <1>3 DEF ToBeListed, network
<1> QED BY <1>1, <1>3, <1>4, <1>5, GoroutineCovers DEF network

LEMMA EndOfListCovers ==
  ASSUME MqttTypeOK, CoverInv, Orderly, ~refused, NEW g \in Goroutines, EndOfList(g)
  PROVE  CoverInv'
<1>1. /\ work[g].at = "subscribe" /\ work[g].todo = {}
      /\ UNCHANGED <<network, handlers, asked>>
  BY DEF EndOfList, At
<1>2. work[g].next \in {"list", "end"} /\ {} \in SUBSET Topics
  BY WorkFields
<1>3. Becoming(g, work[g].next, {}, "end")
  BY DEF EndOfList
<1>4. /\ work'[g].at = work[g].next
      /\ \A h \in Goroutines : h # g => work'[h] = work[h]
  BY <1>2, <1>3, Moved
<1>5. g = connections /\ ToBeListed => ToBeListed'
  BY <1>1, <1>4 DEF ToBeListed, network
<1> QED BY <1>1, <1>4, <1>5, GoroutineCovers DEF network

\* A topic that is not asked for is in the set.
LEMMA SubscribeCovers ==
  ASSUME MqttTypeOK, LossesInv, SetInv, CoverInv, Orderly, ~refused,
         NEW g \in Goroutines, NEW t \in Topics, SubscribeTopic(g, t)
  PROVE  CoverInv'
<1>1. work[g].at = "subscribe" /\ MutexFree /\ UNCHANGED <<network, handlers>>
  BY DEF SubscribeTopic, At
<1>2. /\ work[g].todo \ {t} \in SUBSET Topics /\ work[g].next \in {"list", "end"}
      /\ Becoming(g, "subscribe", work[g].todo \ {t}, work[g].next)
  BY WorkFields DEF SubscribeTopic
<1>3. /\ work'[g].at = "subscribe" /\ work'[g].todo = work[g].todo \ {t}
      /\ work'[g].next = work[g].next
      /\ \A h \in Goroutines : h # g => work'[h] = work[h]
  BY <1>2, Moved
<1>4. t \in granted \/ OnTheWay(t)'
  <2>1. CASE t \in subscribed
    BY <2>1 DEF SetInv
  <2>2. CASE t \notin subscribed
    <3>1. asked' = [by |-> g, topic |-> t, conn |-> connections, granted |-> FALSE]
      BY <2>2 DEF SubscribeTopic, Orderly
    <3>2. connections \in Callbacks
      BY MqttAssumption DEF MqttTypeOK, LossesInv, Callbacks, Orderly
    <3>3. asked' # Nothing
      <4>1. [by |-> g, topic |-> t, conn |-> connections, granted |-> FALSE] \in Asks
        BY <3>2 DEF Asks
      <4> QED BY <3>1, <4>1, NothingAssumption
    <3> QED BY <3>1, <3>3 DEF OnTheWay, MutexFree
  <2> QED BY <2>1, <2>2
<1>5. \A s \in work[g].todo : s \in granted \/ OnTheWay(s)'
  BY <1>3, <1>4 DEF OnTheWay
<1>6. g = connections /\ ToBeListed => ToBeListed'
  BY <1>1, <1>3 DEF ToBeListed, network
<1> QED BY <1>1, <1>3, <1>5, <1>6, GoroutineCovers DEF network

LEMMA CoverStep ==
  ASSUME MqttTypeOK, LossesInv, SetInv, CoverInv, [MqttNext]_mqttVars
  PROVE  CoverInv'
<1>1. CASE Connected
  <2>1. connections' = connections + 1 /\ connections' \in Callbacks
    BY <1>1, MqttAssumption DEF Connected, MqttTypeOK, Callbacks
  <2>2. connections + 1 \in Goroutines /\ {} \in SUBSET Topics
    BY <2>1 DEF Goroutines
  <2>3. work'[connections + 1].at = "start"
    BY <1>1, <2>2, Moved DEF Connected
  <2>4. ToBeListed'
    BY <2>1, <2>3 DEF ToBeListed
  <2> QED BY <2>4 DEF CoverInv, OnTheWay
<1>2. CASE ConnectionLost \/ Close
  BY <1>2 DEF ConnectionLost, Close, CoverInv, Orderly
<1>3. CASE ~Orderly' \/ refused'
  BY <1>3 DEF CoverInv
<1>4. CASE ~Orderly
  <2>1. UNCHANGED <<link, overtaken>> \/ Connected \/ link' = "down" \/ link' = "closed"
    <3>1. \A g \in Goroutines : GoroutineStep(g) => UNCHANGED <<link, overtaken>>
      BY DEF GoroutineStep, OnConnect, List, Check, EndOfList, SubscribeTopic, network
    <3>2. \A a \in Adders, t \in Topics : AddHandler(a, t) => UNCHANGED <<link, overtaken>>
      BY DEF AddHandler, network
    <3>3. OnConnectionLost \/ Grant \/ Answer \/ UNCHANGED mqttVars => UNCHANGED <<link, overtaken>>
      BY DEF OnConnectionLost, Grant, Answer, Subscribed, SubscribeFails, mqttVars, network
    <3>4. ConnectionLost \/ Close => link' = "down" \/ link' = "closed"
      BY DEF ConnectionLost, Close
    <3> QED BY <3>1, <3>2, <3>3, <3>4 DEF MqttNext
  <2> QED BY <1>1, <1>3, <1>4, <2>1 DEF Orderly
<1>5. CASE Orderly /\ OnConnectionLost
  BY <1>5 DEF OnConnectionLost, SetInv, Orderly
<1>6. CASE UNCHANGED mqttVars
  BY <1>6 DEF mqttVars, network, CoverInv, OnTheWay, ToBeListed, MutexFree, Orderly
<1>a. ASSUME NEW t, t \in granted \/ OnTheWay(t),
             UNCHANGED <<link, connections, refused, overtaken, handlers, work>>,
             granted \subseteq granted',
             ~MutexFree => asked.topic \in granted' \/ (~MutexFree' /\ asked'.topic = asked.topic)
      PROVE  t \in granted' \/ OnTheWay(t)'
  <2>1. CASE t \in granted \/ ToBeListed
    BY <1>a, <2>1 DEF OnTheWay, ToBeListed
  <2>2. CASE \E g \in Goroutines : work[g].at \in {"check", "subscribe"} /\ t \in work[g].todo
    BY <1>a, <2>2 DEF OnTheWay
  <2>3. CASE ~MutexFree /\ asked.topic = t
    BY <1>a, <2>3 DEF OnTheWay
  <2> QED BY <1>a, <2>1, <2>2, <2>3 DEF OnTheWay
<1>7. CASE Grant
  <2>1. asked' = [asked EXCEPT !.granted = TRUE] /\ asked \in Asks
    BY <1>7, AskFields DEF Grant
  <2>2. asked'.topic = asked.topic /\ asked' \in Asks
    BY <2>1 DEF Asks
  <2>3. ~MutexFree'
    BY <2>2, NothingAssumption DEF MutexFree
  <2>4. /\ UNCHANGED <<link, connections, refused, overtaken, handlers, work>>
        /\ granted \subseteq granted'
    BY <1>7 DEF Grant
  <2> QED BY <1>a, <2>2, <2>3, <2>4 DEF CoverInv, Orderly
<1>8. CASE Orderly /\ Subscribed
  <2>1. asked.topic \in granted /\ UNCHANGED <<link, connections, granted, refused, overtaken, handlers, work>>
    BY <1>8 DEF Subscribed, SetInv, Orderly, network
  <2> QED BY <1>a, <2>1 DEF CoverInv, Orderly
<1>9. CASE Orderly /\ SubscribeFails
  BY <1>9 DEF SubscribeFails, SameConnection, SetInv, CoverInv, Orderly
<1>10. ASSUME Orderly, ~refused, NEW g \in Goroutines, GoroutineStep(g) PROVE CoverInv'
  BY <1>10, OnConnectCovers, ListCovers, CheckCovers, EndOfListCovers, SubscribeCovers
     DEF GoroutineStep
<1>11. ASSUME Orderly, ~refused, NEW a \in Adders, NEW t \in Topics, AddHandler(a, t)
       PROVE  CoverInv'
  <2>1. /\ a \in Goroutines /\ work[a].at = "idle" /\ UNCHANGED <<network, asked>>
        /\ handlers' = handlers \cup {t} /\ Becoming(a, "check", {t}, "end")
        /\ {t} \in SUBSET Topics
    BY <1>11 DEF AddHandler, AddTopic, At, Goroutines
  <2>2. /\ work'[a].at = "check" /\ work'[a].todo = {t}
        /\ \A h \in Goroutines : h # a => work'[h] = work[h]
    BY <2>1, Moved
  <2>3. OnTheWay(t)' /\ ~(a = connections /\ ToBeListed)
    <3>1. OnTheWay(t)'
      BY <2>1, <2>2 DEF OnTheWay
    <3>2. ~(a = connections /\ ToBeListed)
      BY <2>1 DEF ToBeListed
    <3> QED BY <3>1, <3>2
  <2> QED BY <1>11, <2>1, <2>2, <2>3, GoroutineCovers DEF network
<1>12. ASSUME Orderly, refused, Orderly', ~refused' PROVE CoverInv'
  <2>1. \A g \in Goroutines : GoroutineStep(g) => refused' = refused
    BY DEF GoroutineStep, OnConnect, List, Check, EndOfList, SubscribeTopic, network
  <2>2. \A a \in Adders, t \in Topics : AddHandler(a, t) => refused' = refused
    BY DEF AddHandler, network
  <2>3. Grant \/ Answer \/ UNCHANGED mqttVars => (refused => refused')
    BY DEF Grant, Answer, Subscribed, SubscribeFails, mqttVars, network
  <2> QED BY <1>1, <1>2, <1>5, <1>12, <2>1, <2>2, <2>3 DEF MqttNext
<1> QED BY <1>1, <1>2, <1>3, <1>4, <1>5, <1>6, <1>7, <1>8, <1>9, <1>10, <1>11, <1>12
        DEF MqttNext, Answer

LEMMA MqttInvariant == MqttSpec => [](MqttTypeOK /\ LossesInv /\ MqttInv)
<1>1. ASSUME MqttTypeOK, LossesInv, MqttInv, [MqttNext]_mqttVars
      PROVE  MqttTypeOK' /\ LossesInv' /\ MqttInv'
  <2>1. MqttTypeOK' /\ LossesInv'
    BY <1>1, StepTypeOK
  <2>2. MqttInv'
    BY <1>1, SetStep, CoverStep DEF MqttInv
  <2> QED BY <2>1, <2>2
<1> QED BY <1>1, InitTypeOK, InitMqtt, PTL DEF MqttSpec

\* When nothing is on its way, every topic with a handler is subscribed on the
\* connection there is, unless the broker refused one on it or it overtook the
\* loss of one before: however many connections were lost, overtaken or not.
THEOREM HandlersAreSubscribed == MqttSpec => []HandlersSubscribed
<1>1. ASSUME MqttTypeOK, MqttInv PROVE HandlersSubscribed
  <2> SUFFICES ASSUME Quiet, Orderly, ~refused, NEW t \in handlers \cup Configured
               PROVE  t \in granted
    BY DEF HandlersSubscribed, Orderly
  <2>1. /\ MutexFree
        /\ \A g \in Goroutines : work[g].at \in {"idle", "end"}
    BY DEF Quiet, At
  <2>2. ~ToBeListed
    BY <2>1 DEF ToBeListed, Goroutines
  <2>3. ~OnTheWay(t)
    BY <2>1, <2>2 DEF OnTheWay
  <2> QED BY <1>1, <2>3 DEF MqttInv, CoverInv
<1> QED BY <1>1, MqttInvariant, PTL

-----------------------------------------------------------------------------
(* The libraries side by side. *)

\* A behaviour of MCLibraries is one of every library: what is proved of one
\* library holds of the instance that the runs check, whatever its size.
THEOREM EveryLibraryKept ==
  LibrariesSpec => ServerSpec /\ MqttSpec /\ EmitterSpec /\ ChanSpec /\ InvokeSpec
<1>1. LibrariesInit => ServerInit /\ MqttInit /\ EmitterInit /\ ChanInit /\ InvokeInit
  BY DEF LibrariesInit
<1>2. ASSUME [LibrariesNext]_libraryVars
      PROVE  /\ [ServerNext]_serverVars /\ [MqttNext]_mqttVars /\ [EmitterNext]_emitterVars
             /\ [ChanNext]_chanVars /\ [InvokeNext]_invokeVars
  BY <1>2 DEF LibrariesNext, libraryVars
<1> QED BY <1>1, <1>2, PTL
        DEF LibrariesSpec, ServerSpec, MqttSpec, EmitterSpec, ChanSpec, InvokeSpec

\* All variables of all libraries keep their types, whichever library moves.
THEOREM LibrariesTypeCorrect == LibrariesSpec => []LibrariesTypeOK
<1>1. ServerTypeOK /\ MqttTypeOK /\ EmitterTypeOK /\ ChanTypeOK /\ InvokeTypeOK => LibrariesTypeOK
  BY DEF LibrariesTypeOK
<1> QED BY <1>1, EveryLibraryKept, ServerTypeCorrect, MqttTypeCorrect, EmitterTypeCorrect,
           ChanTypeCorrect, InvokeTypeCorrect, PTL
=============================================================================
