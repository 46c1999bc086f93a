-------------------------------- MODULE Invoke --------------------------------
(***************************************************************************)
(* antsx.InvokeWithReactor, which gives up when a task fails, and          *)
(* InvokeAllSettledWithReactor, which does not: one call of either.  The   *)
(* pool (ants, external) makes Submit wait while all its goroutines are    *)
(* busy, and refuses tasks once it is released.  A call with one task runs *)
(* it in place and is left out.                                            *)
(***************************************************************************)
EXTENDS Naturals, FiniteSets

CONSTANTS
  N,         \* the number of tasks
  Capacity,  \* of the pool
  NoError

ASSUME InvokeAssumption == /\ N \in Nat \ {0, 1} /\ Capacity \in Nat \ {0}
                           /\ NoError \notin {"own", "canceled", "refused"}

VARIABLES
  mode,      \* which of the two was called
  caller,    \* what the caller does
  turn,      \* the task it submits next
  job,       \* every task; WaitGroup counts those that are added or later, and not ended
  fault,     \* the error a task has returned
  slot,      \* the results
  givenUp,   \* whether cancel has been called
  ctxEnded,  \* whether the context of the caller has ended
  firstErr,
  errOnce,   \* "inside" while its function runs
  released   \* whether the pool is released

invokeVars == <<mode, caller, turn, job, fault, slot, givenUp, ctxEnded, firstErr, errOnce, released>>

Jobs == 1..N
Errors == {"own", "canceled", "refused"}

InvokeTypeOK ==
  /\ mode \in {"fast", "settled"}
  /\ caller \in {"start", "loop", "submit", "refused", "wait", "values", "error", "results"}
  /\ turn \in 1..N+1
  /\ job \in [Jobs -> {"new", "added", "running", "failing", "ended"}]
  /\ fault \in [Jobs -> {NoError, "own", "canceled"}]
  /\ slot \in [Jobs -> {"empty", "value", "error", "refused"}]
  /\ givenUp \in BOOLEAN /\ ctxEnded \in BOOLEAN /\ released \in BOOLEAN
  /\ firstErr \in Errors \cup {NoError}
  /\ errOnce \in {"idle", "inside", "done"}

InvokeInit ==
  /\ mode = "fast" /\ caller = "start" /\ turn = 1
  /\ job = [i \in Jobs |-> "new"] /\ fault = [i \in Jobs |-> NoError]
  /\ slot = [i \in Jobs |-> "empty"]
  /\ givenUp = FALSE /\ ctxEnded = FALSE /\ released = FALSE
  /\ firstErr = NoError /\ errOnce = "idle"

Returned == caller \in {"values", "error", "results"}
Counted == {i \in Jobs : job[i] \in {"added", "running", "failing"}}
Canceled == givenUp \/ ctxEnded

-----------------------------------------------------------------------------
(* The caller. *)

\* InvokeWithReactor looks at the context first.
Start(m) ==
  /\ caller = "start" /\ mode' = m
  /\ caller' = IF m = "fast" /\ ctxEnded THEN "error" ELSE "loop"
  /\ UNCHANGED <<turn, job, fault, slot, givenUp, ctxEnded, firstErr, errOnce, released>>

\* The next round of the loop, up to wg.Add.
Add ==
  /\ caller = "loop"
  /\ IF turn > N \/ (mode = "fast" /\ Canceled) THEN caller' = "wait" /\ UNCHANGED job
     ELSE caller' = "submit" /\ job' = [job EXCEPT ![turn] = "added"]
  /\ UNCHANGED <<mode, turn, fault, slot, givenUp, ctxEnded, firstErr, errOnce, released>>

Submit ==
  /\ caller = "submit" /\ ~released
  /\ Cardinality({i \in Jobs : job[i] \in {"running", "failing"}}) < Capacity
  /\ job' = [job EXCEPT ![turn] = "running"]
  /\ turn' = turn + 1 /\ caller' = "loop"
  /\ UNCHANGED <<mode, fault, slot, givenUp, ctxEnded, firstErr, errOnce, released>>

\* Submit fails: no further task is submitted.
Refused ==
  /\ caller = "submit" /\ released
  /\ job' = [job EXCEPT ![turn] = "ended"]
  /\ caller' = IF mode = "fast" THEN "refused" ELSE "wait"
  /\ slot' = IF mode = "fast" THEN slot
             ELSE [i \in Jobs |-> IF i < turn THEN slot[i] ELSE "refused"]
  /\ UNCHANGED <<mode, turn, fault, givenUp, ctxEnded, firstErr, errOnce, released>>

\* wg.Wait returns.
WaitReturns ==
  /\ caller = "wait" /\ Counted = {}
  /\ caller' = IF mode = "settled" THEN "results"
               ELSE IF firstErr # NoError \/ Canceled THEN "error" ELSE "values"
  /\ UNCHANGED <<mode, turn, job, fault, slot, givenUp, ctxEnded, firstErr, errOnce, released>>

-----------------------------------------------------------------------------
(* errOnce.Do: the first error is kept, and then cancel is called. *)

KeepError(err) ==
  /\ errOnce = "idle"
  /\ errOnce' = "inside" /\ firstErr' = err
  /\ UNCHANGED <<mode, caller, turn, job, fault, slot, givenUp, ctxEnded, released>>

TaskKeepsError(i) == job[i] = "failing" /\ KeepError(fault[i])
CallerKeepsError == caller = "refused" /\ KeepError("refused")

CallCancel ==
  /\ errOnce = "inside"
  /\ givenUp' = TRUE /\ errOnce' = "done"
  /\ UNCHANGED <<mode, caller, turn, job, fault, slot, ctxEnded, firstErr, released>>

\* Do returns to a task, or to the caller.
TaskGivesUp(i) ==
  /\ job[i] = "failing" /\ errOnce = "done"
  /\ job' = [job EXCEPT ![i] = "ended"]
  /\ UNCHANGED <<mode, caller, turn, fault, slot, givenUp, ctxEnded, firstErr, errOnce, released>>

CallerGivesUp ==
  /\ caller = "refused" /\ errOnce = "done"
  /\ caller' = "wait"
  /\ UNCHANGED <<mode, turn, job, fault, slot, givenUp, ctxEnded, firstErr, errOnce, released>>

-----------------------------------------------------------------------------
(* The tasks. *)

Succeed(i) ==
  /\ job[i] = "running"
  /\ job' = [job EXCEPT ![i] = "ended"] /\ slot' = [slot EXCEPT ![i] = "value"]
  /\ UNCHANGED <<mode, caller, turn, fault, givenUp, ctxEnded, firstErr, errOnce, released>>

\* Mutant: the others are cancelled before the error is kept.
FailCancelsFirst(i, err) ==
  /\ job[i] = "running" /\ (err = "canceled" => Canceled)
  /\ fault' = [fault EXCEPT ![i] = err]
  /\ IF mode = "fast" THEN /\ job' = [job EXCEPT ![i] = "failing"] /\ UNCHANGED slot
                           /\ givenUp' = TRUE
     ELSE /\ job' = [job EXCEPT ![i] = "ended"] /\ slot' = [slot EXCEPT ![i] = "error"]
          /\ UNCHANGED givenUp
  /\ UNCHANGED <<mode, caller, turn, ctxEnded, firstErr, errOnce, released>>

\* A task fails or panics, on its own account or because its context has ended.
Fail(i, err) ==
  /\ job[i] = "running" /\ (err = "canceled" => Canceled)
  /\ fault' = [fault EXCEPT ![i] = err]
  /\ IF mode = "fast" THEN job' = [job EXCEPT ![i] = "failing"] /\ UNCHANGED slot
     ELSE job' = [job EXCEPT ![i] = "ended"] /\ slot' = [slot EXCEPT ![i] = "error"]
  /\ UNCHANGED <<mode, caller, turn, givenUp, ctxEnded, firstErr, errOnce, released>>

\* The context of the caller ends, or somebody releases the pool.
ContextEnds ==
  /\ ~ctxEnded /\ ctxEnded' = TRUE
  /\ UNCHANGED <<mode, caller, turn, job, fault, slot, givenUp, firstErr, errOnce, released>>

Release ==
  /\ ~released /\ released' = TRUE
  /\ UNCHANGED <<mode, caller, turn, job, fault, slot, givenUp, ctxEnded, firstErr, errOnce>>

TaskStep(i) == \/ Succeed(i) \/ TaskKeepsError(i) \/ TaskGivesUp(i)
               \/ \E err \in {"own", "canceled"} : Fail(i, err)

CallerStep == Add \/ Submit \/ Refused \/ CallerKeepsError \/ CallerGivesUp \/ WaitReturns

InvokeNext == \/ \E m \in {"fast", "settled"} : Start(m)
              \/ CallerStep \/ CallCancel
              \/ \E i \in Jobs : TaskStep(i)
              \/ ContextEnds \/ Release

InvokeSpec == InvokeInit /\ [][InvokeNext]_invokeVars

-----------------------------------------------------------------------------
(* Properties. *)

\* The call waits only for tasks the pool has taken, which all come to an end, and
\* when it returns none of them is running.  InvokeWithReactor returns the values
\* of all tasks or an error, and that is never the cancellation it has caused itself
\* instead of the error behind it; InvokeAllSettledWithReactor returns a result for
\* every task, and those it could not submit are the last.
InvokeAnswers ==
  /\ caller = "wait" => \A i \in Counted : job[i] # "added"
  /\ Returned => Counted = {}
  /\ caller = "values" => \A i \in Jobs : slot[i] = "value"
  /\ caller = "error" => firstErr # NoError \/ ctxEnded
  /\ firstErr = "canceled" => ctxEnded
  /\ caller = "results" =>
       /\ \A i \in Jobs : slot[i] # "empty"
       /\ \A i, j \in Jobs : slot[i] = "refused" /\ i < j => slot[j] = "refused"
=============================================================================
