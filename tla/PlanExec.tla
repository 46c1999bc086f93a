------------------------------ MODULE PlanExec ------------------------------
(***************************************************************************)
(* The plan engine of app/trigger: one plan, its batches and their         *)
(* execution items.  Scan loops claim due items and call downstream;       *)
(* downstream answers directly or by a callback RPC; operators pause,      *)
(* resume, run and terminate at the three levels; whoever ends an item     *)
(* tries to close its batch and then the plan.                             *)
(*                                                                         *)
(* A statement sent to the database is one action (the SELECTs that only   *)
(* feed one decision are taken together, and so is a transaction).  Time   *)
(* is abstract: "due" says that next_trigger_time has come, and it comes   *)
(* at any moment after it was set.                                         *)
(***************************************************************************)
EXTENDS Naturals, FiniteSets

CONSTANTS
  Items, Batches,
  BatchOf,       \* the batch of every item
  Dispatchers,   \* runs of ScanPlanExecItem, of all the instances together
  Callers,       \* RPC calls in flight: callbacks and operators
  TriggerLimit,  \* trigger_count at which a failing item is terminated (500)
  MaxFaults,     \* bound of crashes, failed calls and lost notifications
  MaxCalls       \* bound of RPC calls

ASSUME ItemsAssumption  == BatchOf \in [Items -> Batches]
ASSUME BoundsAssumption ==
  TriggerLimit \in Nat \ {0} /\ MaxFaults \in Nat /\ MaxCalls \in Nat

Procs == Dispatchers \cup Callers

ASSUME ProcsAssumption == Dispatchers \cap Callers = {}

VARIABLES
  plan,    \* the row of the plan
  batch,   \* the rows of the batches
  item,    \* the rows of the items
  lock,    \* the redis lock of every item; "left": nobody works under it any
           \* more, and its release or the end of its TTL is to come
  disp,    \* what every dispatcher is doing
  call,    \* what every RPC call is doing
  tail,    \* how far a process is with closing the batch and the plan
  faults, calls,
  news,    \* history: BATCH_FINISHED events sent, per batch
  planNews \* history: PLAN_FINISHED events sent

rows == <<plan, batch, item>>
told == <<news, planNews>>
vars == <<plan, batch, item, lock, disp, call, tail, faults, calls, news, planNews>>

Results    == {"completed", "failed", "delayed", "ongoing", "terminated"}
Pending    == {"WAITING", "DELAYED", "RUNNING"}
EndStates  == {"COMPLETED", "TERMINATED"}
ItemRow    == [st : Pending \cup EndStates \cup {"PAUSED"}, due : BOOLEAN,
               count : 0..TriggerLimit - 1]
ParentRow  == [st : {"ENABLED", "PAUSED", "TERMINATED"}, fin : BOOLEAN]

Idle == [pc |-> "idle"]
NoTail == [pc |-> "none"]

Ended(row)  == row.st \in EndStates
Closed(row) == row.st = "TERMINATED" \/ row.fin
Open(row)   == row.st = "ENABLED" /\ ~row.fin
ItemsOf(b)  == {i \in Items : BatchOf[i] = b}

Init ==
  /\ plan = [st |-> "ENABLED", fin |-> FALSE]
  /\ batch = [b \in Batches |-> [st |-> "ENABLED", fin |-> FALSE]]
  /\ item = [i \in Items |-> [st |-> "WAITING", due |-> FALSE, count |-> 0]]
  /\ lock = [i \in Items |-> "free"]
  /\ disp = [d \in Dispatchers |-> Idle]
  /\ call = [c \in Callers |-> Idle]
  /\ tail = [p \in Procs |-> NoTail]
  /\ faults = 0 /\ calls = 0
  /\ news = [b \in Batches |-> 0] /\ planNews = 0

\* Every UPDATE of an item raises its version: a scan that has read the row
\* before can no longer claim it.
Touch(i) == [d \in Dispatchers |->
               IF disp[d].pc = "selected" /\ disp[d].item = i
               THEN [disp[d] EXCEPT !.fresh = FALSE] ELSE disp[d]]

Fault == faults < MaxFaults /\ faults' = faults + 1
Call  == calls < MaxCalls /\ calls' = calls + 1

StartTail(p, pc, b) == tail' = [tail EXCEPT ![p] = [pc |-> pc, batch |-> b]]

-----------------------------------------------------------------------------
(* Dispatching: ScanPlanExecItem and ExecuteCallback. *)

\* LockTriggerItem, the SELECT.  finished_time of the parents is not looked at.
Selectable(i) == /\ item[i].st \in Pending /\ item[i].due
                 /\ plan.st = "ENABLED" /\ batch[BatchOf[i]].st = "ENABLED"

Select(d, i) ==
  /\ disp[d] = Idle
  /\ Selectable(i)
  /\ disp' = [disp EXCEPT ![d] = [pc |-> "selected", item |-> i, fresh |-> TRUE]]
  /\ UNCHANGED <<rows, lock, call, tail, faults, calls, told>>

\* LockTriggerItem, the UPDATE: status, next_trigger_time and version as read.
ClaimItem(d) ==
  LET i == disp[d].item
  IN  /\ disp[d].pc = "selected"
      /\ IF disp[d].fresh
         THEN /\ item' = [item EXCEPT ![i] = [@ EXCEPT !.st = "RUNNING", !.due = FALSE]]
              /\ disp' = [Touch(i) EXCEPT ![d] = [pc |-> "claimed", item |-> i]]
         ELSE /\ disp' = [disp EXCEPT ![d] = Idle]
              /\ UNCHANGED item
      /\ UNCHANGED <<plan, batch, lock, call, tail, faults, calls, told>>

\* The plan and the batch are read again; a closed or paused one stops here.
CheckParents(d) ==
  LET i == disp[d].item
  IN  /\ disp[d].pc = "claimed"
      /\ disp' = [disp EXCEPT ![d] = IF Open(plan) /\ Open(batch[BatchOf[i]])
                                     THEN [pc |-> "checked", item |-> i] ELSE Idle]
      /\ UNCHANGED <<rows, lock, call, tail, faults, calls, told>>

\* UpdateExecItemStatusToRunning, then the call is queued on the task runner.
MarkRunning(d) ==
  LET i == disp[d].item
  IN  /\ disp[d].pc = "checked"
      /\ disp' = IF item[i].st = "RUNNING"
                 THEN [Touch(i) EXCEPT ![d] = [pc |-> "queued", item |-> i]]
                 ELSE [disp EXCEPT ![d] = Idle]
      /\ UNCHANGED <<rows, lock, call, tail, faults, calls, told>>

\* MarkExecItemUnresolved: nothing the model keeps, but the version moves.
Unresolved(d) ==
  LET i == disp[d].item
  IN  disp' = [(IF item[i].st = "RUNNING" THEN Touch(i) ELSE disp) EXCEPT ![d] = Idle]

\* Mutant: the call goes out whether or not the lock was acquired.
CallDownstreamUnlocked(d) ==
  /\ disp[d].pc = "queued"
  /\ lock' = [lock EXCEPT ![disp[d].item] = "held"]
  /\ disp' = [disp EXCEPT ![d].pc = "calling"]
  /\ UNCHANGED <<rows, call, tail, faults, calls, told>>

\* The lock is acquired and HandlerPlanTaskEvent called, or it is busy.
CallDownstream(d) ==
  LET i == disp[d].item
  IN  /\ disp[d].pc = "queued"
      /\ IF lock[i] = "free"
         THEN /\ lock' = [lock EXCEPT ![i] = "held"]
              /\ disp' = [disp EXCEPT ![d].pc = "calling"]
         ELSE /\ Unresolved(d)
              /\ UNCHANGED lock
      /\ UNCHANGED <<rows, call, tail, faults, calls, told>>

\* Mutant: failures are not limited.
ExceededNever(i) == FALSE

\* CalculateNextTriggerTime: this failure is the last one.
Exceeded(i) == item[i].count + 1 >= TriggerLimit

\* Downstream answers.  The goroutine of the task runner passes the answer on and
\* then releases the lock, while the dispatcher is already writing the answer.
\* "failed" stands for an unknown result as well.
Answer(d, r) ==
  /\ disp[d].pc = "calling"
  /\ lock' = [lock EXCEPT ![disp[d].item] = "left"]
  /\ disp' = [disp EXCEPT ![d] = [pc |-> "answered", item |-> @.item, res |-> r]]
  /\ UNCHANGED <<rows, call, tail, faults, calls, told>>

\* The call fails or times out; downstream may have received it.  Or redis does
\* not give the lock.
CallFails(d) ==
  /\ Fault
  /\ \/ disp[d].pc = "calling" /\ lock' = [lock EXCEPT ![disp[d].item] = "left"]
     \/ disp[d].pc = "queued" /\ UNCHANGED lock
  /\ Unresolved(d)
  /\ UNCHANGED <<rows, call, tail, calls, told>>

\* UpdateExecItemStatusToFail reads trigger_count ...
ReadCount(d) ==
  LET i == disp[d].item
  IN  /\ disp[d].pc = "answered" /\ disp[d].res = "failed"
      /\ disp' = [disp EXCEPT ![d] = [pc |-> "failing", item |-> i,
                                      res |-> IF Exceeded(i) THEN "terminated"
                                                             ELSE "delayed"]]
      /\ UNCHANGED <<rows, lock, call, tail, faults, calls, told>>

\* trigger_count as far as it matters: it is only asked whether the next failure
\* is the last one, and beyond that the count stands still.
Counted(n) == IF n + 1 < TriggerLimit THEN n + 1 ELSE n

\* Mutant: a callback takes back the count of the claim.
AfterResultUncounted(row, r, callback) ==
  LET n == IF callback THEN row.count - 1 ELSE Counted(row.count)
  IN  CASE r = "completed"  -> [st |-> "COMPLETED", due |-> FALSE, count |-> n]
        [] r = "terminated" -> [st |-> "TERMINATED", due |-> FALSE, count |-> n]
        [] r = "delayed"    -> [st |-> "DELAYED", due |-> FALSE, count |-> n]
        [] r = "ongoing"    -> [st |-> "RUNNING", due |-> FALSE, count |-> n]

\* The row after a result; a callback does not count an ongoing run again.  Nobody
\* asks whether an ended item is due: that is FALSE here.
AfterResult(row, r, callback) ==
  LET n == IF r = "ongoing" /\ callback THEN row.count ELSE Counted(row.count)
  IN  CASE r = "completed"  -> [st |-> "COMPLETED", due |-> FALSE, count |-> n]
        [] r = "terminated" -> [st |-> "TERMINATED", due |-> FALSE, count |-> n]
        [] r = "delayed"    -> [st |-> "DELAYED", due |-> FALSE, count |-> n]
        [] r = "ongoing"    -> [st |-> "RUNNING", due |-> FALSE, count |-> n]

\* Mutant: the result is written whatever the status of the item.
AnyStatus(i) == TRUE

\* The guard of every result UPDATE: any claim of the item will do.
Writable(i) == item[i].st = "RUNNING"

\* ... and writes by its own UPDATE, as every result does.  When no row
\* changes the run ends; otherwise batch and plan are tried.
WriteResult(d) ==
  LET i == disp[d].item
  IN  /\ \/ disp[d].pc = "answered" /\ disp[d].res # "failed"
         \/ disp[d].pc = "failing"
      /\ IF Writable(i)
         THEN /\ item' = [item EXCEPT ![i] = AfterResult(@, disp[d].res, FALSE)]
              /\ disp' = [Touch(i) EXCEPT ![d] = [pc |-> "closing", item |-> i]]
              /\ StartTail(d, "finishBatch", BatchOf[i])
         ELSE /\ disp' = [disp EXCEPT ![d] = Idle]
              /\ UNCHANGED <<item, tail>>
      /\ UNCHANGED <<plan, batch, lock, call, faults, calls, told>>

-----------------------------------------------------------------------------
(* Closing the batch and the plan. *)

\* Mutant: the batch is closed as soon as none of its items is pending.
BatchDoneUnlessPending(b) ==
  ~batch[b].fin /\ \A i \in ItemsOf(b) : item[i].st \notin Pending

BatchDone(b) == ~batch[b].fin /\ \A i \in ItemsOf(b) : Ended(item[i])

FinishBatch(p) ==
  LET b == tail[p].batch
  IN  /\ tail[p].pc = "finishBatch"
      /\ IF BatchDone(b)
         THEN batch' = [batch EXCEPT ![b].fin = TRUE] /\ StartTail(p, "tellBatch", b)
         ELSE StartTail(p, "finishPlan", b) /\ UNCHANGED batch
      /\ UNCHANGED <<plan, item, lock, disp, call, faults, calls, told>>

\* NotifyPlanEvent; a failed notification is logged and lost.
TellBatch(p) ==
  LET b == tail[p].batch
  IN  /\ tail[p].pc = "tellBatch"
      /\ \/ news' = [news EXCEPT ![b] = @ + 1] /\ UNCHANGED faults
         \/ Fault /\ UNCHANGED news
      /\ StartTail(p, "finishPlan", b)
      /\ UNCHANGED <<rows, lock, disp, call, calls, planNews>>

\* Mutant: the plan row is updated, and announced, again.
PlanDoneAgain == \A b \in Batches : batch[b].fin

PlanDone == ~plan.fin /\ \A b \in Batches : batch[b].fin

FinishPlan(p) ==
  LET b == tail[p].batch
  IN  /\ tail[p].pc = "finishPlan"
      /\ IF PlanDone
         THEN plan' = [plan EXCEPT !.fin = TRUE] /\ StartTail(p, "tellPlan", b)
         ELSE StartTail(p, "done", b) /\ UNCHANGED plan
      /\ UNCHANGED <<batch, item, lock, disp, call, faults, calls, told>>

TellPlan(p) ==
  /\ tail[p].pc = "tellPlan"
  /\ \/ planNews' = planNews + 1 /\ UNCHANGED faults
     \/ Fault /\ UNCHANGED planNews
  /\ StartTail(p, "done", tail[p].batch)
  /\ UNCHANGED <<rows, lock, disp, call, calls, news>>

\* The locks of p that its end releases (or its death leaves behind).
LocksAfter(p, state) ==
  IF p \in Callers /\ call[p].pc \in {"callback", "cbFailing", "cbClosing"}
  THEN [lock EXCEPT ![call[p].item] = state]
  ELSE IF p \in Dispatchers /\ disp[p].pc = "calling"
       THEN [lock EXCEPT ![disp[p].item] = state] ELSE lock

Reset(p) ==
  /\ disp' = [d \in Dispatchers |-> IF d = p THEN Idle ELSE disp[d]]
  /\ call' = [c \in Callers |-> IF c = p THEN Idle ELSE call[c]]
  /\ tail' = [tail EXCEPT ![p] = NoTail]

EndTail(p) ==
  /\ tail[p].pc = "done"
  /\ Reset(p)
  /\ lock' = LocksAfter(p, "free")
  /\ UNCHANGED <<rows, faults, calls, told>>

-----------------------------------------------------------------------------
(* Callbacks: CallbackPlanExecItem. *)

\* The lock, then the item is read again and has to be RUNNING.
Callback(c, i, r) ==
  /\ call[c] = Idle /\ Call
  /\ lock[i] = "free"
  /\ item[i].st = "RUNNING"
  /\ lock' = [lock EXCEPT ![i] = "held"]
  /\ call' = [call EXCEPT ![c] = [pc |-> "callback", item |-> i, res |-> r]]
  /\ UNCHANGED <<rows, disp, tail, faults, told>>

CallbackReadCount(c) ==
  LET i == call[c].item
  IN  /\ call[c].pc = "callback" /\ call[c].res = "failed"
      /\ call' = [call EXCEPT ![c] = [pc |-> "cbFailing", item |-> i,
                                      res |-> IF Exceeded(i) THEN "terminated"
                                                             ELSE "delayed"]]
      /\ UNCHANGED <<rows, lock, disp, tail, faults, calls, told>>

\* The transaction; when no row changes it is rolled back and the lock freed.
CallbackWrite(c) ==
  LET i == call[c].item
  IN  /\ \/ call[c].pc = "callback" /\ call[c].res # "failed"
         \/ call[c].pc = "cbFailing"
      /\ IF Writable(i)
         THEN /\ item' = [item EXCEPT ![i] = AfterResult(@, call[c].res, TRUE)]
              /\ disp' = Touch(i)
              /\ call' = [call EXCEPT ![c] = [pc |-> "cbClosing", item |-> i]]
              /\ StartTail(c, "finishBatch", BatchOf[i])
              /\ UNCHANGED lock
         ELSE /\ call' = [call EXCEPT ![c] = Idle]
              /\ lock' = [lock EXCEPT ![i] = "free"]
              /\ UNCHANGED <<item, disp, tail>>
      /\ UNCHANGED <<plan, batch, faults, calls, told>>

-----------------------------------------------------------------------------
(* Operators.  The row is read and the conditions are checked; then the     *)
(* whole row is saved as it was read but for the columns the call sets.     *)
(* None of these calls takes the redis lock.                                *)

ItemOps == {"pause", "resume", "run", "terminate"}

ReadItem(c, i, op) ==
  /\ call[c] = Idle /\ Call
  /\ call' = [call EXCEPT ![c] = [pc |-> "saveItem", op |-> op, item |-> i, row |-> item[i]]]
  /\ UNCHANGED <<rows, lock, disp, tail, faults, told>>

PausePlanExecItem(c, i) ==
  /\ item[i].st \in {"WAITING", "DELAYED"}
  /\ ~Closed(plan) /\ ~Closed(batch[BatchOf[i]])
  /\ ReadItem(c, i, "pause")

\* Resuming an item checks nothing of its plan and batch.
ResumePlanExecItem(c, i) == item[i].st = "PAUSED" /\ ReadItem(c, i, "resume")

RunPlanExecItem(c, i) ==
  /\ item[i].st \in {"WAITING", "DELAYED"}
  /\ Open(plan) /\ Open(batch[BatchOf[i]])
  /\ ReadItem(c, i, "run")

TerminatePlanExecItem(c, i) ==
  /\ ~Ended(item[i])
  /\ ~Closed(plan) /\ ~Closed(batch[BatchOf[i]])
  /\ ReadItem(c, i, "terminate")

\* gorm's Save writes every column; when the version has moved its UPDATE
\* changes no row and Save falls back to an upsert, which does.
SaveItem(c) ==
  LET i == call[c].item
      r == call[c].row
      op == call[c].op
  IN  /\ call[c].pc = "saveItem"
      /\ item' = [item EXCEPT ![i] =
                    CASE op = "pause"     -> [r EXCEPT !.st = "PAUSED"]
                      [] op = "resume"    -> [r EXCEPT !.st = "WAITING"]
                      [] op = "run"       -> [r EXCEPT !.due = TRUE]
                      [] op = "terminate" -> [r EXCEPT !.st = "TERMINATED", !.due = FALSE]]
      /\ disp' = Touch(i)
      /\ IF op = "terminate"
         THEN /\ call' = [call EXCEPT ![c] = [pc |-> "closing"]]
              /\ StartTail(c, "finishBatch", BatchOf[i])
         ELSE /\ call' = [call EXCEPT ![c] = Idle]
              /\ UNCHANGED tail
      /\ UNCHANGED <<plan, batch, lock, faults, calls, told>>

ReadPlan(c, op) ==
  /\ call[c] = Idle /\ Call
  /\ call' = [call EXCEPT ![c] = [pc |-> "savePlan", op |-> op, row |-> plan]]
  /\ UNCHANGED <<rows, lock, disp, tail, faults, told>>

PausePlan(c) == Open(plan) /\ ReadPlan(c, "pause")

\* A finished plan that is paused can be resumed.
ResumePlan(c) == plan.st = "PAUSED" /\ ReadPlan(c, "resume")

SavePlan(c) ==
  /\ call[c].pc = "savePlan"
  /\ IF call[c].op = "pause"
     THEN /\ plan' = [call[c].row EXCEPT !.st = "PAUSED"]
          /\ batch' = [b \in Batches |-> IF Open(batch[b])
                                         THEN [batch[b] EXCEPT !.st = "PAUSED"] ELSE batch[b]]
     ELSE /\ plan' = [call[c].row EXCEPT !.st = "ENABLED"]
          /\ batch' = [b \in Batches |-> IF batch[b].st = "PAUSED"
                                         THEN [batch[b] EXCEPT !.st = "ENABLED"] ELSE batch[b]]
  /\ call' = [call EXCEPT ![c] = Idle]
  /\ UNCHANGED <<item, lock, disp, tail, faults, calls, told>>

ReadBatch(c, b, op) ==
  /\ call[c] = Idle /\ Call
  /\ call' = [call EXCEPT ![c] = [pc |-> "saveBatch", op |-> op, batch |-> b,
                                  row |-> batch[b]]]
  /\ UNCHANGED <<rows, lock, disp, tail, faults, told>>

PausePlanBatch(c, b) == Open(plan) /\ Open(batch[b]) /\ ReadBatch(c, b, "pause")

ResumePlanBatch(c, b) ==
  /\ ~Closed(plan)
  /\ batch[b].st = "PAUSED" /\ ~batch[b].fin
  /\ ReadBatch(c, b, "resume")

SaveBatch(c) ==
  LET b == call[c].batch
  IN  /\ call[c].pc = "saveBatch"
      /\ IF call[c].op = "pause"
         THEN /\ batch' = [batch EXCEPT ![b] = [call[c].row EXCEPT !.st = "PAUSED"]]
              /\ UNCHANGED plan
         ELSE /\ batch' = [batch EXCEPT ![b] = [call[c].row EXCEPT !.st = "ENABLED"]]
              /\ plan' = IF plan.st = "PAUSED" THEN [plan EXCEPT !.st = "ENABLED"] ELSE plan
      /\ call' = [call EXCEPT ![c] = Idle]
      /\ UNCHANGED <<item, lock, disp, tail, faults, calls, told>>

\* TerminatePlan and TerminatePlanBatch: inside the transaction the RUNNING
\* items are counted first ...
NoneRunning(b) == \A i \in ItemsOf(b) : item[i].st # "RUNNING"

TerminatePlanCount(c) ==
  /\ call[c] = Idle /\ Call
  /\ ~Closed(plan)
  /\ \A b \in Batches : NoneRunning(b)
  /\ call' = [call EXCEPT ![c] = [pc |-> "endPlan"]]
  /\ UNCHANGED <<rows, lock, disp, tail, faults, told>>

TerminateBatchCount(c, b) ==
  /\ call[c] = Idle /\ Call
  /\ ~Closed(plan) /\ ~Closed(batch[b])
  /\ NoneRunning(b)
  /\ call' = [call EXCEPT ![c] = [pc |-> "endBatch", batch |-> b]]
  /\ UNCHANGED <<rows, lock, disp, tail, faults, told>>

\* ... and the parents are closed by conditional updates, the items left alone.
TerminatedRow(row) == IF Closed(row) THEN row ELSE [st |-> "TERMINATED", fin |-> TRUE]

TerminatePlanCommit(c) ==
  /\ call[c].pc = "endPlan"
  /\ IF Closed(plan)
     THEN /\ call' = [call EXCEPT ![c] = Idle]
          /\ UNCHANGED <<plan, batch, tail>>
     ELSE /\ plan' = TerminatedRow(plan)
          /\ batch' = [b \in Batches |-> TerminatedRow(batch[b])]
          /\ call' = [call EXCEPT ![c] = [pc |-> "closing"]]
          /\ \E b \in Batches : StartTail(c, "tellPlan", b)
  /\ UNCHANGED <<item, lock, disp, faults, calls, told>>

TerminateBatchCommit(c) ==
  LET b == call[c].batch
  IN  /\ call[c].pc = "endBatch"
      /\ IF Closed(batch[b])
         THEN /\ call' = [call EXCEPT ![c] = Idle]
              /\ UNCHANGED <<batch, tail>>
         ELSE /\ batch' = [batch EXCEPT ![b] = TerminatedRow(@)]
              /\ call' = [call EXCEPT ![c] = [pc |-> "closing"]]
              /\ StartTail(c, "tellBatch", b)
      /\ UNCHANGED <<plan, item, lock, disp, faults, calls, told>>

-----------------------------------------------------------------------------
(* Time and failures. *)

\* next_trigger_time comes: a first run, a retry, or a claim that is stale.
Elapse(i) ==
  /\ ~item[i].due /\ ~Ended(item[i])
  /\ item' = [item EXCEPT ![i].due = TRUE]
  /\ UNCHANGED <<plan, batch, lock, disp, call, tail, faults, calls, told>>

\* A process dies where it stands; a lock it works under stays until its TTL.
Crash(p) ==
  /\ IF p \in Dispatchers THEN disp[p] # Idle ELSE call[p] # Idle
  /\ Fault
  /\ Reset(p)
  /\ lock' = LocksAfter(p, "left")
  /\ UNCHANGED <<rows, calls, told>>

\* The deferred release, or the TTL when it fails or its process is dead.  The
\* TTL is the request timeout plus two minutes, longer than anybody works under
\* the lock.
LockGoes(i) ==
  /\ lock[i] = "left"
  /\ lock' = [lock EXCEPT ![i] = "free"]
  /\ UNCHANGED <<rows, disp, call, tail, faults, calls, told>>

-----------------------------------------------------------------------------
Dispatch(d) ==
  \/ \E i \in Items : Select(d, i)
  \/ ClaimItem(d) \/ CheckParents(d) \/ MarkRunning(d) \/ CallDownstream(d)
  \/ \E r \in Results : Answer(d, r)
  \/ ReadCount(d) \/ WriteResult(d)

Closing(p) == FinishBatch(p) \/ TellBatch(p) \/ FinishPlan(p) \/ TellPlan(p) \/ EndTail(p)

ReadCall(c) ==
  \/ \E i \in Items : \/ PausePlanExecItem(c, i) \/ ResumePlanExecItem(c, i)
                       \/ RunPlanExecItem(c, i) \/ TerminatePlanExecItem(c, i)
  \/ \E b \in Batches : PausePlanBatch(c, b) \/ ResumePlanBatch(c, b)
                         \/ TerminateBatchCount(c, b)
  \/ PausePlan(c) \/ ResumePlan(c) \/ TerminatePlanCount(c)

SaveCall(c) == SaveItem(c) \/ SavePlan(c) \/ SaveBatch(c)
               \/ TerminatePlanCommit(c) \/ TerminateBatchCommit(c)

CallbackCall(c) == \/ \E i \in Items, r \in Results : Callback(c, i, r)
                   \/ CallbackReadCount(c) \/ CallbackWrite(c)

\* Everything but the second half of the operators' calls.
Base ==
  \/ \E d \in Dispatchers : Dispatch(d) \/ CallFails(d)
  \/ \E p \in Procs : Closing(p) \/ Crash(p)
  \/ \E c \in Callers : ReadCall(c) \/ CallbackCall(c)
  \/ \E i \in Items : Elapse(i) \/ LockGoes(i)

Next == Base \/ \E c \in Callers : SaveCall(c)

Spec == Init /\ [][Next]_vars

\* SERIAL: nothing happens between the read and the save of an operator's
\* call.  Nothing in the code enforces this.
Saving(c) == call[c].pc \in {"saveItem", "savePlan", "saveBatch", "endPlan", "endBatch"}

SerialNext == \/ \E c \in Callers : SaveCall(c)
              \/ Base /\ \A c \in Callers : ~Saving(c)

SerialSpec == Init /\ [][SerialNext]_vars

\* FAIR: dispatchers and calls go on, time passes, locks that were left go.
Fairness ==
  /\ \A d \in Dispatchers : WF_vars(Dispatch(d) \/ Closing(d))
  /\ \A c \in Callers : WF_vars(Closing(c) \/ SaveCall(c)
                               \/ CallbackReadCount(c) \/ CallbackWrite(c))
  /\ \A i \in Items : WF_vars(Elapse(i)) /\ WF_vars(LockGoes(i))

FairSpec == Spec /\ Fairness

\* Downstream puts the item off; nothing in the code limits how often.
PutOff(d) == \E r \in {"delayed", "ongoing"} : Answer(d, r)

\* The same, when no process dies between the write that ends an item and the
\* statements that close its batch and the plan, and downstream puts items off
\* finitely often.  How often a call may end in "failed" is left to the code.
ClosingSpec ==
  /\ Init
  /\ [][Next /\ \A p \in Procs : Crash(p) => tail[p] = NoTail]_vars
  /\ Fairness
  /\ <>[][\A d \in Dispatchers : ~PutOff(d)]_vars

-----------------------------------------------------------------------------
(* Properties. *)

DispRec == {Idle}
  \cup [pc : {"selected"}, item : Items, fresh : BOOLEAN]
  \cup [pc : {"claimed", "checked", "queued", "calling", "closing"}, item : Items]
  \cup [pc : {"answered"}, item : Items, res : Results]
  \cup [pc : {"failing"}, item : Items, res : {"terminated", "delayed"}]

CallRec == {Idle} \cup [pc : {"closing", "endPlan"}]
  \cup [pc : {"callback"}, item : Items, res : Results]
  \cup [pc : {"cbFailing"}, item : Items, res : {"terminated", "delayed"}]
  \cup [pc : {"cbClosing"}, item : Items]
  \cup [pc : {"saveItem"}, op : ItemOps, item : Items, row : ItemRow]
  \cup [pc : {"savePlan"}, op : {"pause", "resume"}, row : ParentRow]
  \cup [pc : {"saveBatch"}, op : {"pause", "resume"}, batch : Batches, row : ParentRow]
  \cup [pc : {"endBatch"}, batch : Batches]

TailRec == {NoTail} \cup
  [pc : {"finishBatch", "tellBatch", "finishPlan", "tellPlan", "done"}, batch : Batches]

\* Types of all the variables.
TypeOK ==
  /\ plan \in ParentRow
  /\ batch \in [Batches -> ParentRow]
  /\ item \in [Items -> ItemRow]
  /\ lock \in [Items -> {"free", "held", "left"}]
  /\ disp \in [Dispatchers -> DispRec]
  /\ call \in [Callers -> CallRec]
  /\ tail \in [Procs -> TailRec]
  /\ faults \in Nat /\ calls \in Nat
  /\ news \in [Batches -> Nat] /\ planNews \in Nat

\* Who works on item i under its lock.
Holders(i) ==
  {d \in Dispatchers : disp[d].pc = "calling" /\ disp[d].item = i}
  \cup {c \in Callers : call[c].pc \in {"callback", "cbFailing", "cbClosing"}
                         /\ call[c].item = i}

\* At most one downstream call or callback of an item is going on, although
\* claims expire under a slow call and are given to other dispatchers.
ExecutionExclusive ==
  \A i \in Items : \A p, q \in Holders(i) : p = q

\* An ended item never runs or changes again (trigger.md: COMPLETED is final).
EndedIsFinal ==
  [][\A i \in Items : Ended(item[i]) => item'[i].st = item[i].st]_rows

\* A batch or plan that was closed by aggregation has nothing left to do below.
FinishedMeansDone ==
  /\ \A b \in Batches : batch[b].fin /\ batch[b].st # "TERMINATED"
                           => \A i \in ItemsOf(b) : Ended(item[i])
  /\ plan.fin => \A b \in Batches : batch[b].fin

\* BATCH_FINISHED and PLAN_FINISHED are sent at most once, whoever closes.
AnnouncedOnce == planNews =< 1 /\ \A b \in Batches : news[b] =< 1

\* A downstream call starts only while neither the plan nor the batch of the
\* item was terminated (terminateplanlogic.go: after the claim the parents are
\* read again and dispatching stops when they are not enabled).
NoCallAfterTermination ==
  [][\A d \in Dispatchers : disp[d].pc # "calling" /\ disp'[d].pc = "calling"
       => plan.st # "TERMINATED" /\ batch[BatchOf[disp'[d].item]].st # "TERMINATED"]_vars

\* Every item ends and then the batches and the plan are closed, in spite of
\* crashes, failed calls and retries, when no operator interferes: an unanswered
\* claim comes due again, an item that goes on failing is terminated at the limit
\* (500 in the code), and whoever ends the last item closes (trigger.md: the finish
\* times of Batch and Plan are aggregated after all the items have ended).
PlanEnds == <>((\A i \in Items : Ended(item[i])) /\ plan.fin)
=============================================================================
