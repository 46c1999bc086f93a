--------------------------- MODULE PlanExecProofs ---------------------------
(***************************************************************************)
(* Proofs about PlanExec, for any number of items, batches, dispatchers    *)
(* and calls.  Of Spec, operators interleaving as they like: type          *)
(* correctness, and at most one execution of an item at a time.  Of        *)
(* SerialSpec, an operator's call saving what it has just read: an ended   *)
(* item stays ended, what is closed is done, and a closing is announced    *)
(* at most once.                                                           *)
(***************************************************************************)
EXTENDS PlanExec, TLAPS

\* The invariant: who works on an item holds its lock, and is alone.  A lock
\* that is free or left therefore protects nobody.
LockInv ==
  \A i \in Items : \A p, q \in Holders(i) : lock[i] = "held" /\ p = q

\* The variables, in the groups the actions change them in.
RowsTypeOK ==
  /\ plan \in ParentRow
  /\ batch \in [Batches -> ParentRow]
  /\ item \in [Items -> ItemRow]

LockTypeOK == lock \in [Items -> {"free", "held", "left"}]
DispTypeOK == disp \in [Dispatchers -> DispRec]
CallTypeOK == call \in [Callers -> CallRec]
TailTypeOK == tail \in [Procs -> TailRec]

CountsTypeOK ==
  /\ faults \in Nat /\ calls \in Nat
  /\ news \in [Batches -> Nat] /\ planNews \in Nat

LEMMA TypeParts ==
  /\ TypeOK <=> /\ RowsTypeOK /\ LockTypeOK /\ DispTypeOK
                /\ CallTypeOK /\ TailTypeOK /\ CountsTypeOK
  /\ TypeOK' <=> /\ RowsTypeOK' /\ LockTypeOK' /\ DispTypeOK'
                 /\ CallTypeOK' /\ TailTypeOK' /\ CountsTypeOK'
BY DEF TypeOK, RowsTypeOK, LockTypeOK, DispTypeOK, CallTypeOK, TailTypeOK, CountsTypeOK

LEMMA InitTypeOK == Init => TypeOK
<1> SUFFICES ASSUME Init PROVE TypeOK
  OBVIOUS
<1>1. RowsTypeOK
  BY BoundsAssumption DEF Init, RowsTypeOK, ParentRow, ItemRow, Pending
<1>2. LockTypeOK /\ DispTypeOK /\ CallTypeOK /\ TailTypeOK /\ CountsTypeOK
  BY DEF Init, LockTypeOK, DispTypeOK, DispRec, CallTypeOK, CallRec, TailTypeOK, TailRec,
         CountsTypeOK
<1> QED BY <1>1, <1>2, TypeParts

LEMMA InitLockInv == Init => LockInv
<1> SUFFICES ASSUME Init, NEW i \in Items PROVE Holders(i) = {}
  BY DEF LockInv
<1> QED BY DEF Init, Holders, Idle

-----------------------------------------------------------------------------
(* What the records of dispatchers, calls and tails contain. *)

LEMMA DispFields ==
  ASSUME NEW r \in DispRec
  PROVE  /\ r # Idle => r.item \in Items /\ r.pc # "idle"
         /\ r.pc = "selected" => [r EXCEPT !.fresh = FALSE]
                                   \in [pc : {"selected"}, item : Items, fresh : BOOLEAN]
         /\ r.pc = "queued" => [r EXCEPT !.pc = "calling"] = [pc |-> "calling", item |-> r.item]
         /\ r.pc = "answered" => r.res \in Results
         /\ r.pc = "failing" => r.res \in {"terminated", "delayed"}
<1>1. ASSUME r.pc = "selected"
      PROVE  [r EXCEPT !.fresh = FALSE] \in [pc : {"selected"}, item : Items, fresh : BOOLEAN]
  <2>1. r \in [pc : {"selected"}, item : Items, fresh : BOOLEAN]
    BY <1>1 DEF DispRec, Idle
  <2> QED BY <2>1
<1>2. ASSUME r.pc = "queued"
      PROVE  [r EXCEPT !.pc = "calling"] = [pc |-> "calling", item |-> r.item]
  <2>1. r \in [pc : {"claimed", "checked", "queued", "calling", "closing"}, item : Items]
    BY <1>2 DEF DispRec, Idle
  <2> QED BY <2>1
<1>3. /\ r # Idle => r.item \in Items /\ r.pc # "idle"
      /\ r.pc = "answered" => r.res \in Results
      /\ r.pc = "failing" => r.res \in {"terminated", "delayed"}
  BY DEF DispRec, Idle
<1> QED BY <1>1, <1>2, <1>3

LEMMA DispMake ==
  ASSUME NEW i \in Items
  PROVE  /\ Idle \in DispRec
         /\ \A f \in BOOLEAN : [pc |-> "selected", item |-> i, fresh |-> f] \in DispRec
         /\ \A pc \in {"claimed", "checked", "queued", "calling", "closing"} :
              [pc |-> pc, item |-> i] \in DispRec
         /\ \A r \in Results : [pc |-> "answered", item |-> i, res |-> r] \in DispRec
         /\ \A r \in {"terminated", "delayed"} : [pc |-> "failing", item |-> i, res |-> r] \in DispRec
BY DEF DispRec

LEMMA CallFields ==
  ASSUME NEW r \in CallRec
  PROVE  /\ r.pc \in {"callback", "cbFailing", "cbClosing", "saveItem"} => r.item \in Items
         /\ r.pc = "callback" => r.res \in Results
         /\ r.pc = "cbFailing" => r.res \in {"terminated", "delayed"}
         /\ r.pc = "saveItem" => r.row \in ItemRow /\ r.op \in ItemOps
         /\ r.pc = "savePlan" => r.row \in ParentRow
         /\ r.pc = "saveBatch" => r.row \in ParentRow /\ r.batch \in Batches
         /\ r.pc = "endBatch" => r.batch \in Batches
BY DEF CallRec, Idle

LEMMA TailFields ==
  ASSUME NEW r \in TailRec, r.pc # "none"
  PROVE  r.batch \in Batches
BY DEF TailRec, NoTail

LEMMA StartTailType ==
  ASSUME TailTypeOK, NEW p \in Procs, NEW b \in Batches,
         NEW pc \in {"finishBatch", "tellBatch", "finishPlan", "tellPlan", "done"},
         StartTail(p, pc, b)
  PROVE  TailTypeOK'
BY DEF TailTypeOK, TailRec, StartTail

\* Touching an item changes only the freshness of the rows that scans have read.
LEMMA TouchKeeps ==
  ASSUME DispTypeOK, NEW i \in Items
  PROVE  /\ Touch(i) \in [Dispatchers -> DispRec]
         /\ \A d \in Dispatchers : /\ Touch(i)[d].pc = disp[d].pc
                                   /\ disp[d].pc # "selected" => Touch(i)[d] = disp[d]
<1> SUFFICES ASSUME NEW d \in Dispatchers
             PROVE  /\ Touch(i)[d] \in DispRec
                    /\ Touch(i)[d].pc = disp[d].pc
                    /\ disp[d].pc # "selected" => Touch(i)[d] = disp[d]
  BY DEF Touch
<1>1. CASE disp[d].pc = "selected" /\ disp[d].item = i
  <2>1. Touch(i)[d] \in [pc : {"selected"}, item : Items, fresh : BOOLEAN]
    BY <1>1, DispFields DEF Touch, DispTypeOK
  <2>2. Touch(i)[d] \in DispRec
    BY <2>1 DEF DispRec
  <2>3. Touch(i)[d].pc = "selected"
    BY <2>1
  <2> QED BY <1>1, <2>2, <2>3
<1>2. CASE ~(disp[d].pc = "selected" /\ disp[d].item = i)
  BY <1>2 DEF Touch, DispTypeOK
<1> QED BY <1>1, <1>2

LEMMA AfterResultType ==
  ASSUME NEW row \in ItemRow, NEW r \in Results \ {"failed"}, NEW b \in BOOLEAN
  PROVE  AfterResult(row, r, b) \in ItemRow
<1> DEFINE n == IF r = "ongoing" /\ b THEN row.count ELSE Counted(row.count)
<1>1. n \in 0..TriggerLimit - 1
  BY BoundsAssumption DEF ItemRow, Counted
<1> HIDE DEF n
<1>2. CASE r = "completed"
  <2>1. AfterResult(row, r, b) = [st |-> "COMPLETED", due |-> FALSE, count |-> n]
    BY <1>2 DEF AfterResult, n
  <2> QED BY <1>1, <2>1 DEF ItemRow, EndStates
<1>3. CASE r = "terminated"
  <2>1. AfterResult(row, r, b) = [st |-> "TERMINATED", due |-> FALSE, count |-> n]
    BY <1>3 DEF AfterResult, n
  <2> QED BY <1>1, <2>1 DEF ItemRow, EndStates
<1>4. CASE r = "delayed"
  <2>1. AfterResult(row, r, b) = [st |-> "DELAYED", due |-> FALSE, count |-> n]
    BY <1>4 DEF AfterResult, n
  <2> QED BY <1>1, <2>1 DEF ItemRow, Pending
<1>5. CASE r = "ongoing"
  <2>1. AfterResult(row, r, b) = [st |-> "RUNNING", due |-> FALSE, count |-> n]
    BY <1>5 DEF AfterResult, n
  <2> QED BY <1>1, <2>1 DEF ItemRow, Pending
<1> QED BY <1>2, <1>3, <1>4, <1>5 DEF Results

-----------------------------------------------------------------------------
(* Type correctness, step by step. *)

\* A dispatcher's next record, with or without an item touched.
LEMMA DispStepType ==
  ASSUME DispTypeOK, NEW d \in Dispatchers, NEW r \in DispRec,
         \/ disp' = [disp EXCEPT ![d] = r]
         \/ \E i \in Items : disp' = [Touch(i) EXCEPT ![d] = r]
  PROVE  DispTypeOK'
<1>1. CASE disp' = [disp EXCEPT ![d] = r]
  BY <1>1 DEF DispTypeOK
<1>2. ASSUME NEW i \in Items, disp' = [Touch(i) EXCEPT ![d] = r] PROVE DispTypeOK'
  <2>1. Touch(i) \in [Dispatchers -> DispRec]
    BY TouchKeeps
  <2> QED BY <1>2, <2>1 DEF DispTypeOK
<1> QED BY <1>1, <1>2

LEMMA TypesStay ==
  ASSUME TypeOK
  PROVE  /\ UNCHANGED rows => RowsTypeOK'
         /\ UNCHANGED lock => LockTypeOK'
         /\ UNCHANGED disp => DispTypeOK'
         /\ UNCHANGED call => CallTypeOK'
         /\ UNCHANGED tail => TailTypeOK'
         /\ UNCHANGED <<faults, calls, told>> => CountsTypeOK'
         /\ Fault /\ UNCHANGED <<calls, told>> => CountsTypeOK'
         /\ Call /\ UNCHANGED <<faults, told>> => CountsTypeOK'
BY TypeParts DEF rows, told, RowsTypeOK, LockTypeOK, DispTypeOK, CallTypeOK, TailTypeOK,
                 CountsTypeOK, Fault, Call

LEMMA DispatchType ==
  ASSUME TypeOK, NEW d \in Dispatchers, Dispatch(d) \/ CallFails(d)
  PROVE  TypeOK'
<1> DEFINE i == disp[d].item
<1>t. /\ RowsTypeOK /\ LockTypeOK /\ DispTypeOK /\ TailTypeOK
      /\ disp[d] \in DispRec /\ Idle \in DispRec
  BY TypeParts DEF DispTypeOK, DispRec
<1>i. disp[d].pc # "idle" => i \in Items
  <2>1. Idle.pc = "idle"
    BY DEF Idle
  <2> QED BY <1>t, <2>1, DispFields
<1>1. ASSUME NEW x \in Items, Select(d, x) PROVE TypeOK'
  <2>1. DispTypeOK'
    BY <1>1, <1>t, DispMake, DispStepType DEF Select
  <2> QED BY <1>1, <2>1, TypesStay, TypeParts DEF Select
<1>2. CASE ClaimItem(d)
  <2>1. i \in Items /\ [pc |-> "claimed", item |-> i] \in DispRec
    BY <1>2, <1>i, DispMake DEF ClaimItem
  <2>2. DispTypeOK'
    BY <1>2, <1>t, <2>1, DispStepType DEF ClaimItem
  <2>3. RowsTypeOK'
    <3>1. CASE disp[d].fresh
      <4>1. [item[i] EXCEPT !.st = "RUNNING", !.due = FALSE] \in ItemRow
        BY <1>t, <2>1 DEF RowsTypeOK, ItemRow, Pending
      <4>2. item' = [item EXCEPT ![i] = [item[i] EXCEPT !.st = "RUNNING", !.due = FALSE]]
        BY <1>2, <3>1 DEF ClaimItem
      <4> QED BY <1>2, <1>t, <4>1, <4>2 DEF ClaimItem, RowsTypeOK
    <3>2. CASE ~disp[d].fresh
      BY <1>2, <1>t, <3>2 DEF ClaimItem, RowsTypeOK
    <3> QED BY <3>1, <3>2
  <2> QED BY <1>2, <2>2, <2>3, TypesStay, TypeParts DEF ClaimItem
<1>3. CASE CheckParents(d)
  <2>1. i \in Items /\ [pc |-> "checked", item |-> i] \in DispRec
    BY <1>3, <1>i, DispMake DEF CheckParents
  <2>2. DispTypeOK'
    BY <1>3, <1>t, <2>1, DispStepType DEF CheckParents
  <2> QED BY <1>3, <2>2, TypesStay, TypeParts DEF CheckParents
<1>4. CASE MarkRunning(d)
  <2>1. i \in Items /\ [pc |-> "queued", item |-> i] \in DispRec
    BY <1>4, <1>i, DispMake DEF MarkRunning
  <2>2. DispTypeOK'
    BY <1>4, <1>t, <2>1, DispStepType DEF MarkRunning
  <2> QED BY <1>4, <2>2, TypesStay, TypeParts DEF MarkRunning
<1>5. ASSUME disp[d].pc # "idle", Unresolved(d) PROVE DispTypeOK'
  BY <1>5, <1>t, <1>i, DispStepType DEF Unresolved
<1>6. CASE CallDownstream(d)
  <2>1. i \in Items /\ [pc |-> "calling", item |-> i] \in DispRec
    BY <1>6, <1>i, DispMake DEF CallDownstream
  <2>2. LockTypeOK'
    BY <1>6, <1>t, <2>1 DEF CallDownstream, LockTypeOK
  <2>3. DispTypeOK'
    <3>1. CASE lock[i] = "free"
      <4>1. disp' = [disp EXCEPT ![d] = [disp[d] EXCEPT !.pc = "calling"]]
        BY <1>6, <3>1 DEF CallDownstream
      <4>2. [disp[d] EXCEPT !.pc = "calling"] \in DispRec
        BY <1>6, <1>t, <2>1, DispFields DEF CallDownstream
      <4> QED BY <1>t, <4>1, <4>2, DispStepType
    <3>2. CASE lock[i] # "free"
      BY <1>6, <1>5, <3>2 DEF CallDownstream
    <3> QED BY <3>1, <3>2
  <2> QED BY <1>6, <2>2, <2>3, TypesStay, TypeParts DEF CallDownstream
<1>7. ASSUME NEW r \in Results, Answer(d, r) PROVE TypeOK'
  <2>1. i \in Items /\ [pc |-> "answered", item |-> i, res |-> r] \in DispRec
    BY <1>7, <1>i, DispMake DEF Answer
  <2>2. LockTypeOK' /\ DispTypeOK'
    BY <1>7, <1>t, <2>1, DispStepType DEF Answer, LockTypeOK
  <2> QED BY <1>7, <2>2, TypesStay, TypeParts DEF Answer
<1>8. CASE ReadCount(d)
  <2>1. i \in Items /\ \A r \in {"terminated", "delayed"} :
                         [pc |-> "failing", item |-> i, res |-> r] \in DispRec
    BY <1>8, <1>i, DispMake DEF ReadCount
  <2>2. DispTypeOK'
    BY <1>8, <1>t, <2>1, DispStepType DEF ReadCount
  <2> QED BY <1>8, <2>2, TypesStay, TypeParts DEF ReadCount
<1>9. CASE WriteResult(d)
  <2>1. /\ i \in Items /\ [pc |-> "closing", item |-> i] \in DispRec
        /\ disp[d].res \in Results \ {"failed"}
    BY <1>9, <1>i, <1>t, DispMake, DispFields DEF WriteResult, Results
  <2>2. DispTypeOK'
    BY <1>9, <1>t, <2>1, DispStepType DEF WriteResult
  <2>3. RowsTypeOK'
    <3>1. AfterResult(item[i], disp[d].res, FALSE) \in ItemRow
      BY <1>t, <2>1, AfterResultType DEF RowsTypeOK
    <3> QED BY <1>9, <1>t, <3>1 DEF WriteResult, RowsTypeOK
  <2>4. TailTypeOK'
    <3>1. BatchOf[i] \in Batches /\ d \in Procs
      BY <2>1, ItemsAssumption DEF Procs
    <3> QED BY <1>9, <1>t, <3>1, StartTailType DEF WriteResult, TailTypeOK
  <2> QED BY <1>9, <2>2, <2>3, <2>4, TypesStay, TypeParts DEF WriteResult
<1>10. CASE CallFails(d)
  <2>1. DispTypeOK'
    BY <1>10, <1>5 DEF CallFails
  <2>2. LockTypeOK'
    BY <1>10, <1>t DEF CallFails, LockTypeOK
  <2> QED BY <1>10, <2>1, <2>2, TypesStay, TypeParts DEF CallFails
<1> QED BY <1>1, <1>2, <1>3, <1>4, <1>6, <1>7, <1>8, <1>9, <1>10 DEF Dispatch

LEMMA ResetType ==
  ASSUME TypeOK, NEW p \in Procs, Reset(p)
  PROVE  DispTypeOK' /\ CallTypeOK' /\ TailTypeOK'
<1>1. Idle \in DispRec /\ Idle \in CallRec /\ NoTail \in TailRec
  BY DEF DispRec, CallRec, TailRec
<1> QED BY <1>1, TypeParts DEF Reset, DispTypeOK, CallTypeOK, TailTypeOK

LEMMA LocksAfterType ==
  ASSUME TypeOK, NEW p \in Procs, NEW st \in {"free", "left"}, lock' = LocksAfter(p, st)
  PROVE  LockTypeOK'
<1>1. [lock EXCEPT ![call[p].item] = st] \in [Items -> {"free", "held", "left"}]
  BY TypeParts DEF LockTypeOK
<1>2. [lock EXCEPT ![disp[p].item] = st] \in [Items -> {"free", "held", "left"}]
  BY TypeParts DEF LockTypeOK
<1> QED BY <1>1, <1>2, TypeParts DEF LocksAfter, LockTypeOK

LEMMA ClosingType ==
  ASSUME TypeOK, NEW p \in Procs, Closing(p)
  PROVE  TypeOK'
<1> DEFINE b == tail[p].batch
<1>t. /\ RowsTypeOK /\ LockTypeOK /\ TailTypeOK /\ CountsTypeOK /\ tail[p] \in TailRec
  BY TypeParts DEF TailTypeOK
<1>b. b \in Batches
  BY <1>t, TailFields DEF Closing, FinishBatch, TellBatch, FinishPlan, TellPlan, EndTail,
     TailRec, NoTail
<1>1. CASE FinishBatch(p)
  <2>1. TailTypeOK'
    BY <1>1, <1>t, <1>b, StartTailType DEF FinishBatch
  <2>2. RowsTypeOK'
    <3>1. [batch[b] EXCEPT !.fin = TRUE] \in ParentRow
      BY <1>t, <1>b DEF RowsTypeOK, ParentRow
    <3>2. \/ batch' = [batch EXCEPT ![b] = [batch[b] EXCEPT !.fin = TRUE]]
          \/ UNCHANGED batch
      BY <1>1 DEF FinishBatch
    <3> QED BY <1>1, <1>t, <3>1, <3>2 DEF FinishBatch, RowsTypeOK
  <2> QED BY <1>1, <2>1, <2>2, TypesStay, TypeParts DEF FinishBatch
<1>2. CASE TellBatch(p)
  <2>1. TailTypeOK'
    BY <1>2, <1>t, <1>b, StartTailType DEF TellBatch
  <2>2. CountsTypeOK'
    BY <1>2, <1>t DEF TellBatch, Fault, CountsTypeOK
  <2> QED BY <1>2, <2>1, <2>2, TypesStay, TypeParts DEF TellBatch
<1>3. CASE FinishPlan(p)
  <2>1. TailTypeOK'
    BY <1>3, <1>t, <1>b, StartTailType DEF FinishPlan
  <2>2. RowsTypeOK'
    BY <1>3, <1>t DEF FinishPlan, RowsTypeOK, ParentRow
  <2> QED BY <1>3, <2>1, <2>2, TypesStay, TypeParts DEF FinishPlan
<1>4. CASE TellPlan(p)
  <2>1. TailTypeOK'
    BY <1>4, <1>t, <1>b, StartTailType DEF TellPlan
  <2>2. CountsTypeOK'
    BY <1>4, <1>t DEF TellPlan, Fault, CountsTypeOK
  <2> QED BY <1>4, <2>1, <2>2, TypesStay, TypeParts DEF TellPlan
<1>5. CASE EndTail(p)
  BY <1>5, ResetType, LocksAfterType, TypesStay, TypeParts DEF EndTail
<1> QED BY <1>1, <1>2, <1>3, <1>4, <1>5 DEF Closing

LEMMA FailureType ==
  ASSUME TypeOK,
         \/ \E p \in Procs : Crash(p)
         \/ \E i \in Items : Elapse(i) \/ LockGoes(i)
  PROVE  TypeOK'
<1>1. ASSUME NEW p \in Procs, Crash(p) PROVE TypeOK'
  BY <1>1, ResetType, LocksAfterType, TypesStay, TypeParts DEF Crash
<1>2. ASSUME NEW i \in Items, Elapse(i) PROVE TypeOK'
  <2>1. [item[i] EXCEPT !.due = TRUE] \in ItemRow
    BY TypeParts DEF RowsTypeOK, ItemRow
  <2>2. item' = [item EXCEPT ![i] = [item[i] EXCEPT !.due = TRUE]]
    BY <1>2 DEF Elapse
  <2>3. RowsTypeOK'
    BY <1>2, <2>1, <2>2, TypeParts DEF Elapse, RowsTypeOK
  <2> QED BY <1>2, <2>3, TypesStay, TypeParts DEF Elapse
<1>3. ASSUME NEW i \in Items, LockGoes(i) PROVE TypeOK'
  <2>1. LockTypeOK'
    BY <1>3, TypeParts DEF LockGoes, LockTypeOK
  <2> QED BY <1>3, <2>1, TypesStay, TypeParts DEF LockGoes
<1> QED BY <1>1, <1>2, <1>3

\* What a call becomes.
LEMMA CallMake ==
  /\ Idle \in CallRec
  /\ [pc |-> "closing"] \in CallRec /\ [pc |-> "endPlan"] \in CallRec
  /\ \A i \in Items, r \in Results : [pc |-> "callback", item |-> i, res |-> r] \in CallRec
  /\ \A i \in Items, r \in {"terminated", "delayed"} :
       [pc |-> "cbFailing", item |-> i, res |-> r] \in CallRec
  /\ \A i \in Items : [pc |-> "cbClosing", item |-> i] \in CallRec
  /\ \A i \in Items, op \in ItemOps, r \in ItemRow :
       [pc |-> "saveItem", op |-> op, item |-> i, row |-> r] \in CallRec
  /\ \A op \in {"pause", "resume"}, r \in ParentRow :
       [pc |-> "savePlan", op |-> op, row |-> r] \in CallRec
  /\ \A b \in Batches, op \in {"pause", "resume"}, r \in ParentRow :
       [pc |-> "saveBatch", op |-> op, batch |-> b, row |-> r] \in CallRec
  /\ \A b \in Batches : [pc |-> "endBatch", batch |-> b] \in CallRec
BY DEF CallRec

LEMMA CallStepType ==
  ASSUME CallTypeOK, NEW c \in Callers, NEW r \in CallRec, call' = [call EXCEPT ![c] = r]
  PROVE  CallTypeOK'
BY DEF CallTypeOK

LEMMA ReadCallType ==
  ASSUME TypeOK, NEW c \in Callers, ReadCall(c)
  PROVE  TypeOK'
<1>t. RowsTypeOK /\ CallTypeOK
  BY TypeParts
<1>1. ASSUME NEW i \in Items, NEW op \in ItemOps, ReadItem(c, i, op) PROVE TypeOK'
  <2>1. item[i] \in ItemRow
    BY <1>t DEF RowsTypeOK
  <2>2. CallTypeOK'
    BY <1>1, <1>t, <2>1, CallMake, CallStepType DEF ReadItem
  <2> QED BY <1>1, <2>2, TypesStay, TypeParts DEF ReadItem
<1>2. ASSUME NEW op \in {"pause", "resume"}, ReadPlan(c, op) PROVE TypeOK'
  <2>1. CallTypeOK'
    BY <1>2, <1>t, CallMake, CallStepType DEF ReadPlan, RowsTypeOK
  <2> QED BY <1>2, <2>1, TypesStay, TypeParts DEF ReadPlan
<1>3. ASSUME NEW b \in Batches, NEW op \in {"pause", "resume"}, ReadBatch(c, b, op)
      PROVE  TypeOK'
  <2>1. batch[b] \in ParentRow
    BY <1>t DEF RowsTypeOK
  <2>2. CallTypeOK'
    BY <1>3, <1>t, <2>1, CallMake, CallStepType DEF ReadBatch
  <2> QED BY <1>3, <2>2, TypesStay, TypeParts DEF ReadBatch
<1>4. CASE TerminatePlanCount(c)
  <2>1. CallTypeOK'
    BY <1>4, <1>t, CallMake, CallStepType DEF TerminatePlanCount
  <2> QED BY <1>4, <2>1, TypesStay, TypeParts DEF TerminatePlanCount
<1>5. ASSUME NEW b \in Batches, TerminateBatchCount(c, b) PROVE TypeOK'
  <2>1. CallTypeOK'
    BY <1>5, <1>t, CallMake, CallStepType DEF TerminateBatchCount
  <2> QED BY <1>5, <2>1, TypesStay, TypeParts DEF TerminateBatchCount
<1> QED BY <1>1, <1>2, <1>3, <1>4, <1>5
        DEF ReadCall, ItemOps, PausePlanExecItem, ResumePlanExecItem, RunPlanExecItem,
            TerminatePlanExecItem, PausePlanBatch, ResumePlanBatch, PausePlan, ResumePlan

LEMMA SaveCallType ==
  ASSUME TypeOK, NEW c \in Callers, SaveCall(c)
  PROVE  TypeOK'
<1>t. /\ RowsTypeOK /\ CallTypeOK /\ DispTypeOK /\ TailTypeOK /\ call[c] \in CallRec /\ c \in Procs
  BY TypeParts DEF CallTypeOK, Procs
<1>r. \A row \in ParentRow : TerminatedRow(row) \in ParentRow
  BY DEF TerminatedRow, ParentRow
<1>p. \A row \in ParentRow : /\ [row EXCEPT !.st = "PAUSED"] \in ParentRow
                             /\ [row EXCEPT !.st = "ENABLED"] \in ParentRow
  BY DEF ParentRow
<1>1. CASE SaveItem(c)
  <2> DEFINE i == call[c].item
             r == call[c].row
  <2>1. i \in Items /\ r \in ItemRow /\ call[c].op \in ItemOps
    BY <1>1, <1>t, CallFields DEF SaveItem
  <2>2. \E row \in ItemRow : item' = [item EXCEPT ![i] = row]
    <3>1. /\ [r EXCEPT !.st = "PAUSED"] \in ItemRow
          /\ [r EXCEPT !.st = "WAITING"] \in ItemRow
          /\ [r EXCEPT !.due = TRUE] \in ItemRow
          /\ [r EXCEPT !.st = "TERMINATED", !.due = FALSE] \in ItemRow
      BY <2>1 DEF ItemRow, Pending, EndStates
    <3> QED BY <1>1, <2>1, <3>1 DEF SaveItem, ItemOps
  <2>3. RowsTypeOK'
    <3>1. UNCHANGED <<plan, batch>>
      BY <1>1 DEF SaveItem
    <3> QED BY <1>t, <2>2, <3>1 DEF RowsTypeOK
  <2>4. DispTypeOK'
    BY <1>1, <1>t, <2>1, TouchKeeps DEF SaveItem, DispTypeOK
  <2>5. CallTypeOK'
    BY <1>1, <1>t, CallMake, CallStepType DEF SaveItem
  <2>6. TailTypeOK'
    <3>1. BatchOf[i] \in Batches
      BY <2>1, ItemsAssumption
    <3> QED BY <1>1, <1>t, <3>1, StartTailType DEF SaveItem, TailTypeOK
  <2> QED BY <1>1, <2>3, <2>4, <2>5, <2>6, TypesStay, TypeParts DEF SaveItem
<1>2. CASE SavePlan(c)
  <2>1. call[c].row \in ParentRow
    BY <1>2, <1>t, CallFields DEF SavePlan
  <2>2. RowsTypeOK'
    <3>1. plan' \in ParentRow
      BY <1>2, <1>p, <2>1 DEF SavePlan
    <3>2. batch' \in [Batches -> ParentRow]
      <4>1. \A b \in Batches : batch[b] \in ParentRow
        BY <1>t DEF RowsTypeOK
      <4>2. CASE call[c].op = "pause"
        BY <1>2, <1>p, <4>1, <4>2 DEF SavePlan
      <4>3. CASE call[c].op # "pause"
        BY <1>2, <1>p, <4>1, <4>3 DEF SavePlan
      <4> QED BY <4>2, <4>3
    <3>3. UNCHANGED item
      BY <1>2 DEF SavePlan
    <3> QED BY <1>t, <3>1, <3>2, <3>3 DEF RowsTypeOK
  <2>3. CallTypeOK'
    BY <1>2, <1>t, CallMake, CallStepType DEF SavePlan
  <2> QED BY <1>2, <2>2, <2>3, TypesStay, TypeParts DEF SavePlan
<1>3. CASE SaveBatch(c)
  <2>1. call[c].row \in ParentRow
    BY <1>3, <1>t, CallFields DEF SaveBatch
  <2>2. RowsTypeOK'
    BY <1>3, <1>t, <1>p, <2>1 DEF SaveBatch, RowsTypeOK
  <2>3. CallTypeOK'
    BY <1>3, <1>t, CallMake, CallStepType DEF SaveBatch
  <2> QED BY <1>3, <2>2, <2>3, TypesStay, TypeParts DEF SaveBatch
<1>4. CASE TerminatePlanCommit(c)
  <2>1. RowsTypeOK'
    BY <1>4, <1>t, <1>r DEF TerminatePlanCommit, RowsTypeOK
  <2>2. CallTypeOK'
    BY <1>4, <1>t, CallMake, CallStepType DEF TerminatePlanCommit
  <2>3. TailTypeOK'
    BY <1>4, <1>t, StartTailType DEF TerminatePlanCommit, TailTypeOK
  <2> QED BY <1>4, <2>1, <2>2, <2>3, TypesStay, TypeParts DEF TerminatePlanCommit
<1>5. CASE TerminateBatchCommit(c)
  <2> DEFINE b == call[c].batch
  <2>1. b \in Batches
    BY <1>5, <1>t, CallFields DEF TerminateBatchCommit
  <2>2. RowsTypeOK'
    BY <1>5, <1>t, <1>r, <2>1 DEF TerminateBatchCommit, RowsTypeOK
  <2>3. CallTypeOK'
    BY <1>5, <1>t, CallMake, CallStepType DEF TerminateBatchCommit
  <2>4. TailTypeOK'
    BY <1>5, <1>t, <2>1, StartTailType DEF TerminateBatchCommit, TailTypeOK
  <2> QED BY <1>5, <2>2, <2>3, <2>4, TypesStay, TypeParts DEF TerminateBatchCommit
<1> QED BY <1>1, <1>2, <1>3, <1>4, <1>5 DEF SaveCall

LEMMA CallbackType ==
  ASSUME TypeOK, NEW c \in Callers, CallbackCall(c)
  PROVE  TypeOK'
<1> DEFINE i == call[c].item
<1>t. /\ RowsTypeOK /\ LockTypeOK /\ CallTypeOK /\ DispTypeOK /\ TailTypeOK
      /\ call[c] \in CallRec /\ c \in Procs
  BY TypeParts DEF CallTypeOK, Procs
<1>1. ASSUME NEW x \in Items, NEW r \in Results, Callback(c, x, r) PROVE TypeOK'
  <2>1. CallTypeOK'
    BY <1>1, <1>t, CallMake, CallStepType DEF Callback
  <2>2. LockTypeOK'
    BY <1>1, <1>t DEF Callback, LockTypeOK
  <2> QED BY <1>1, <2>1, <2>2, TypesStay, TypeParts DEF Callback
<1>2. CASE CallbackReadCount(c)
  <2>1. i \in Items
    BY <1>2, <1>t, CallFields DEF CallbackReadCount
  <2>2. CallTypeOK'
    BY <1>2, <1>t, <2>1, CallMake, CallStepType DEF CallbackReadCount
  <2> QED BY <1>2, <2>2, TypesStay, TypeParts DEF CallbackReadCount
<1>3. CASE CallbackWrite(c)
  <2>1. i \in Items /\ call[c].res \in Results \ {"failed"}
    BY <1>3, <1>t, CallFields DEF CallbackWrite, Results
  <2>2. RowsTypeOK'
    <3>1. AfterResult(item[i], call[c].res, TRUE) \in ItemRow
      BY <1>t, <2>1, AfterResultType DEF RowsTypeOK
    <3> QED BY <1>3, <1>t, <3>1 DEF CallbackWrite, RowsTypeOK
  <2>3. CallTypeOK'
    BY <1>3, <1>t, <2>1, CallMake, CallStepType DEF CallbackWrite
  <2>4. LockTypeOK'
    BY <1>3, <1>t DEF CallbackWrite, LockTypeOK
  <2>5. DispTypeOK'
    BY <1>3, <1>t, <2>1, TouchKeeps DEF CallbackWrite, DispTypeOK
  <2>6. TailTypeOK'
    <3>1. BatchOf[i] \in Batches
      BY <2>1, ItemsAssumption
    <3> QED BY <1>3, <1>t, <3>1, StartTailType DEF CallbackWrite, TailTypeOK
  <2> QED BY <1>3, <2>2, <2>3, <2>4, <2>5, <2>6, TypesStay, TypeParts DEF CallbackWrite
<1> QED BY <1>1, <1>2, <1>3 DEF CallbackCall

LEMMA StepTypeOK ==
  ASSUME TypeOK, [Next]_vars
  PROVE  TypeOK'
<1>1. CASE UNCHANGED vars
  BY <1>1, TypesStay, TypeParts DEF vars, rows, told
<1>2. CASE Next
  <2>1. \A d \in Dispatchers : Dispatch(d) \/ CallFails(d) => TypeOK'
    BY DispatchType
  <2>2. \A p \in Procs : Closing(p) \/ Crash(p) => TypeOK'
    BY ClosingType, FailureType
  <2>3. \A c \in Callers : ReadCall(c) \/ CallbackCall(c) \/ SaveCall(c) => TypeOK'
    BY ReadCallType, CallbackType, SaveCallType
  <2>4. \A i \in Items : Elapse(i) \/ LockGoes(i) => TypeOK'
    BY FailureType
  <2> QED BY <1>2, <2>1, <2>2, <2>3, <2>4 DEF Next, Base
<1> QED BY <1>1, <1>2

\* Every variable keeps its type whatever the interleaving of dispatchers,
\* callbacks, operators and crashes; a failed result is "terminated" or
\* "delayed" by the time it is written.
THEOREM TypeCorrect == Spec => []TypeOK
BY InitTypeOK, StepTypeOK, PTL DEF Spec

-----------------------------------------------------------------------------
(* One execution of an item at a time. *)

\* Nobody begins to work on an item: the locks stay as they are ...
LEMMA NobodyBegins ==
  ASSUME LockInv, UNCHANGED lock, \A i \in Items : Holders(i)' \subseteq Holders(i)
  PROVE  LockInv'
BY DEF LockInv

\* ... or the lock of somebody who ends is changed.
LEMMA HolderEnds ==
  ASSUME LockInv, NEW p, NEW i \in Items, NEW st, p \in Holders(i),
         LockTypeOK, lock' = [lock EXCEPT ![i] = st],
         \A j \in Items : Holders(j)' \subseteq Holders(j) \ {p}
  PROVE  LockInv'
BY DEF LockInv, LockTypeOK

\* One process begins, by taking a free lock.
LEMMA HolderBegins ==
  ASSUME LockInv, NEW p, NEW i \in Items, LockTypeOK, lock[i] # "held",
         lock' = [lock EXCEPT ![i] = "held"], Holders(i)' \subseteq Holders(i) \cup {p},
         \A j \in Items : j # i => Holders(j)' \subseteq Holders(j)
  PROVE  LockInv'
BY DEF LockInv, LockTypeOK

\* What becomes of the holders when one dispatcher or one call goes on.
LEMMA DispatcherHolds ==
  ASSUME DispTypeOK, NEW d \in Dispatchers, NEW r, UNCHANGED call,
         \/ disp' = [disp EXCEPT ![d] = r]
         \/ \E x \in Items : disp' = [Touch(x) EXCEPT ![d] = r]
  PROVE  /\ \A i \in Items : Holders(i)' \subseteq Holders(i) \cup {d}
         /\ \A i \in Items : ~(r.pc = "calling" /\ r.item = i)
                               => Holders(i)' \subseteq Holders(i) \ {d}
<1>1. disp'[d] = r
  <2>1. ASSUME NEW x \in Items, disp' = [Touch(x) EXCEPT ![d] = r] PROVE disp'[d] = r
    BY <2>1, TouchKeeps
  <2> QED BY <2>1 DEF DispTypeOK
<1>2. ASSUME NEW e \in Dispatchers, e # d, disp'[e].pc = "calling"
      PROVE  disp'[e] = disp[e]
  <2>1. ASSUME NEW x \in Items, disp' = [Touch(x) EXCEPT ![d] = r] PROVE disp'[e] = disp[e]
    <3>1. disp'[e] = Touch(x)[e]
      BY <1>2, <2>1, TouchKeeps
    <3> QED BY <1>2, <3>1, TouchKeeps
  <2> QED BY <1>2, <2>1 DEF DispTypeOK
<1> QED BY <1>1, <1>2, ProcsAssumption DEF Holders

LEMMA CallHolds ==
  ASSUME DispTypeOK, CallTypeOK, NEW c \in Callers, NEW r, call' = [call EXCEPT ![c] = r],
         UNCHANGED disp \/ \E x \in Items : disp' = Touch(x)
  PROVE  /\ \A i \in Items : Holders(i)' \subseteq Holders(i) \cup {c}
         /\ \A i \in Items :
              ~(r.pc \in {"callback", "cbFailing", "cbClosing"} /\ r.item = i)
                 => Holders(i)' \subseteq Holders(i) \ {c}
<1>1. /\ call'[c] = r
      /\ \A e \in Callers : e # c => call'[e] = call[e]
  BY DEF CallTypeOK
<1>2. ASSUME NEW d \in Dispatchers, disp'[d].pc = "calling"
      PROVE  disp'[d] = disp[d]
  BY <1>2, TouchKeeps
<1> QED BY <1>1, <1>2, ProcsAssumption DEF Holders

LEMMA DispatchLocks ==
  ASSUME TypeOK, LockInv, NEW d \in Dispatchers, Dispatch(d) \/ CallFails(d)
  PROVE  LockInv'
<1> DEFINE i == disp[d].item
<1>t. DispTypeOK /\ LockTypeOK /\ disp[d] \in DispRec
  BY TypeParts DEF DispTypeOK
<1>i. disp[d].pc # "idle" => i \in Items
  <2>1. Idle.pc = "idle"
    BY DEF Idle
  <2> QED BY <1>t, <2>1, DispFields
<1>h. disp[d].pc = "calling" => i \in Items /\ d \in Holders(i)
  BY <1>i DEF Holders
<1>1. ASSUME NEW r \in DispRec, UNCHANGED <<lock, call>>, r.pc # "calling",
             \/ disp' = [disp EXCEPT ![d] = r]
             \/ \E x \in Items : disp' = [Touch(x) EXCEPT ![d] = r]
      PROVE  LockInv'
  <2>1. \A j \in Items : Holders(j)' \subseteq Holders(j) \ {d}
    BY <1>1, <1>t, DispatcherHolds
  <2> QED BY <1>1, <2>1, NobodyBegins
<1>2. ASSUME NEW r \in DispRec, disp[d].pc = "calling", r.pc # "calling",
             lock' = [lock EXCEPT ![i] = "left"], UNCHANGED call,
             \/ disp' = [disp EXCEPT ![d] = r]
             \/ \E x \in Items : disp' = [Touch(x) EXCEPT ![d] = r]
      PROVE  LockInv'
  <2>1. \A j \in Items : Holders(j)' \subseteq Holders(j) \ {d}
    BY <1>2, <1>t, DispatcherHolds
  <2> QED BY <1>2, <1>t, <1>h, <2>1, HolderEnds
<1>3. Idle.pc # "calling" /\ Idle \in DispRec
  BY DEF Idle, DispRec
<1>4. CASE \E x \in Items : Select(d, x)
  <2>1. ASSUME NEW x \in Items, Select(d, x) PROVE LockInv'
    <3>1. [pc |-> "selected", item |-> x, fresh |-> TRUE] \in DispRec
      BY DispMake
    <3> QED BY <2>1, <1>1, <3>1 DEF Select
  <2> QED BY <1>4, <2>1
<1>5. CASE ClaimItem(d)
  <2>1. i \in Items /\ [pc |-> "claimed", item |-> i] \in DispRec
    BY <1>5, <1>i, DispMake DEF ClaimItem
  <2> QED BY <1>5, <1>1, <1>3, <2>1 DEF ClaimItem
<1>6. CASE CheckParents(d)
  <2>1. i \in Items /\ [pc |-> "checked", item |-> i] \in DispRec
    BY <1>6, <1>i, DispMake DEF CheckParents
  <2> QED BY <1>6, <1>1, <1>3, <2>1 DEF CheckParents
<1>7. CASE MarkRunning(d)
  <2>1. i \in Items /\ [pc |-> "queued", item |-> i] \in DispRec
    BY <1>7, <1>i, DispMake DEF MarkRunning
  <2> QED BY <1>7, <1>1, <1>3, <2>1 DEF MarkRunning
<1>8. CASE CallDownstream(d)
  <2>i. i \in Items
    BY <1>8, <1>i DEF CallDownstream
  <2>1. CASE lock[i] = "free"
    <3>1. [disp[d] EXCEPT !.pc = "calling"] = [pc |-> "calling", item |-> i]
      BY <1>8, <1>t, DispFields DEF CallDownstream
    <3>2. PICK r \in DispRec : r.item = i /\ disp' = [disp EXCEPT ![d] = r]
      <4>1. [pc |-> "calling", item |-> i] \in DispRec
        BY <2>i, DispMake
      <4>2. disp' = [disp EXCEPT ![d] = [pc |-> "calling", item |-> i]]
        BY <1>8, <2>1, <3>1 DEF CallDownstream
      <4> QED BY <4>1, <4>2
    <3>3. lock' = [lock EXCEPT ![i] = "held"] /\ UNCHANGED call
      BY <1>8, <2>1 DEF CallDownstream
    <3>4. PICK x \in Items : x = i
      BY <2>i
    <3>5. /\ Holders(x)' \subseteq Holders(x) \cup {d}
          /\ \A j \in Items : j # x => Holders(j)' \subseteq Holders(j) \ {d}
      BY <1>t, <3>2, <3>3, <3>4, DispatcherHolds
    <3> QED BY <1>t, <2>1, <3>4, <3>5, <3>3, HolderBegins
  <2>2. CASE lock[i] # "free"
    BY <1>8, <1>1, <1>3, <2>i, <2>2 DEF CallDownstream, Unresolved
  <2> QED BY <2>1, <2>2
<1>9. CASE \E r \in Results : Answer(d, r)
  <2>1. ASSUME NEW r \in Results, Answer(d, r) PROVE LockInv'
    <3>1. i \in Items /\ [pc |-> "answered", item |-> i, res |-> r] \in DispRec
      BY <2>1, <1>i, DispMake DEF Answer
    <3> QED BY <2>1, <1>2, <3>1 DEF Answer
  <2> QED BY <1>9, <2>1
<1>10. CASE ReadCount(d)
  <2>1. i \in Items /\ \A r \in {"terminated", "delayed"} :
                         [pc |-> "failing", item |-> i, res |-> r] \in DispRec
    BY <1>10, <1>i, DispMake DEF ReadCount
  <2> QED BY <1>10, <1>1, <2>1 DEF ReadCount
<1>11. CASE WriteResult(d)
  <2>1. i \in Items /\ [pc |-> "closing", item |-> i] \in DispRec
    BY <1>11, <1>i, DispMake DEF WriteResult
  <2> QED BY <1>11, <1>1, <1>3, <2>1 DEF WriteResult
<1>12. CASE CallFails(d)
  <2>1. CASE disp[d].pc = "calling"
    BY <1>12, <2>1, <1>2, <1>3, <1>h DEF CallFails, Unresolved
  <2>2. CASE disp[d].pc = "queued"
    BY <1>12, <2>2, <1>1, <1>3, <1>i DEF CallFails, Unresolved
  <2> QED BY <1>12, <2>1, <2>2 DEF CallFails
<1> QED BY <1>4, <1>5, <1>6, <1>7, <1>8, <1>9, <1>10, <1>11, <1>12 DEF Dispatch

\* The end of a process, or its death, takes the lock of what it held.
LEMMA ResetLocks ==
  ASSUME TypeOK, LockInv, NEW p \in Procs, NEW st \in {"free", "left"},
         Reset(p), lock' = LocksAfter(p, st)
  PROVE  LockInv'
<1>t. LockTypeOK /\ DispTypeOK /\ CallTypeOK
  BY TypeParts
<1>1. \A j \in Items : Holders(j)' \subseteq Holders(j) \ {p}
  BY <1>t DEF Reset, Holders, Idle, DispTypeOK, CallTypeOK
<1>2. CASE p \in Callers /\ call[p].pc \in {"callback", "cbFailing", "cbClosing"}
  <2>1. call[p].item \in Items
    BY <1>t, <1>2, CallFields DEF CallTypeOK
  <2>2. p \in Holders(call[p].item)
    BY <1>2 DEF Holders
  <2>3. lock' = [lock EXCEPT ![call[p].item] = st]
    BY <1>2 DEF LocksAfter
  <2> QED BY <1>t, <1>1, <2>1, <2>2, <2>3, HolderEnds
<1>3. CASE p \in Dispatchers /\ disp[p].pc = "calling"
  <2>1. disp[p].item \in Items /\ p \notin Callers
    <3>1. Idle.pc # "calling" /\ disp[p] \in DispRec
      BY <1>t, <1>3 DEF DispTypeOK, Idle
    <3> QED BY <1>3, <3>1, DispFields, ProcsAssumption
  <2>2. p \in Holders(disp[p].item)
    BY <1>3 DEF Holders
  <2>3. lock' = [lock EXCEPT ![disp[p].item] = st]
    BY <1>3, <2>1 DEF LocksAfter
  <2> QED BY <1>t, <1>1, <2>1, <2>2, <2>3, HolderEnds
<1>4. CASE /\ ~(p \in Callers /\ call[p].pc \in {"callback", "cbFailing", "cbClosing"})
           /\ ~(p \in Dispatchers /\ disp[p].pc = "calling")
  BY <1>1, <1>4, NobodyBegins DEF LocksAfter
<1> QED BY <1>2, <1>3, <1>4

LEMMA CallLocks ==
  ASSUME TypeOK, LockInv, NEW c \in Callers, ReadCall(c) \/ SaveCall(c) \/ CallbackCall(c)
  PROVE  LockInv'
<1> DEFINE i == call[c].item
<1>t. LockTypeOK /\ DispTypeOK /\ CallTypeOK /\ call[c] \in CallRec
  BY TypeParts DEF CallTypeOK
<1>1. ASSUME NEW r, call' = [call EXCEPT ![c] = r], UNCHANGED lock,
             r.pc \notin {"callback", "cbFailing", "cbClosing"},
             UNCHANGED disp \/ \E x \in Items : disp' = Touch(x)
      PROVE  LockInv'
  <2>1. \A j \in Items : Holders(j)' \subseteq Holders(j)
    BY <1>1, <1>t, CallHolds
  <2> QED BY <1>1, <2>1, NobodyBegins
<1>2. ASSUME NEW r, call' = [call EXCEPT ![c] = r], UNCHANGED lock,
             i \in Items, c \in Holders(i), r.item = i,
             UNCHANGED disp \/ \E x \in Items : disp' = Touch(x)
      PROVE  LockInv'
  <2>1. \A j \in Items : Holders(j)' \subseteq Holders(j) \cup {c}
    BY <1>2, <1>t, CallHolds
  <2>2. \A j \in Items : r.item # j => Holders(j)' \subseteq Holders(j) \ {c}
    BY <1>2, <1>t, CallHolds
  <2>3. \A j \in Items : Holders(j)' \subseteq Holders(j)
    BY <1>2, <2>1, <2>2
  <2> QED BY <1>2, <2>3, NobodyBegins
<1>3. Idle.pc = "idle"
  BY DEF Idle
<1>4. CASE ReadCall(c)
  BY <1>4, <1>1 DEF ReadCall, PausePlanExecItem, ResumePlanExecItem, RunPlanExecItem,
     TerminatePlanExecItem, ReadItem, PausePlan, ResumePlan, ReadPlan, PausePlanBatch,
     ResumePlanBatch, ReadBatch, TerminatePlanCount, TerminateBatchCount
<1>5. CASE SaveCall(c)
  <2>1. SaveItem(c) => i \in Items
    BY <1>t, CallFields DEF SaveItem
  <2> QED BY <1>5, <1>1, <1>3, <2>1 DEF SaveCall, SaveItem, SavePlan, SaveBatch,
             TerminatePlanCommit, TerminateBatchCommit
<1>6. ASSUME NEW x \in Items, NEW r \in Results, Callback(c, x, r) PROVE LockInv'
  <2>1. PICK s \in CallRec : s.item = x /\ call' = [call EXCEPT ![c] = s]
    <3>1. [pc |-> "callback", item |-> x, res |-> r] \in CallRec
      BY CallMake
    <3> QED BY <1>6, <3>1 DEF Callback
  <2>2. UNCHANGED disp
    BY <1>6 DEF Callback
  <2>3. \A j \in Items : j # x => Holders(j)' \subseteq Holders(j)
    BY <1>t, <2>1, <2>2, CallHolds
  <2>4. Holders(x)' \subseteq Holders(x) \cup {c}
    BY <1>t, <2>1, <2>2, CallHolds
  <2>5. lock[x] # "held" /\ lock' = [lock EXCEPT ![x] = "held"]
    BY <1>6 DEF Callback
  <2> QED BY <1>t, <2>3, <2>4, <2>5, HolderBegins
<1>7. CASE CallbackReadCount(c)
  <2>1. i \in Items /\ c \in Holders(i)
    BY <1>7, <1>t, CallFields DEF CallbackReadCount, Holders
  <2> QED BY <1>7, <1>2, <2>1 DEF CallbackReadCount
<1>8. CASE CallbackWrite(c)
  <2>1. i \in Items /\ c \in Holders(i)
    BY <1>8, <1>t, CallFields DEF CallbackWrite, Holders
  <2>2. CASE Writable(i)
    BY <1>8, <1>2, <2>1, <2>2 DEF CallbackWrite
  <2>3. CASE ~Writable(i)
    <3>1. call' = [call EXCEPT ![c] = Idle] /\ UNCHANGED disp /\ lock' = [lock EXCEPT ![i] = "free"]
      BY <1>8, <2>3 DEF CallbackWrite
    <3>2. \A j \in Items : Holders(j)' \subseteq Holders(j) \ {c}
      BY <1>t, <1>3, <3>1, CallHolds
    <3> QED BY <1>t, <2>1, <3>1, <3>2, HolderEnds
  <2> QED BY <2>2, <2>3
<1> QED BY <1>4, <1>5, <1>6, <1>7, <1>8 DEF CallbackCall

LEMMA StepLockInv ==
  ASSUME TypeOK, LockInv, [Next]_vars
  PROVE  LockInv'
<1>1. ASSUME UNCHANGED <<lock, disp, call>> PROVE LockInv'
  BY <1>1 DEF LockInv, Holders
<1>2. CASE UNCHANGED vars
  BY <1>1, <1>2 DEF vars
<1>3. ASSUME NEW p \in Procs, Closing(p) PROVE LockInv'
  BY <1>1, <1>3, ResetLocks DEF Closing, FinishBatch, TellBatch, FinishPlan, TellPlan, EndTail
<1>4. ASSUME NEW p \in Procs, Crash(p) PROVE LockInv'
  BY <1>4, ResetLocks DEF Crash
<1>5. ASSUME NEW i \in Items, Elapse(i) PROVE LockInv'
  BY <1>1, <1>5 DEF Elapse
<1>6. ASSUME NEW i \in Items, LockGoes(i) PROVE LockInv'
  BY <1>6, TypeParts DEF LockGoes, LockInv, LockTypeOK, Holders
<1> QED BY <1>2, <1>3, <1>4, <1>5, <1>6, DispatchLocks, CallLocks DEF Next, Base

\* At most one downstream call or callback of an item goes on at a time, for
\* any number of dispatchers and callers and whatever operators do meanwhile:
\* claims come due again under a slow call and rows are saved as they were
\* read long ago, but the redis lock of the item is taken by one at a time,
\* released by its owner, and expires only when its owner is dead.
THEOREM ExecutionsExclusive == Spec => []ExecutionExclusive
<1>1. LockInv => ExecutionExclusive
  BY DEF LockInv, ExecutionExclusive
<1>2. TypeOK /\ LockInv /\ [Next]_vars => TypeOK' /\ LockInv'
  BY StepTypeOK, StepLockInv
<1> QED BY <1>1, <1>2, InitTypeOK, InitLockInv, PTL DEF Spec

-----------------------------------------------------------------------------
(* Ended items, closed batches and announcements, when an operator's call    *)
(* saves what it has read (SerialSpec).                                      *)

\* One call at most is between its read and its save, what it is going to save
\* is the row as it is, and neither an ended item nor a closed batch.
OpsInv ==
  /\ \A c, e \in Callers : Saving(c) /\ Saving(e) => c = e
  /\ \A c \in Callers :
       /\ call[c].pc = "saveItem" => call[c].row = item[call[c].item] /\ ~Ended(call[c].row)
       /\ call[c].pc = "savePlan" => call[c].row = plan
       /\ call[c].pc = "saveBatch" => call[c].row = batch[call[c].batch] /\ ~call[c].row.fin

\* A scan whose row nobody has changed since has read one that was pending.
FreshInv ==
  \A d \in Dispatchers :
    disp[d].pc = "selected" /\ disp[d].fresh => ~Ended(item[disp[d].item])

DoneInv ==
  /\ FinishedMeansDone
  /\ \A b \in Batches : batch[b].st = "TERMINATED" => batch[b].fin

\* Who is about to announce has just closed, and nobody has announced before.
TellsBatch(p, b) == tail[p].pc = "tellBatch" /\ tail[p].batch = b
TellsPlan(p) == tail[p].pc = "tellPlan"

NewsInv ==
  /\ \A b \in Batches :
       /\ ~batch[b].fin => news[b] = 0 /\ \A p \in Procs : ~TellsBatch(p, b)
       /\ \A p, q \in Procs : TellsBatch(p, b) => news[b] = 0 /\ (TellsBatch(q, b) => p = q)
       /\ news[b] =< 1
  /\ ~plan.fin => planNews = 0 /\ \A p \in Procs : ~TellsPlan(p)
  /\ \A p, q \in Procs : TellsPlan(p) => planNews = 0 /\ (TellsPlan(q) => p = q)
  /\ planNews =< 1

SerialInv == OpsInv /\ FreshInv /\ DoneInv /\ NewsInv

LEMMA InitSerialInv == Init => SerialInv
<1> SUFFICES ASSUME Init PROVE SerialInv
  OBVIOUS
<1>1. OpsInv /\ FreshInv
  BY DEF Init, OpsInv, FreshInv, Saving, Idle
<1>2. DoneInv
  BY DEF Init, DoneInv, FinishedMeansDone
<1>3. NewsInv
  BY DEF Init, NewsInv, TellsBatch, TellsPlan, NoTail
<1> QED BY <1>1, <1>2, <1>3 DEF SerialInv

\* Ended items stay as they are.
ItemsKept == \A i \in Items : Ended(item[i]) => item'[i].st = item[i].st

LEMMA ParentFields ==
  ASSUME NEW row \in ParentRow, NEW st
  PROVE  /\ [row EXCEPT !.fin = TRUE].fin /\ [row EXCEPT !.fin = TRUE].st = row.st
         /\ [row EXCEPT !.st = st].fin = row.fin /\ [row EXCEPT !.st = st].st = st
         /\ ~Closed(row) => TerminatedRow(row).fin /\ TerminatedRow(row).st = "TERMINATED"
         /\ Closed(row) => TerminatedRow(row) = row
BY DEF ParentRow, TerminatedRow

-----------------------------------------------------------------------------
(* Items. *)

\* A row that was touched is fresh to nobody.
LEMMA TouchFresh ==
  ASSUME DispTypeOK, NEW i \in Items, NEW d \in Dispatchers,
         Touch(i)[d].pc = "selected", Touch(i)[d].fresh
  PROVE  Touch(i)[d] = disp[d] /\ disp[d].item \in Items /\ disp[d].item # i
<1>1. disp[d].pc = "selected" /\ disp[d] \in DispRec
  BY TouchKeeps DEF DispTypeOK
<1>2. disp[d] \in [pc : {"selected"}, item : Items, fresh : BOOLEAN]
  BY <1>1 DEF DispRec, Idle
<1>3. ASSUME disp[d].item = i PROVE FALSE
  <2>1. Touch(i)[d] = [disp[d] EXCEPT !.fresh = FALSE]
    BY <1>1, <1>3 DEF Touch
  <2>2. [disp[d] EXCEPT !.fresh = FALSE].fresh = FALSE
    BY <1>2
  <2> QED BY <2>1, <2>2
<1>4. Touch(i)[d] = disp[d]
  BY <1>3 DEF Touch
<1> QED BY <1>2, <1>3, <1>4

\* A dispatcher goes on; who changes an item touches it.
LEMMA DispFresh ==
  ASSUME DispTypeOK, FreshInv, NEW d \in Dispatchers, NEW r \in DispRec, r.pc # "selected",
         \/ disp' = [disp EXCEPT ![d] = r] /\ UNCHANGED item
         \/ \E x \in Items : /\ disp' = [Touch(x) EXCEPT ![d] = r]
                             /\ \A j \in Items : j # x => item'[j] = item[j]
  PROVE  FreshInv'
<1>1. CASE disp' = [disp EXCEPT ![d] = r] /\ UNCHANGED item
  BY <1>1 DEF DispTypeOK, FreshInv
<1>2. ASSUME NEW x \in Items, disp' = [Touch(x) EXCEPT ![d] = r],
             \A j \in Items : j # x => item'[j] = item[j]
      PROVE  FreshInv'
  <2> SUFFICES ASSUME NEW e \in Dispatchers, disp'[e].pc = "selected", disp'[e].fresh
               PROVE  ~Ended(item'[disp'[e].item])
    BY DEF FreshInv
  <2>1. Touch(x) \in [Dispatchers -> DispRec]
    BY TouchKeeps
  <2>2. e # d /\ disp'[e] = Touch(x)[e]
    BY <1>2, <2>1
  <2>3. disp'[e] = disp[e] /\ disp[e].item \in Items /\ disp[e].item # x
    BY <2>2, TouchFresh
  <2> QED BY <1>2, <2>3 DEF FreshInv
<1> QED BY <1>1, <1>2

\* The same without a dispatcher of its own: a call changes an item.
LEMMA CallFresh ==
  ASSUME DispTypeOK, FreshInv, NEW x \in Items, disp' = Touch(x),
         \A j \in Items : j # x => item'[j] = item[j]
  PROVE  FreshInv'
<1> SUFFICES ASSUME NEW e \in Dispatchers, disp'[e].pc = "selected", disp'[e].fresh
             PROVE  ~Ended(item'[disp'[e].item])
  BY DEF FreshInv
<1>1. disp'[e] = disp[e] /\ disp[e].item \in Items /\ disp[e].item # x
  BY TouchFresh
<1> QED BY <1>1 DEF FreshInv

LEMMA DispatchItems ==
  ASSUME TypeOK, FreshInv, NEW d \in Dispatchers, Dispatch(d) \/ CallFails(d)
  PROVE  ItemsKept /\ FreshInv'
<1> DEFINE i == disp[d].item
<1>t. DispTypeOK /\ item \in [Items -> ItemRow] /\ disp[d] \in DispRec
  BY TypeParts DEF DispTypeOK, RowsTypeOK
<1>i. disp[d].pc # "idle" => i \in Items
  <2>1. Idle.pc = "idle"
    BY DEF Idle
  <2> QED BY <1>t, <2>1, DispFields
<1>k. UNCHANGED item => ItemsKept
  BY DEF ItemsKept
<1>d. Idle.pc # "selected" /\ Idle \in DispRec
  BY DEF Idle, DispRec
<1>1. ASSUME NEW x \in Items, Select(d, x) PROVE ItemsKept /\ FreshInv'
  <2>1. ~Ended(item[x]) /\ UNCHANGED item
    BY <1>1 DEF Select, Selectable, Ended, Pending, EndStates, rows
  <2>2. disp' = [disp EXCEPT ![d] = [pc |-> "selected", item |-> x, fresh |-> TRUE]]
    BY <1>1 DEF Select
  <2>3. /\ disp'[d].item = x
        /\ \A e \in Dispatchers : e # d => disp'[e] = disp[e]
    BY <1>t, <2>2 DEF DispTypeOK
  <2> QED BY <1>k, <2>1, <2>3 DEF FreshInv
<1>2. CASE ClaimItem(d)
  <2>i. i \in Items /\ [pc |-> "claimed", item |-> i] \in DispRec
    BY <1>2, <1>i, DispMake DEF ClaimItem
  <2>1. CASE disp[d].fresh
    <3>1. ~Ended(item[i])
      BY <1>2, <2>1 DEF ClaimItem, FreshInv
    <3>2. /\ item' = [item EXCEPT ![i] = [@ EXCEPT !.st = "RUNNING", !.due = FALSE]]
          /\ disp' = [Touch(i) EXCEPT ![d] = [pc |-> "claimed", item |-> i]]
      BY <1>2, <2>1 DEF ClaimItem
    <3>3. \A j \in Items : j # i => item'[j] = item[j]
      BY <1>t, <2>i, <3>2
    <3>4. FreshInv'
      <4>1. PICK x \in Items : x = i
        BY <2>i
      <4>2. PICK r \in DispRec : r.pc # "selected" /\ disp' = [Touch(x) EXCEPT ![d] = r]
        BY <2>i, <3>2, <4>1
      <4> QED BY <1>t, <3>3, <4>1, <4>2, DispFresh
    <3> QED BY <3>1, <3>3, <3>4 DEF ItemsKept
  <2>2. CASE ~disp[d].fresh
    BY <1>2, <1>t, <1>k, <1>d, <2>2, DispFresh DEF ClaimItem
  <2> QED BY <2>1, <2>2
<1>3. CASE CheckParents(d)
  <2>0. i \in Items /\ [pc |-> "checked", item |-> i] \in DispRec
    BY <1>3, <1>i, DispMake DEF CheckParents
  <2>1. PICK r \in DispRec : r.pc # "selected" /\ disp' = [disp EXCEPT ![d] = r]
    BY <1>3, <1>d, <2>0 DEF CheckParents
  <2>2. UNCHANGED item
    BY <1>3 DEF CheckParents, rows
  <2> QED BY <1>t, <1>k, <2>1, <2>2, DispFresh
<1>4. CASE MarkRunning(d)
  <2>1. i \in Items /\ UNCHANGED item /\ [pc |-> "queued", item |-> i] \in DispRec
    BY <1>4, <1>i, DispMake DEF MarkRunning, rows
  <2>2. CASE item[i].st = "RUNNING"
    <3>1. disp' = [Touch(i) EXCEPT ![d] = [pc |-> "queued", item |-> i]]
      BY <1>4, <2>2 DEF MarkRunning
    <3> QED BY <1>t, <1>k, <2>1, <3>1, DispFresh
  <2>3. CASE item[i].st # "RUNNING"
    BY <1>4, <1>t, <1>k, <1>d, <2>1, <2>3, DispFresh DEF MarkRunning
  <2> QED BY <2>2, <2>3
<1>5. ASSUME i \in Items, Unresolved(d), UNCHANGED item PROVE FreshInv'
  <2>1. \/ disp' = [disp EXCEPT ![d] = Idle]
        \/ disp' = [Touch(i) EXCEPT ![d] = Idle]
    BY <1>5 DEF Unresolved
  <2> QED BY <1>5, <1>t, <1>d, <2>1, DispFresh
<1>6. CASE CallDownstream(d)
  <2>1. i \in Items /\ UNCHANGED item /\ [pc |-> "calling", item |-> i] \in DispRec
    BY <1>6, <1>i, DispMake DEF CallDownstream, rows
  <2>2. CASE lock[i] = "free"
    <3>1. disp' = [disp EXCEPT ![d] = [pc |-> "calling", item |-> i]]
      <4>1. disp' = [disp EXCEPT ![d] = [disp[d] EXCEPT !.pc = "calling"]]
        BY <1>6, <2>2 DEF CallDownstream
      <4>2. [disp[d] EXCEPT !.pc = "calling"] = [pc |-> "calling", item |-> i]
        BY <1>6, <1>t, DispFields DEF CallDownstream
      <4> QED BY <4>1, <4>2
    <3> QED BY <1>t, <1>k, <2>1, <3>1, DispFresh
  <2>3. CASE lock[i] # "free"
    BY <1>6, <1>5, <1>k, <2>1, <2>3 DEF CallDownstream
  <2> QED BY <2>2, <2>3
<1>7. ASSUME NEW r \in Results, Answer(d, r) PROVE ItemsKept /\ FreshInv'
  <2>1. disp' = [disp EXCEPT ![d] = [pc |-> "answered", item |-> i, res |-> r]]
        /\ UNCHANGED item
    BY <1>7 DEF Answer, rows
  <2>2. [pc |-> "answered", item |-> i, res |-> r] \in DispRec
    BY <1>7, <1>i, DispMake DEF Answer
  <2> QED BY <1>t, <1>k, <2>1, <2>2, DispFresh
<1>8. CASE ReadCount(d)
  <2>0. i \in Items /\ \A r \in {"terminated", "delayed"} :
                         [pc |-> "failing", item |-> i, res |-> r] \in DispRec
    BY <1>8, <1>i, DispMake DEF ReadCount
  <2>1. PICK r \in DispRec : r.pc # "selected" /\ disp' = [disp EXCEPT ![d] = r]
    BY <1>8, <2>0 DEF ReadCount
  <2>2. UNCHANGED item
    BY <1>8 DEF ReadCount, rows
  <2> QED BY <1>t, <1>k, <2>1, <2>2, DispFresh
<1>9. CASE WriteResult(d)
  <2>i. i \in Items /\ [pc |-> "closing", item |-> i] \in DispRec
    BY <1>9, <1>i, DispMake DEF WriteResult
  <2>1. CASE Writable(i)
    <3>1. ~Ended(item[i])
      BY <2>1 DEF Writable, Ended, EndStates
    <3>2. /\ item' = [item EXCEPT ![i] = AfterResult(@, disp[d].res, FALSE)]
          /\ disp' = [Touch(i) EXCEPT ![d] = [pc |-> "closing", item |-> i]]
      BY <1>9, <2>1 DEF WriteResult
    <3>3. \A j \in Items : j # i => item'[j] = item[j]
      BY <1>t, <2>i, <3>2
    <3>4. FreshInv'
      <4>1. PICK x \in Items : x = i
        BY <2>i
      <4>2. PICK r \in DispRec : r.pc # "selected" /\ disp' = [Touch(x) EXCEPT ![d] = r]
        BY <2>i, <3>2, <4>1
      <4> QED BY <1>t, <3>3, <4>1, <4>2, DispFresh
    <3> QED BY <3>1, <3>3, <3>4 DEF ItemsKept
  <2>2. CASE ~Writable(i)
    BY <1>9, <1>t, <1>k, <1>d, <2>2, DispFresh DEF WriteResult
  <2> QED BY <2>1, <2>2
<1>10. CASE CallFails(d)
  BY <1>10, <1>5, <1>i, <1>k DEF CallFails, rows
<1> QED BY <1>1, <1>2, <1>3, <1>4, <1>6, <1>7, <1>8, <1>9, <1>10 DEF Dispatch

\* The calls that write an item: a callback, and an operator's save.
LEMMA CallItems ==
  ASSUME TypeOK, OpsInv, FreshInv, NEW c \in Callers, CallbackWrite(c) \/ SaveItem(c)
  PROVE  ItemsKept /\ FreshInv'
<1> DEFINE i == call[c].item
<1>t. DispTypeOK /\ item \in [Items -> ItemRow] /\ call[c] \in CallRec
  BY TypeParts DEF CallTypeOK, RowsTypeOK
<1>i. i \in Items
  BY <1>t, CallFields DEF CallbackWrite, SaveItem
<1>1. ASSUME disp' = Touch(i), ~Ended(item[i]), \A j \in Items : j # i => item'[j] = item[j]
      PROVE  ItemsKept /\ FreshInv'
  BY <1>1, <1>t, <1>i, CallFresh DEF ItemsKept
<1>2. CASE CallbackWrite(c)
  <2>1. CASE Writable(i)
    <3>1. item' = [item EXCEPT ![i] = AfterResult(@, call[c].res, TRUE)] /\ disp' = Touch(i)
      BY <1>2, <2>1 DEF CallbackWrite
    <3>2. ~Ended(item[i])
      BY <2>1 DEF Writable, Ended, EndStates
    <3> QED BY <1>1, <1>t, <1>i, <3>1, <3>2
  <2>2. CASE ~Writable(i)
    BY <1>2, <2>2 DEF CallbackWrite, ItemsKept, FreshInv
  <2> QED BY <2>1, <2>2
<1>3. CASE SaveItem(c)
  <2>1. ~Ended(item[i])
    BY <1>3 DEF SaveItem, OpsInv
  <2>2. disp' = Touch(i) /\ \A j \in Items : j # i => item'[j] = item[j]
    BY <1>3, <1>t, <1>i DEF SaveItem
  <2> QED BY <1>1, <2>1, <2>2
<1> QED BY <1>2, <1>3

LEMMA StepItems ==
  ASSUME TypeOK, OpsInv, FreshInv, [Next]_vars
  PROVE  ItemsKept /\ FreshInv'
<1>1. ASSUME UNCHANGED <<item, disp>> PROVE ItemsKept /\ FreshInv'
  BY <1>1 DEF ItemsKept, FreshInv
<1>2. ASSUME NEW p \in Procs, Reset(p), UNCHANGED item PROVE ItemsKept /\ FreshInv'
  BY <1>2 DEF Reset, ItemsKept, FreshInv, Idle
<1>3. ASSUME NEW p \in Procs, Closing(p) PROVE ItemsKept /\ FreshInv'
  BY <1>1, <1>2, <1>3 DEF Closing, FinishBatch, TellBatch, FinishPlan, TellPlan, EndTail, rows
<1>4. ASSUME NEW p \in Procs, Crash(p) PROVE ItemsKept /\ FreshInv'
  BY <1>2, <1>4 DEF Crash, rows
<1>5. ASSUME NEW c \in Callers, ReadCall(c) PROVE UNCHANGED <<item, disp>>
  BY <1>5 DEF ReadCall, PausePlanExecItem, ResumePlanExecItem, RunPlanExecItem,
     TerminatePlanExecItem, ReadItem, PausePlan, ResumePlan, ReadPlan, PausePlanBatch,
     ResumePlanBatch, ReadBatch, TerminatePlanCount, TerminateBatchCount, rows
<1>6. ASSUME NEW c \in Callers, CallbackCall(c) PROVE ItemsKept /\ FreshInv'
  BY <1>1, <1>6, CallItems DEF CallbackCall, Callback, CallbackReadCount, rows
<1>7. ASSUME NEW c \in Callers, SaveCall(c) PROVE ItemsKept /\ FreshInv'
  BY <1>1, <1>7, CallItems DEF SaveCall, SavePlan, SaveBatch, TerminatePlanCommit,
     TerminateBatchCommit
<1>8. ASSUME NEW i \in Items, Elapse(i) PROVE ItemsKept /\ FreshInv'
  <2>1. item \in [Items -> ItemRow]
    BY TypeParts DEF RowsTypeOK
  <2>2. item' = [item EXCEPT ![i] = [item[i] EXCEPT !.due = TRUE]] /\ UNCHANGED disp
    BY <1>8 DEF Elapse
  <2>3. [item[i] EXCEPT !.due = TRUE].st = item[i].st
    BY <2>1 DEF ItemRow
  <2>4. \A j \in Items : item'[j].st = item[j].st
    BY <2>1, <2>2, <2>3
  <2>5. ASSUME NEW d \in Dispatchers, disp[d].pc = "selected" PROVE disp[d].item \in Items
    BY <2>5, DispFields, TypeParts DEF DispTypeOK, Idle
  <2> QED BY <2>2, <2>4, <2>5 DEF ItemsKept, FreshInv, Ended
<1>9. ASSUME NEW i \in Items, LockGoes(i) PROVE ItemsKept /\ FreshInv'
  BY <1>1, <1>9 DEF LockGoes, rows
<1>10. CASE UNCHANGED vars
  BY <1>1, <1>10 DEF vars, rows
<1> QED BY <1>1, <1>3, <1>4, <1>5, <1>6, <1>7, <1>8, <1>9, <1>10, DispatchItems DEF Next, Base

-----------------------------------------------------------------------------
(* Operators. *)

LEMMA ReadOps ==
  ASSUME TypeOK, \A e \in Callers : ~Saving(e), NEW c \in Callers, ReadCall(c)
  PROVE  OpsInv'
<1>1. UNCHANGED <<plan, batch, item>>
  BY DEF ReadCall, PausePlanExecItem, ResumePlanExecItem, RunPlanExecItem,
     TerminatePlanExecItem, ReadItem, PausePlan, ResumePlan, ReadPlan, PausePlanBatch,
     ResumePlanBatch, ReadBatch, TerminatePlanCount, TerminateBatchCount, rows
<1>2. ASSUME NEW r, call' = [call EXCEPT ![c] = r],
             r.pc = "saveItem" => r.row = item[r.item] /\ ~Ended(r.row),
             r.pc = "savePlan" => r.row = plan,
             r.pc = "saveBatch" => r.row = batch[r.batch] /\ ~r.row.fin
      PROVE  OpsInv'
  <2>1. call'[c] = r /\ \A e \in Callers : e # c => call'[e] = call[e]
    BY <1>2, TypeParts DEF CallTypeOK
  <2> QED BY <1>1, <1>2, <2>1 DEF OpsInv, Saving
<1>3. ASSUME NEW i \in Items, NEW op, ReadItem(c, i, op), ~Ended(item[i]) PROVE OpsInv'
  BY <1>2, <1>3 DEF ReadItem
<1>4. ASSUME NEW i \in Items,
             \/ PausePlanExecItem(c, i) \/ ResumePlanExecItem(c, i)
             \/ RunPlanExecItem(c, i) \/ TerminatePlanExecItem(c, i)
      PROVE  OpsInv'
  BY <1>3, <1>4 DEF PausePlanExecItem, ResumePlanExecItem, RunPlanExecItem,
     TerminatePlanExecItem, Ended, EndStates
<1>5. CASE PausePlan(c) \/ ResumePlan(c)
  BY <1>2, <1>5 DEF PausePlan, ResumePlan, ReadPlan
<1>6. ASSUME NEW b \in Batches, PausePlanBatch(c, b) \/ ResumePlanBatch(c, b) PROVE OpsInv'
  BY <1>2, <1>6 DEF PausePlanBatch, ResumePlanBatch, ReadBatch, Open
<1>7. CASE TerminatePlanCount(c) \/ \E b \in Batches : TerminateBatchCount(c, b)
  BY <1>2, <1>7 DEF TerminatePlanCount, TerminateBatchCount
<1> QED BY <1>4, <1>5, <1>6, <1>7 DEF ReadCall

LEMMA StepOps ==
  ASSUME TypeOK, OpsInv, [SerialNext]_vars
  PROVE  OpsInv'
<1>t. call \in [Callers -> CallRec]
  BY TypeParts DEF CallTypeOK
<1>d. ~(Idle.pc \in {"saveItem", "savePlan", "saveBatch", "endPlan", "endBatch"})
  BY DEF Idle
<1>1. ASSUME \A e \in Callers : ~Saving(e)' PROVE OpsInv'
  BY <1>1 DEF OpsInv, Saving
<1>2. ASSUME NEW c \in Callers, SaveCall(c) PROVE OpsInv'
  <2>1. Saving(c)
    BY <1>2 DEF SaveCall, SaveItem, SavePlan, SaveBatch, TerminatePlanCommit,
       TerminateBatchCommit, Saving
  <2>2. PICK r : /\ call' = [call EXCEPT ![c] = r]
                 /\ r.pc \notin {"saveItem", "savePlan", "saveBatch", "endPlan", "endBatch"}
    BY <1>2, <1>d DEF SaveCall, SaveItem, SavePlan, SaveBatch, TerminatePlanCommit,
       TerminateBatchCommit
  <2>3. call'[c] = r /\ \A e \in Callers : e # c => call'[e] = call[e]
    BY <1>t, <2>2
  <2> QED BY <1>1, <2>1, <2>2, <2>3 DEF OpsInv, Saving
<1>3. ASSUME \A e \in Callers : ~Saving(e), Base PROVE OpsInv'
  <2>1. ASSUME UNCHANGED call PROVE OpsInv'
    BY <1>1, <1>3, <2>1 DEF Saving
  <2>2. ASSUME NEW p \in Procs, Reset(p) PROVE OpsInv'
    BY <1>1, <1>3, <1>d, <2>2 DEF Saving, Reset
  <2>3. ASSUME NEW d \in Dispatchers, Dispatch(d) \/ CallFails(d) PROVE UNCHANGED call
    BY <2>3 DEF Dispatch, Select, ClaimItem, CheckParents, MarkRunning, CallDownstream, Answer,
       ReadCount, WriteResult, CallFails
  <2>4. ASSUME NEW p \in Procs, Closing(p) \/ Crash(p) PROVE OpsInv'
    BY <2>1, <2>2, <2>4 DEF Closing, Crash, FinishBatch, TellBatch, FinishPlan, TellPlan, EndTail
  <2>5. ASSUME NEW c \in Callers, CallbackCall(c) PROVE OpsInv'
    <3>1. PICK r : /\ call' = [call EXCEPT ![c] = r]
                   /\ r.pc \notin {"saveItem", "savePlan", "saveBatch", "endPlan", "endBatch"}
      BY <2>5, <1>d DEF CallbackCall, Callback, CallbackReadCount, CallbackWrite
    <3>2. call'[c] = r /\ \A e \in Callers : e # c => call'[e] = call[e]
      BY <1>t, <3>1
    <3> QED BY <1>1, <1>3, <3>1, <3>2 DEF Saving
  <2>6. ASSUME NEW i \in Items, Elapse(i) \/ LockGoes(i) PROVE UNCHANGED call
    BY <2>6 DEF Elapse, LockGoes
  <2> QED BY <1>3, <2>1, <2>3, <2>4, <2>5, <2>6, ReadOps DEF Base
<1>4. CASE UNCHANGED vars
  BY <1>4 DEF vars, OpsInv, Saving
<1> QED BY <1>2, <1>3, <1>4 DEF SerialNext

-----------------------------------------------------------------------------
(* Closing and announcing. *)

\* Nothing that was closed is open again.
FinsStay ==
  /\ plan.fin => plan'.fin
  /\ \A b \in Batches : batch[b].fin => batch'[b].fin

\* Nobody begins to announce.
NobodyTells ==
  \A p \in Procs : tail'[p] = tail[p] \/ tail'[p].pc \notin {"tellBatch", "tellPlan"}

LEMMA DoneKept ==
  ASSUME DoneInv, ItemsKept, plan'.fin => plan.fin, FinsStay,
         \A b \in Batches : /\ batch'[b].fin => batch[b].fin
                            /\ batch'[b].st = "TERMINATED" <=> batch[b].st = "TERMINATED"
  PROVE  DoneInv'
BY DEF DoneInv, FinishedMeansDone, ItemsKept, FinsStay, Ended, ItemsOf

LEMMA NewsKept ==
  ASSUME NewsInv, FinsStay, NobodyTells, UNCHANGED told
  PROVE  NewsInv'
<1>1. \A p \in Procs : /\ TellsPlan(p)' => TellsPlan(p)
                       /\ \A b \in Batches : TellsBatch(p, b)' => TellsBatch(p, b)
  BY DEF NobodyTells, TellsPlan, TellsBatch
<1> QED BY <1>1 DEF NewsInv, FinsStay, told

LEMMA TailMoves ==
  ASSUME TailTypeOK, NEW p \in Procs, NEW pc, NEW b, StartTail(p, pc, b)
  PROVE  /\ tail'[p].pc = pc /\ tail'[p].batch = b
         /\ \A q \in Procs : q # p => tail'[q] = tail[q]
BY DEF TailTypeOK, StartTail

LEMMA ClosingDone ==
  ASSUME TypeOK, DoneInv, NewsInv, ItemsKept, NEW p \in Procs, Closing(p)
  PROVE  DoneInv' /\ NewsInv'
<1> DEFINE b == tail[p].batch
<1>t. /\ TailTypeOK /\ plan \in ParentRow /\ batch \in [Batches -> ParentRow]
      /\ news \in [Batches -> Nat] /\ planNews \in Nat /\ tail[p] \in TailRec
  BY TypeParts DEF RowsTypeOK, TailTypeOK, CountsTypeOK
<1>b. tail[p].pc # "none" => b \in Batches
  BY <1>t, TailFields
<1>s. ASSUME UNCHANGED <<plan, batch>> PROVE DoneInv' /\ FinsStay
  BY <1>s, DoneKept DEF FinsStay
<1>1. CASE FinishBatch(p)
  <2>b. b \in Batches /\ UNCHANGED <<plan, told>>
    BY <1>1, <1>b DEF FinishBatch
  <2>1. CASE BatchDone(b)
    <3>1. batch' = [batch EXCEPT ![b] = [batch[b] EXCEPT !.fin = TRUE]]
          /\ StartTail(p, "tellBatch", b)
      BY <1>1, <2>1 DEF FinishBatch
    <3>2. /\ batch'[b].fin /\ batch'[b].st = batch[b].st
          /\ \A a \in Batches : a # b => batch'[a] = batch[a]
      BY <1>t, <2>b, <3>1, ParentFields
    <3>3. ~batch[b].fin /\ \A i \in ItemsOf(b) : Ended(item'[i])
      BY <2>1 DEF BatchDone, ItemsKept, Ended, ItemsOf
    <3>4. DoneInv'
      BY <2>b, <3>2, <3>3 DEF DoneInv, FinishedMeansDone, ItemsKept, Ended, ItemsOf
    <3>5. /\ TellsBatch(p, b)' /\ ~TellsPlan(p)'
          /\ \A a \in Batches : a # b => ~TellsBatch(p, a)'
          /\ \A q \in Procs : q # p => /\ TellsPlan(q)' <=> TellsPlan(q)
                                       /\ \A a \in Batches : TellsBatch(q, a)' <=> TellsBatch(q, a)
      BY <1>t, <3>1, TailMoves DEF TellsBatch, TellsPlan
    <3>6. news[b] = 0 /\ \A q \in Procs : ~TellsBatch(q, b)
      BY <2>b, <3>3 DEF NewsInv
    <3>7. NewsInv'
      BY <2>b, <3>2, <3>5, <3>6 DEF NewsInv, told
    <3> QED BY <3>4, <3>7
  <2>2. CASE ~BatchDone(b)
    <3>1. StartTail(p, "finishPlan", b) /\ UNCHANGED batch
      BY <1>1, <2>2 DEF FinishBatch
    <3>2. NobodyTells
      BY <1>t, <3>1, TailMoves DEF NobodyTells
    <3> QED BY <1>s, <2>b, <3>1, <3>2, NewsKept
  <2> QED BY <2>1, <2>2
<1>2. CASE TellBatch(p)
  <2>1. /\ b \in Batches /\ TellsBatch(p, b) /\ StartTail(p, "finishPlan", b)
        /\ UNCHANGED <<plan, batch, planNews>>
        /\ news' = [news EXCEPT ![b] = news[b] + 1] \/ UNCHANGED news
    BY <1>2, <1>b DEF TellBatch, TellsBatch, rows
  <2>2. /\ ~TellsPlan(p)'
        /\ \A a \in Batches : ~TellsBatch(p, a)'
        /\ \A q \in Procs : q # p => /\ TellsPlan(q)' <=> TellsPlan(q)
                                     /\ \A a \in Batches : TellsBatch(q, a)' <=> TellsBatch(q, a)
    BY <1>t, <2>1, TailMoves DEF TellsBatch, TellsPlan
  <2>3. news[b] = 0 /\ batch[b].fin /\ \A q \in Procs : TellsBatch(q, b) => q = p
    BY <2>1 DEF NewsInv
  <2>4. /\ \A a \in Batches : a # b => news'[a] = news[a]
        /\ news'[b] =< 1
    BY <1>t, <2>1, <2>3
  <2>5. NewsInv'
    BY <2>1, <2>2, <2>3, <2>4 DEF NewsInv
  <2> QED BY <1>s, <2>1, <2>5
<1>3. CASE FinishPlan(p)
  <2>b. b \in Batches /\ UNCHANGED <<batch, told>>
    BY <1>3, <1>b DEF FinishPlan
  <2>1. CASE PlanDone
    <3>1. plan' = [plan EXCEPT !.fin = TRUE] /\ StartTail(p, "tellPlan", b)
      BY <1>3, <2>1 DEF FinishPlan
    <3>2. plan'.fin
      BY <1>t, <3>1, ParentFields
    <3>3. ~plan.fin /\ \A a \in Batches : batch[a].fin
      BY <2>1 DEF PlanDone
    <3>4. DoneInv'
      BY <2>b, <3>3 DEF DoneInv, FinishedMeansDone, ItemsKept, Ended, ItemsOf
    <3>5. /\ TellsPlan(p)' /\ \A a \in Batches : ~TellsBatch(p, a)'
          /\ \A q \in Procs : q # p => /\ TellsPlan(q)' <=> TellsPlan(q)
                                       /\ \A a \in Batches : TellsBatch(q, a)' <=> TellsBatch(q, a)
      BY <1>t, <3>1, TailMoves DEF TellsBatch, TellsPlan
    <3>6. planNews = 0 /\ \A q \in Procs : ~TellsPlan(q)
      BY <3>3 DEF NewsInv
    <3>7. NewsInv'
      BY <2>b, <3>2, <3>5, <3>6 DEF NewsInv, told
    <3> QED BY <3>4, <3>7
  <2>2. CASE ~PlanDone
    <3>1. StartTail(p, "done", b) /\ UNCHANGED plan
      BY <1>3, <2>2 DEF FinishPlan
    <3>2. NobodyTells
      BY <1>t, <3>1, TailMoves DEF NobodyTells
    <3> QED BY <1>s, <2>b, <3>1, <3>2, NewsKept
  <2> QED BY <2>1, <2>2
<1>4. CASE TellPlan(p)
  <2>1. /\ TellsPlan(p) /\ StartTail(p, "done", b)
        /\ UNCHANGED <<plan, batch, news>>
        /\ planNews' = planNews + 1 \/ UNCHANGED planNews
    BY <1>4 DEF TellPlan, TellsPlan, rows
  <2>2. /\ ~TellsPlan(p)'
        /\ \A a \in Batches : ~TellsBatch(p, a)'
        /\ \A q \in Procs : q # p => /\ TellsPlan(q)' <=> TellsPlan(q)
                                     /\ \A a \in Batches : TellsBatch(q, a)' <=> TellsBatch(q, a)
    BY <1>t, <2>1, TailMoves DEF TellsBatch, TellsPlan
  <2>3. planNews = 0 /\ plan.fin /\ \A q \in Procs : TellsPlan(q) => q = p
    BY <2>1 DEF NewsInv
  <2>4. NewsInv'
    BY <2>1, <2>2, <2>3 DEF NewsInv
  <2> QED BY <1>s, <2>1, <2>4
<1>5. CASE EndTail(p)
  <2>1. NobodyTells
    BY <1>5, <1>t DEF EndTail, Reset, NobodyTells, TailTypeOK, NoTail
  <2> QED BY <1>5, <1>s, <2>1, NewsKept DEF EndTail, rows
<1> QED BY <1>1, <1>2, <1>3, <1>4, <1>5 DEF Closing

\* Operators: the batch or the plan that is saved was not closed, or is saved
\* with the finished_time it has; whoever terminates announces what it closed.
LEMMA SaveDone ==
  ASSUME TypeOK, OpsInv, DoneInv, NewsInv, ItemsKept, NEW c \in Callers, SaveCall(c)
  PROVE  DoneInv' /\ NewsInv'
<1>t. /\ TailTypeOK /\ plan \in ParentRow /\ batch \in [Batches -> ParentRow]
      /\ call[c] \in CallRec /\ c \in Procs
  BY TypeParts DEF RowsTypeOK, CallTypeOK, Procs
<1>n. UNCHANGED tail => NobodyTells
  BY DEF NobodyTells
<1>1. CASE SaveItem(c)
  <2>1. UNCHANGED <<plan, batch, told>>
    BY <1>1 DEF SaveItem
  <2>2. NobodyTells
    BY <1>1, <1>t, <1>n, TailMoves DEF SaveItem, NobodyTells
  <2>3. FinsStay
    BY <2>1 DEF FinsStay
  <2> QED BY <2>1, <2>2, <2>3, DoneKept, NewsKept
<1>2. CASE SavePlan(c)
  <2>1. UNCHANGED <<tail, told>> /\ call[c].row = plan
    BY <1>2 DEF SavePlan, OpsInv
  <2>2. plan'.fin = plan.fin
    <3>1. PICK st \in {"PAUSED", "ENABLED"} : plan' = [plan EXCEPT !.st = st]
      BY <1>2, <2>1 DEF SavePlan
    <3>2. [plan EXCEPT !.st = st].fin = plan.fin
      BY <1>t, ParentFields
    <3> QED BY <3>1, <3>2
  <2>3. ASSUME NEW b \in Batches
        PROVE  /\ batch'[b].fin = batch[b].fin
               /\ batch'[b].st = "TERMINATED" <=> batch[b].st = "TERMINATED"
    <3>1. batch[b] \in ParentRow
      BY <1>t
    <3>2. \/ batch'[b] = batch[b]
          \/ Open(batch[b]) /\ batch'[b] = [batch[b] EXCEPT !.st = "PAUSED"]
          \/ batch[b].st = "PAUSED" /\ batch'[b] = [batch[b] EXCEPT !.st = "ENABLED"]
      BY <1>2 DEF SavePlan
    <3>3. CASE batch'[b] = batch[b]
      BY <3>3
    <3>4. ASSUME NEW st \in {"PAUSED", "ENABLED"}, batch[b].st # "TERMINATED",
                 batch'[b] = [batch[b] EXCEPT !.st = st]
          PROVE  batch'[b].fin = batch[b].fin /\ batch'[b].st # "TERMINATED"
      BY <3>1, <3>4, ParentFields
    <3> QED BY <3>2, <3>3, <3>4 DEF Open
  <2>4. FinsStay
    BY <2>2, <2>3 DEF FinsStay
  <2> QED BY <1>n, <2>1, <2>2, <2>3, <2>4, DoneKept, NewsKept
<1>3. CASE SaveBatch(c)
  <2> DEFINE b == call[c].batch
  <2>1. /\ UNCHANGED <<tail, told>> /\ b \in Batches
        /\ call[c].row = batch[b] /\ ~batch[b].fin
    BY <1>3, <1>t, CallFields DEF SaveBatch, OpsInv
  <2>2. plan'.fin = plan.fin
    <3>1. plan' = plan \/ plan' = [plan EXCEPT !.st = "ENABLED"]
      BY <1>3 DEF SaveBatch
    <3>2. [plan EXCEPT !.st = "ENABLED"].fin = plan.fin
      BY <1>t, ParentFields
    <3> QED BY <3>1, <3>2
  <2>3. /\ ~batch'[b].fin /\ batch'[b].st # "TERMINATED" /\ batch[b].st # "TERMINATED"
        /\ \A a \in Batches : a # b => batch'[a] = batch[a]
    <3>1. PICK st \in {"PAUSED", "ENABLED"} : batch' = [batch EXCEPT ![b] = [batch[b] EXCEPT !.st = st]]
      BY <1>3, <2>1 DEF SaveBatch
    <3>2. batch'[b] = [batch[b] EXCEPT !.st = st] /\ batch[b] \in ParentRow
      BY <1>t, <2>1, <3>1
    <3>3. batch'[b].fin = batch[b].fin /\ batch'[b].st = st
      BY <3>2, ParentFields
    <3> QED BY <1>t, <2>1, <3>1, <3>3 DEF DoneInv
  <2>4. FinsStay
    BY <2>1, <2>2, <2>3 DEF FinsStay
  <2>5. DoneInv'
    BY <2>1, <2>2, <2>3, <2>4, DoneKept
  <2> QED BY <1>n, <2>1, <2>4, <2>5, NewsKept
<1>4. CASE TerminatePlanCommit(c)
  <2>1. CASE Closed(plan)
    <3>1. UNCHANGED <<plan, batch, tail, told>>
      BY <1>4, <2>1 DEF TerminatePlanCommit
    <3> QED BY <1>n, <3>1, DoneKept, NewsKept DEF FinsStay
  <2>2. CASE ~Closed(plan)
    <3>1. /\ plan' = TerminatedRow(plan) /\ UNCHANGED <<item, told>>
          /\ batch' = [a \in Batches |-> TerminatedRow(batch[a])]
          /\ \E a \in Batches : StartTail(c, "tellPlan", a)
      BY <1>4, <2>2 DEF TerminatePlanCommit
    <3>2. PICK first \in Batches : StartTail(c, "tellPlan", first)
      BY <3>1
    <3>3. tail'[c].pc = "tellPlan" /\ \A q \in Procs : q # c => tail'[q] = tail[q]
      BY <1>t, <3>2, TailMoves
    <3>4. plan'.fin /\ ~plan.fin
      BY <1>t, <2>2, <3>1, ParentFields DEF Closed
    <3>5. ASSUME NEW a \in Batches
          PROVE  /\ batch'[a].fin
                 /\ batch[a].fin => batch'[a] = batch[a]
                 /\ ~batch[a].fin => batch'[a].st = "TERMINATED"
      <4>1. batch[a] \in ParentRow /\ batch'[a] = TerminatedRow(batch[a])
        BY <1>t, <3>1
      <4>2. CASE Closed(batch[a])
        <5>1. batch[a].fin
          BY <4>2 DEF Closed, DoneInv
        <5> QED BY <4>1, <4>2, <5>1, ParentFields
      <4>3. CASE ~Closed(batch[a])
        BY <4>1, <4>3, ParentFields DEF Closed
      <4> QED BY <4>2, <4>3
    <3>6. DoneInv'
      BY <3>1, <3>5 DEF DoneInv, FinishedMeansDone, ItemsOf
    <3>7. /\ TellsPlan(c)' /\ \A a \in Batches : ~TellsBatch(c, a)'
          /\ \A q \in Procs : q # c => /\ TellsPlan(q)' <=> TellsPlan(q)
                                       /\ \A a \in Batches : TellsBatch(q, a)' <=> TellsBatch(q, a)
      BY <3>3 DEF TellsBatch, TellsPlan
    <3>8. planNews = 0 /\ \A q \in Procs : ~TellsPlan(q)
      BY <3>4 DEF NewsInv
    <3>9. NewsInv'
      BY <1>t, <3>1, <3>4, <3>5, <3>7, <3>8 DEF NewsInv, told
    <3> QED BY <3>6, <3>9
  <2> QED BY <2>1, <2>2
<1>5. CASE TerminateBatchCommit(c)
  <2> DEFINE b == call[c].batch
  <2>b. b \in Batches /\ UNCHANGED <<plan, item, told>>
    BY <1>5, <1>t, CallFields DEF TerminateBatchCommit
  <2>1. CASE Closed(batch[b])
    <3>1. UNCHANGED <<batch, tail>>
      BY <1>5, <2>1 DEF TerminateBatchCommit
    <3> QED BY <1>n, <2>b, <3>1, DoneKept, NewsKept DEF FinsStay
  <2>2. CASE ~Closed(batch[b])
    <3>1. batch' = [batch EXCEPT ![b] = TerminatedRow(batch[b])] /\ StartTail(c, "tellBatch", b)
      BY <1>5, <2>2 DEF TerminateBatchCommit
    <3>2. batch[b] \in ParentRow /\ batch'[b] = TerminatedRow(batch[b])
          /\ \A a \in Batches : a # b => batch'[a] = batch[a]
      BY <1>t, <2>b, <3>1
    <3>3. batch'[b].fin /\ batch'[b].st = "TERMINATED" /\ ~batch[b].fin
      BY <2>2, <3>2, ParentFields DEF Closed
    <3>4. DoneInv'
      BY <2>b, <3>2, <3>3 DEF DoneInv, FinishedMeansDone, ItemsOf
    <3>5. /\ ~TellsPlan(c)'
          /\ \A a \in Batches : TellsBatch(c, a)' <=> a = b
          /\ \A q \in Procs : q # c => /\ TellsPlan(q)' <=> TellsPlan(q)
                                       /\ \A a \in Batches : TellsBatch(q, a)' <=> TellsBatch(q, a)
      <4>1. /\ tail'[c].pc = "tellBatch" /\ tail'[c].batch = b
            /\ \A q \in Procs : q # c => tail'[q] = tail[q]
        BY <1>t, <3>1, TailMoves
      <4> QED BY <4>1 DEF TellsBatch, TellsPlan
    <3>6. news[b] = 0 /\ \A q \in Procs : ~TellsBatch(q, b)
      BY <2>b, <3>3 DEF NewsInv
    <3>7. NewsInv'
      BY <1>t, <2>b, <3>2, <3>3, <3>5, <3>6 DEF NewsInv, told
    <3> QED BY <3>4, <3>7
  <2> QED BY <2>1, <2>2
<1> QED BY <1>1, <1>2, <1>3, <1>4, <1>5 DEF SaveCall

LEMMA StepDone ==
  ASSUME TypeOK, OpsInv, DoneInv, NewsInv, ItemsKept, [Next]_vars
  PROVE  DoneInv' /\ NewsInv'
<1>1. ASSUME UNCHANGED <<plan, batch, told>>, NobodyTells PROVE DoneInv' /\ NewsInv'
  BY <1>1, DoneKept, NewsKept DEF FinsStay
<1>2. UNCHANGED tail => NobodyTells
  BY DEF NobodyTells
<1>3. ASSUME NEW d \in Dispatchers, Dispatch(d) \/ CallFails(d)
      PROVE  UNCHANGED <<plan, batch, told>> /\ NobodyTells
  <2>1. UNCHANGED <<plan, batch, told>>
    BY <1>3 DEF Dispatch, Select, ClaimItem, CheckParents, MarkRunning, CallDownstream, Answer,
       ReadCount, WriteResult, CallFails, rows
  <2>2. UNCHANGED tail \/ \E b : StartTail(d, "finishBatch", b)
    BY <1>3 DEF Dispatch, Select, ClaimItem, CheckParents, MarkRunning, CallDownstream, Answer,
       ReadCount, WriteResult, CallFails
  <2>3. d \in Procs /\ TailTypeOK
    BY TypeParts DEF Procs
  <2> QED BY <1>2, <2>1, <2>2, <2>3, TailMoves DEF NobodyTells
<1>4. ASSUME NEW p \in Procs, Crash(p) PROVE UNCHANGED <<plan, batch, told>> /\ NobodyTells
  BY <1>4, TypeParts DEF Crash, Reset, NobodyTells, TailTypeOK, NoTail, rows
<1>5. ASSUME NEW c \in Callers, CallbackCall(c)
      PROVE  UNCHANGED <<plan, batch, told>> /\ NobodyTells
  <2>1. UNCHANGED <<plan, batch, told>>
    BY <1>5 DEF CallbackCall, Callback, CallbackReadCount, CallbackWrite, rows
  <2>2. UNCHANGED tail \/ \E b : StartTail(c, "finishBatch", b)
    BY <1>5 DEF CallbackCall, Callback, CallbackReadCount, CallbackWrite
  <2>3. c \in Procs /\ TailTypeOK
    BY TypeParts DEF Procs
  <2> QED BY <1>2, <2>1, <2>2, <2>3, TailMoves DEF NobodyTells
<1>6. ASSUME NEW c \in Callers, ReadCall(c) PROVE UNCHANGED <<plan, batch, told, tail>>
  BY <1>6 DEF ReadCall, PausePlanExecItem, ResumePlanExecItem, RunPlanExecItem,
     TerminatePlanExecItem, ReadItem, PausePlan, ResumePlan, ReadPlan, PausePlanBatch,
     ResumePlanBatch, ReadBatch, TerminatePlanCount, TerminateBatchCount, rows
<1>7. ASSUME NEW i \in Items, Elapse(i) \/ LockGoes(i)
      PROVE  UNCHANGED <<plan, batch, told, tail>>
  BY <1>7 DEF Elapse, LockGoes, rows
<1>8. CASE UNCHANGED vars
  BY <1>1, <1>2, <1>8 DEF vars, told
<1> QED BY <1>1, <1>2, <1>3, <1>4, <1>5, <1>6, <1>7, <1>8, ClosingDone, SaveDone DEF Next, Base

LEMMA SerialStep ==
  TypeOK /\ SerialInv /\ [SerialNext]_vars => TypeOK' /\ SerialInv' /\ ItemsKept
<1> SUFFICES ASSUME TypeOK, SerialInv, [SerialNext]_vars
             PROVE  TypeOK' /\ SerialInv' /\ ItemsKept
  OBVIOUS
<1>1. [Next]_vars
  BY DEF SerialNext, Next
<1>2. ItemsKept /\ FreshInv'
  BY <1>1, StepItems DEF SerialInv
<1> QED BY <1>1, <1>2, StepTypeOK, StepOps, StepDone DEF SerialInv

LEMMA SerialInvariant == SerialSpec => [](TypeOK /\ SerialInv)
BY InitTypeOK, InitSerialInv, SerialStep, PTL DEF SerialSpec

\* An ended item never runs or changes again, whatever scans, late answers,
\* callbacks and crashes do, if no operator saves a row read before it ended.
THEOREM EndedStaysEnded == SerialSpec => EndedIsFinal
<1>1. TypeOK /\ SerialInv /\ [SerialNext]_vars =>
        [\A i \in Items : Ended(item[i]) => item'[i].st = item[i].st]_rows
  BY SerialStep DEF ItemsKept
<1> QED BY <1>1, SerialInvariant, PTL DEF SerialSpec, EndedIsFinal

\* A batch or plan that was closed by aggregation has nothing left to do below.
THEOREM ClosedWhenDone == SerialSpec => []FinishedMeansDone
<1>1. SerialInv => FinishedMeansDone
  BY DEF SerialInv, DoneInv
<1> QED BY <1>1, SerialInvariant, PTL

\* The end of a batch and of the plan is announced once at most, whoever closes:
\* any number of processes that end items, and operators that terminate.
THEOREM AnnouncedAtMostOnce == SerialSpec => []AnnouncedOnce
<1>1. SerialInv => AnnouncedOnce
  BY DEF SerialInv, NewsInv, AnnouncedOnce
<1> QED BY <1>1, SerialInvariant, PTL

=============================================================================
