------------------------ MODULE MeetingRecordingProofs ------------------------
(***************************************************************************)
(* What is proved of the recordings of a meeting, for any number of        *)
(* egresses, calls and webhooks: types, one recording at a time, an end    *)
(* that stays, and a file that arrives.                                    *)
(***************************************************************************)
EXTENDS MeetingRecording, TLAPS

USE RecordingAssumption DEF Absent, ACTIVE, ENDING, COMPLETE, FAILED, LIMIT_REACHED

Rows == [Egresses -> [status : Absent..LIMIT_REACHED, file : BOOLEAN]]

-----------------------------------------------------------------------------
(* What a call or the handler is doing. *)

\* Who has read something knows what it is about.
LEMMA JobFields ==
  ASSUME NEW w \in JobType
  PROVE  /\ w.at \in {"reconcile", "read", "settle", "save", "backfill"} =>
              /\ w.of \in Egresses
              /\ w.info.status \in ACTIVE..LIMIT_REACHED
              /\ w.info.file \in BOOLEAN
              /\ w.info = [status |-> w.info.status, file |-> w.info.file]
         /\ w.at = "undo" => w.of \in Egresses
         /\ w.at \in {"save", "backfill"} => w.seen \in Absent..LIMIT_REACHED
         /\ w.at = "reconcile" => w.then \in {"acquire", "launch", "idle"}
BY DEF JobType, Info

\* The places a job can be put.
LEMMA JobPlaces ==
  /\ \A place \in {"idle", "acquire", "again", "launch"} : [at |-> place] \in JobType
  /\ \A e \in Egresses, i \in Info :
       /\ \A then \in {"acquire", "launch", "idle"} :
            [at |-> "reconcile", of |-> e, info |-> i, then |-> then] \in JobType
       /\ \A place \in {"read", "settle"} : [at |-> place, of |-> e, info |-> i] \in JobType
       /\ \A place \in {"save", "backfill"}, seen \in Absent..LIMIT_REACHED :
            [at |-> place, of |-> e, info |-> i, seen |-> seen] \in JobType
  /\ \A e \in Egresses : [at |-> "undo", of |-> e] \in JobType
BY DEF JobType

LEMMA TurnType ==
  ASSUME job \in [Jobs -> JobType], NEW j \in Jobs, NEW next \in JobType, Turn(j, next)
  PROVE  job' \in [Jobs -> JobType]
BY DEF Turn

LEMMA FinishType ==
  ASSUME RecordingTypeOK, NEW j \in Jobs, Finish(j)
  PROVE  job' \in [Jobs -> JobType] /\ lock' \in Calls \cup {Unlocked}
<1>1. [at |-> "idle"] \in JobType BY JobPlaces
<1>2. job' \in [Jobs -> JobType] BY <1>1, TurnType DEF Finish, RecordingTypeOK
<1>3. lock' \in Calls \cup {Unlocked} BY DEF Finish, RecordingTypeOK
<1> QED BY <1>2, <1>3

-----------------------------------------------------------------------------
(* The table of recordings. *)

\* A row that is written keeps its shape, an end and a file.
RowsKept(new) ==
  /\ new \in Rows
  /\ \A e \in Egresses : /\ Terminal(row[e].status) => new[e].status = row[e].status
                         /\ row[e].file => new[e].file

LEMMA AdvancedKeeps ==
  ASSUME row \in Rows, NEW e \in Egresses, NEW i, i.status \in ACTIVE..LIMIT_REACHED, i.file \in BOOLEAN
  PROVE  RowsKept(Advanced(e, i))
BY DEF Rows, RowsKept, Advanced, InProgress, Terminal

LEMMA SavedKeeps ==
  ASSUME row \in Rows, NEW e \in Egresses, NEW i, i.status \in ACTIVE..LIMIT_REACHED,
         NEW seen \in Absent..LIMIT_REACHED
  PROVE  RowsKept(SavedRow(e, i, seen))
BY DEF Rows, RowsKept, SavedRow, Refreshed, InProgress, Terminal

LEMMA BackfillKeeps ==
  ASSUME row \in Rows, NEW e \in Egresses
  PROVE  RowsKept([row EXCEPT ![e].file = @ \/ row[e].status = COMPLETE])
BY DEF Rows, RowsKept, Terminal

LEMMA RowsSame == ASSUME row \in Rows, row' = row PROVE RowsKept(row')
BY DEF RowsKept, Terminal

-----------------------------------------------------------------------------
(* Type correctness, and that no step takes back what a row says. *)

LEMMA TypeParts ==
  ASSUME RecordingTypeOK
  PROVE  /\ egress \in [Egresses -> Absent..LIMIT_REACHED] /\ row \in Rows
         /\ left.egresses \in Nat /\ left.hooks \in Nat
         /\ \A j \in Jobs : job[j] \in JobType
         /\ \A c \in Calls : c \in Jobs
         /\ Hook \in Jobs
BY DEF RecordingTypeOK, Rows, Jobs

LEMMA ReachType ==
  ASSUME RecordingTypeOK, NEW e \in Egresses, NEW status \in ACTIVE..LIMIT_REACHED,
         NEW file \in BOOLEAN, Reach(e, status, file)
  PROVE  /\ egress' \in [Egresses -> Absent..LIMIT_REACHED]
         /\ hooks' \subseteq [of : Egresses, info : Info]
<1>1. egress' \in [Egresses -> Absent..LIMIT_REACHED] BY DEF Reach, RecordingTypeOK
<1>2. [status |-> status, file |-> file] \in Info BY DEF Info
<1>3. [of |-> e, info |-> [status |-> status, file |-> file]] \in [of : Egresses, info : Info]
  BY <1>2
<1>4. hooks' \subseteq [of : Egresses, info : Info] BY <1>3 DEF Reach, RecordingTypeOK
<1> QED BY <1>1, <1>4

\* LiveKit does not touch the table.
LEMMA LiveKitKeeps ==
  ASSUME RecordingTypeOK, NEW e \in Egresses, Advance(e) \/ FileReady(e) \/ Forget(e)
  PROVE  RecordingTypeOK' /\ RowsKept(row')
<1>0. row' = row /\ row \in Rows BY TypeParts DEF Advance, FileReady, Forget
<1>1. RowsKept(row') BY <1>0, RowsSame
<1>2. CASE Advance(e)
  <2>1. PICK status \in {egress[e] + 1, FAILED, LIMIT_REACHED} : Reach(e, status, FALSE) BY <1>2 DEF Advance
  <2>2. egress[e] \in ACTIVE..ENDING BY <1>2, TypeParts DEF Advance, InProgress
  <2>3. status \in ACTIVE..LIMIT_REACHED BY <2>2
  <2>4. /\ egress' \in [Egresses -> Absent..LIMIT_REACHED]
        /\ hooks' \subseteq [of : Egresses, info : Info]
    BY <2>1, <2>3, ReachType
  <2>5. UNCHANGED <<strayed, left, listed, files, row, lock, job, told>> BY <1>2 DEF Advance
  <2> QED BY <1>1, <2>4, <2>5 DEF RecordingTypeOK
<1>3. CASE FileReady(e)
  <2>1. /\ egress' \in [Egresses -> Absent..LIMIT_REACHED]
        /\ hooks' \subseteq [of : Egresses, info : Info]
    <3>1. Reach(e, egress[e], TRUE) BY <1>3 DEF FileReady
    <3>2. egress[e] \in ACTIVE..LIMIT_REACHED /\ TRUE \in BOOLEAN BY <1>3 DEF FileReady
    <3> QED BY <3>1, <3>2, ReachType
  <2>2. /\ UNCHANGED <<strayed, left, listed, row, lock, job, told>>
        /\ files' = files \cup {e}
    BY <1>3 DEF FileReady
  <2> QED BY <1>1, <2>1, <2>2 DEF RecordingTypeOK
<1>4. CASE Forget(e) BY <1>1, <1>4 DEF Forget, RecordingTypeOK
<1> QED BY <1>2, <1>3, <1>4

LEMMA ListingInfo ==
  ASSUME RecordingTypeOK, NEW e \in Egresses, e \in listed => egress[e] # Absent
  PROVE  Listing(e) \in Info
BY DEF RecordingTypeOK, Listing, Info

\* ListEgress knows of every egress in progress and of none that has not begun.
ListedInv ==
  \A e \in Egresses :
    /\ e \in listed => egress[e] # Absent
    /\ InProgress(egress[e]) => e \in listed
    /\ e \in files => egress[e] \in {COMPLETE, LIMIT_REACHED}

LEMMA ListEgressKeeps ==
  ASSUME RecordingTypeOK, ListedInv, NEW c \in Calls, NEW e \in Egresses,
         NEW then \in {"acquire", "launch", "idle"}, ListEgress(c, e, then)
  PROVE  job' \in [Jobs -> JobType] /\ lock' \in Calls \cup {Unlocked}
<1>0. c \in Jobs BY TypeParts
<1>1. CASE Finish(c) BY <1>0, <1>1, FinishType
<1>2. CASE /\ UNCHANGED lock
           /\ Turn(c, [at |-> "reconcile", of |-> e, info |-> Listing(e), then |-> then])
  <2>1. Listing(e) \in Info BY ListingInfo DEF ListedInv
  <2>2. [at |-> "reconcile", of |-> e, info |-> Listing(e), then |-> then] \in JobType
    BY <2>1, JobPlaces
  <2>3. job' \in [Jobs -> JobType] BY <1>0, <1>2, <2>2, TurnType DEF RecordingTypeOK
  <2> QED BY <1>2, <2>3 DEF RecordingTypeOK
<1> QED BY <1>1, <1>2 DEF ListEgress

\* The checks of a start and the query of the state only read.
LEMMA ChecksKeep ==
  ASSUME RecordingTypeOK, ListedInv, NEW c \in Calls,
         \/ StartMeetingRecord(c)
         \/ CheckAgain(c)
         \/ \E e \in Egresses : GetMeetingRecordState(c, e)
  PROVE  RecordingTypeOK' /\ RowsKept(row')
<1>0. c \in Jobs BY TypeParts
<1>1. ASSUME UNCHANGED <<strayed, left, livekit, row, told>>,
             job' \in [Jobs -> JobType], lock' \in Calls \cup {Unlocked}
      PROVE  RecordingTypeOK' /\ RowsKept(row')
  <2>1. row' = row /\ row \in Rows BY <1>1, TypeParts
  <2>2. RowsKept(row') BY <2>1, RowsSame
  <2> QED BY <1>1, <2>2 DEF RecordingTypeOK, livekit
<1>2. ASSUME NEW place, NEW then \in {"acquire", "launch"}, ActiveRecording(c, place, then)
      PROVE  RecordingTypeOK' /\ RowsKept(row')
  <2>1. CASE Turn(c, [at |-> then]) /\ UNCHANGED lock
    <3>1. [at |-> then] \in JobType BY JobPlaces
    <3>2. job' \in [Jobs -> JobType] BY <1>0, <2>1, <3>1, TurnType DEF RecordingTypeOK
    <3>3. lock' \in Calls \cup {Unlocked} BY <2>1 DEF RecordingTypeOK
    <3> QED BY <1>1, <1>2, <3>2, <3>3 DEF ActiveRecording
  <2>2. CASE \E e \in Egresses : ListEgress(c, e, then)
    <3>1. PICK e \in Egresses : ListEgress(c, e, then) BY <2>2
    <3>2. job' \in [Jobs -> JobType] /\ lock' \in Calls \cup {Unlocked}
      BY <3>1, ListEgressKeeps
    <3> QED BY <1>1, <1>2, <3>2 DEF ActiveRecording
  <2> QED BY <1>2, <2>1, <2>2 DEF ActiveRecording
<1>3. CASE StartMeetingRecord(c) BY <1>2, <1>3 DEF StartMeetingRecord
<1>4. CASE CheckAgain(c) BY <1>2, <1>4 DEF CheckAgain
<1>5. CASE \E e \in Egresses : GetMeetingRecordState(c, e)
  <2>1. PICK e \in Egresses : GetMeetingRecordState(c, e) BY <1>5
  <2>2. job' \in [Jobs -> JobType] /\ lock' \in Calls \cup {Unlocked}
    BY <2>1, ListEgressKeeps DEF GetMeetingRecordState
  <2> QED BY <1>1, <2>1, <2>2 DEF GetMeetingRecordState
<1> QED BY <1>3, <1>4, <1>5

\* A reconciliation writes what it was told, and only forward.
LEMMA ReconcileKeeps ==
  ASSUME RecordingTypeOK, NEW c \in Calls, Reconcile(c)
  PROVE  RecordingTypeOK' /\ RowsKept(row')
<1>0. c \in Jobs /\ job[c] \in JobType /\ row \in Rows BY TypeParts
<1>1. /\ job[c].of \in Egresses /\ job[c].info.status \in ACTIVE..LIMIT_REACHED
      /\ job[c].info.file \in BOOLEAN /\ job[c].then \in {"acquire", "launch", "idle"}
  BY <1>0, JobFields DEF Reconcile, JobAt
<1>2. RowsKept(row') BY <1>0, <1>1, AdvancedKeeps DEF Reconcile, Of
<1>3. job' \in [Jobs -> JobType] /\ lock' \in Calls \cup {Unlocked}
  <2>1. CASE Finish(c) BY <1>0, <2>1, FinishType
  <2>2. CASE Turn(c, [at |-> job[c].then]) /\ UNCHANGED lock
    <3>1. [at |-> job[c].then] \in JobType BY <1>1, JobPlaces
    <3>2. job' \in [Jobs -> JobType] BY <1>0, <2>2, <3>1, TurnType DEF RecordingTypeOK
    <3> QED BY <2>2, <3>2 DEF RecordingTypeOK
  <2> QED BY <2>1, <2>2 DEF Reconcile
<1>4. UNCHANGED <<strayed, left, livekit, told>> BY DEF Reconcile
<1> QED BY <1>2, <1>3, <1>4 DEF RecordingTypeOK, livekit, RowsKept, Rows

LEMMA AcquireKeeps ==
  ASSUME RecordingTypeOK, NEW c \in Calls, Acquire(c)
  PROVE  RecordingTypeOK' /\ RowsKept(row')
<1>0. c \in Jobs /\ row \in Rows BY TypeParts
<1>1. UNCHANGED <<strayed, left, livekit, row, told>> BY DEF Acquire
<1>2. RowsKept(row') BY <1>0, <1>1, RowsSame
<1>3. job' \in [Jobs -> JobType] /\ lock' \in Calls \cup {Unlocked}
  <2>1. CASE Finish(c) BY <1>0, <2>1, FinishType
  <2>2. CASE lock' = c /\ Turn(c, [at |-> "again"])
    <3>1. [at |-> "again"] \in JobType BY JobPlaces
    <3>2. job' \in [Jobs -> JobType] BY <1>0, <2>2, <3>1, TurnType DEF RecordingTypeOK
    <3> QED BY <2>2, <3>2
  <2> QED BY <2>1, <2>2 DEF Acquire
<1> QED BY <1>1, <1>2, <1>3 DEF RecordingTypeOK, livekit

LEMMA LaunchKeeps ==
  ASSUME RecordingTypeOK, NEW c \in Calls, Launch(c)
  PROVE  RecordingTypeOK' /\ RowsKept(row')
<1>0. c \in Jobs /\ row \in Rows /\ left.egresses \in Nat BY TypeParts
<1>1. UNCHANGED <<files, row, told>> BY DEF Launch
<1>2. RowsKept(row') BY <1>0, <1>1, RowsSame
<1>3. CASE Finish(c) /\ UNCHANGED <<egress, hooks, listed, left, strayed>>
  <2>1. job' \in [Jobs -> JobType] /\ lock' \in Calls \cup {Unlocked}
    BY <1>0, <1>3, FinishType
  <2> QED BY <1>1, <1>2, <1>3, <2>1 DEF RecordingTypeOK
<1>4. CASE ~(Finish(c) /\ UNCHANGED <<egress, hooks, listed, left, strayed>>)
  <2> DEFINE new == {n \in Egresses : egress[n] = Absent}
             e == CHOOSE n \in new : TRUE
             info == [status |-> ACTIVE, file |-> FALSE]
  <2>1. /\ new # {} /\ left.egresses # 0
        /\ left' = [left EXCEPT !.egresses = @ - 1]
        /\ Reach(e, ACTIVE, FALSE) /\ listed' = listed \cup {e}
        /\ \/ Turn(c, [at |-> "read", of |-> e, info |-> info]) /\ UNCHANGED <<lock, strayed>>
           \/ Finish(c) /\ strayed' = TRUE
    BY <1>4 DEF Launch
  <2>2. e \in Egresses BY <2>1
  <2> HIDE DEF e
  <2>3. info \in Info BY DEF Info
  <2>4. /\ egress' \in [Egresses -> Absent..LIMIT_REACHED]
        /\ hooks' \subseteq [of : Egresses, info : Info]
    <3>1. ACTIVE \in ACTIVE..LIMIT_REACHED /\ FALSE \in BOOLEAN OBVIOUS
    <3> QED BY <2>1, <2>2, <3>1, ReachType
  <2>5. left' \in [egresses : Nat, hooks : Nat]
    <3>1. left \in [egresses : Nat, hooks : Nat] BY DEF RecordingTypeOK
    <3>2. left.egresses - 1 \in Nat BY <2>1, <3>1
    <3> QED BY <2>1, <3>1, <3>2
  <2>6. /\ job' \in [Jobs -> JobType] /\ lock' \in Calls \cup {Unlocked}
        /\ strayed' \in BOOLEAN
    <3>1. CASE Finish(c) /\ strayed' = TRUE BY <1>0, <3>1, FinishType
    <3>2. CASE /\ Turn(c, [at |-> "read", of |-> e, info |-> info])
               /\ UNCHANGED <<lock, strayed>>
      <4>1. [at |-> "read", of |-> e, info |-> info] \in JobType BY <2>2, <2>3, JobPlaces
      <4>2. job' \in [Jobs -> JobType] BY <1>0, <3>2, <4>1, TurnType DEF RecordingTypeOK
      <4> QED BY <3>2, <4>2 DEF RecordingTypeOK
    <3> QED BY <2>1, <3>1, <3>2
  <2>7. listed' \subseteq Egresses BY <2>1, <2>2 DEF RecordingTypeOK
  <2> QED BY <1>1, <1>2, <2>4, <2>5, <2>6, <2>7 DEF RecordingTypeOK
<1> QED BY <1>3, <1>4

\* Both halves of SaveRecordingStarted.
LEMMA SaveStepKeeps ==
  ASSUME RecordingTypeOK, NEW j \in Jobs, SaveStep(j)
  PROVE  RecordingTypeOK' /\ RowsKept(row')
<1>0. job[j] \in JobType /\ row \in Rows BY TypeParts
<1>1. CASE Read(j)
  <2>0. job[j].at = "read" BY <1>1 DEF Read, JobAt
  <2>1. /\ job[j].of \in Egresses /\ job[j].info \in Info
    <3>1. /\ job[j].info.status \in ACTIVE..LIMIT_REACHED /\ job[j].info.file \in BOOLEAN
          /\ job[j].info = [status |-> job[j].info.status, file |-> job[j].info.file]
          /\ job[j].of \in Egresses
      BY <1>0, <2>0, JobFields
    <3> QED BY <3>1 DEF Info
  <2>2. row[job[j].of].status \in Absent..LIMIT_REACHED BY <1>0, <2>1 DEF Rows
  <2>3. job' \in [Jobs -> JobType] /\ lock' \in Calls \cup {Unlocked}
    <3>1. CASE Finish(j) BY <3>1, FinishType
    <3>2. CASE /\ Turn(j, [at |-> "save", of |-> Of(j), info |-> job[j].info,
                           seen |-> row[Of(j)].status])
               /\ UNCHANGED lock
      <4>1. [at |-> "save", of |-> Of(j), info |-> job[j].info, seen |-> row[Of(j)].status]
              \in JobType
        BY <2>1, <2>2, JobPlaces DEF Of
      <4>2. job' \in [Jobs -> JobType] BY <3>2, <4>1, TurnType DEF RecordingTypeOK
      <4> QED BY <3>2, <4>2 DEF RecordingTypeOK
    <3> QED BY <1>1, <3>1, <3>2 DEF Read
  <2>4. UNCHANGED <<strayed, left, livekit, row, told>> BY <1>1 DEF Read
  <2>5. RowsKept(row') BY <1>0, <2>4, RowsSame
  <2> QED BY <2>3, <2>4, <2>5 DEF RecordingTypeOK, livekit
<1>2. CASE Save(j)
  <2>1. /\ job[j].of \in Egresses /\ job[j].info.status \in ACTIVE..LIMIT_REACHED
        /\ job[j].seen \in Absent..LIMIT_REACHED
    BY <1>0, <1>2, JobFields DEF Save, JobAt
  <2>2. RowsKept(row') BY <1>0, <1>2, <2>1, SavedKeeps DEF Save, Of
  <2>3. job' \in [Jobs -> JobType] /\ lock' \in Calls \cup {Unlocked}
    BY <1>2, FinishType DEF Save
  <2>4. UNCHANGED <<strayed, left, livekit, told>> BY <1>2 DEF Save
  <2> QED BY <2>2, <2>3, <2>4 DEF RecordingTypeOK, livekit, RowsKept, Rows
<1> QED BY <1>1, <1>2 DEF SaveStep

\* A failed start stops its egress, a stop asks LiveKit, an error changes nothing.
LEMMA UndoKeeps ==
  ASSUME RecordingTypeOK, NEW c \in Calls, Undo(c)
  PROVE  RecordingTypeOK' /\ RowsKept(row')
<1>0. c \in Jobs /\ job[c] \in JobType /\ row \in Rows BY TypeParts
<1>1. job[c].of \in Egresses BY <1>0, JobFields DEF Undo, JobAt
<1>2. job' \in [Jobs -> JobType] /\ lock' \in Calls \cup {Unlocked}
  BY <1>0, FinishType DEF Undo
<1>3. UNCHANGED <<strayed, left, listed, files, row, told>> BY DEF Undo
<1>4. RowsKept(row') BY <1>0, <1>3, RowsSame
<1>5. /\ egress' \in [Egresses -> Absent..LIMIT_REACHED]
      /\ hooks' \subseteq [of : Egresses, info : Info]
  <2>1. CASE Reach(Of(c), ENDING, FALSE)
    <3>1. ENDING \in ACTIVE..LIMIT_REACHED /\ FALSE \in BOOLEAN /\ Of(c) \in Egresses BY <1>1 DEF Of
    <3> QED BY <2>1, <3>1, ReachType
  <2>2. CASE UNCHANGED <<egress, hooks>> BY <2>2 DEF RecordingTypeOK
  <2> QED BY <2>1, <2>2 DEF Undo
<1> QED BY <1>2, <1>3, <1>4, <1>5 DEF RecordingTypeOK

LEMMA FailsKeeps ==
  ASSUME RecordingTypeOK, NEW j \in Jobs, Fails(j)
  PROVE  RecordingTypeOK' /\ RowsKept(row')
<1>0. job[j] \in JobType /\ row \in Rows BY TypeParts
<1>1. UNCHANGED <<left, livekit, row, told>> BY DEF Fails
<1>2. RowsKept(row') BY <1>0, <1>1, RowsSame
<1>3. /\ job' \in [Jobs -> JobType] /\ lock' \in Calls \cup {Unlocked}
      /\ strayed' \in BOOLEAN
  <2>1. CASE Finish(j) /\ UNCHANGED strayed BY <2>1, FinishType DEF RecordingTypeOK
  <2>2. CASE /\ job[j].at \in {"read", "save"}
             /\ Turn(j, [at |-> "undo", of |-> Of(j)]) /\ UNCHANGED lock /\ strayed' = TRUE
    <3>1. job[j].of \in Egresses BY <1>0, <2>2, JobFields
    <3>2. [at |-> "undo", of |-> Of(j)] \in JobType BY <3>1, JobPlaces DEF Of
    <3>3. job' \in [Jobs -> JobType] BY <2>2, <3>2, TurnType DEF RecordingTypeOK
    <3> QED BY <2>2, <3>3 DEF RecordingTypeOK
  <2> QED BY <2>1, <2>2 DEF Fails
<1> QED BY <1>1, <1>2, <1>3 DEF RecordingTypeOK, livekit

LEMMA StopKeeps ==
  ASSUME RecordingTypeOK, ListedInv, NEW c \in Calls, NEW e \in Egresses,
         StopMeetingRecord(c, e)
  PROVE  RecordingTypeOK' /\ RowsKept(row')
<1>0. row \in Rows BY TypeParts
<1>1. UNCHANGED <<strayed, left, listed, files, row, told>> BY DEF StopMeetingRecord
<1>2. RowsKept(row') BY <1>0, <1>1, RowsSame
<1>3. CASE Reach(e, ENDING, FALSE) /\ UNCHANGED <<job, lock>>
  <2>1. ENDING \in ACTIVE..LIMIT_REACHED /\ FALSE \in BOOLEAN OBVIOUS
  <2>2. /\ egress' \in [Egresses -> Absent..LIMIT_REACHED]
        /\ hooks' \subseteq [of : Egresses, info : Info]
    BY <1>3, <2>1, ReachType
  <2> QED BY <1>1, <1>2, <1>3, <2>2 DEF RecordingTypeOK
<1>4. CASE ListEgress(c, e, "idle") /\ UNCHANGED <<egress, hooks>>
  <2>1. job' \in [Jobs -> JobType] /\ lock' \in Calls \cup {Unlocked}
    BY <1>4, ListEgressKeeps
  <2> QED BY <1>1, <1>2, <1>4, <2>1 DEF RecordingTypeOK
<1> QED BY <1>3, <1>4 DEF StopMeetingRecord

\* The handler of webhooks.
LEMMA HandleKeeps ==
  ASSUME RecordingTypeOK, NEW hook \in hooks, HandleEgress(hook)
  PROVE  RecordingTypeOK' /\ RowsKept(row')
<1>0. row \in Rows /\ left.hooks \in Nat /\ Hook \in Jobs BY TypeParts
<1>1. hook.of \in Egresses /\ hook.info \in Info BY DEF RecordingTypeOK
<1>2. UNCHANGED <<strayed, livekit, row, lock, told>> BY DEF HandleEgress
<1>3. RowsKept(row') BY <1>0, <1>2, RowsSame
<1> DEFINE next == [at |-> IF Terminal(hook.info.status) THEN "settle" ELSE "read",
                    of |-> hook.of, info |-> hook.info]
<1>4. next \in JobType BY <1>1, JobPlaces
<1>5. job' \in [Jobs -> JobType]
  <2>1. Turn(Hook, next) BY DEF HandleEgress
  <2> QED BY <1>0, <1>4, <2>1, TurnType DEF RecordingTypeOK
<1>6. left' \in [egresses : Nat, hooks : Nat] BY <1>0 DEF HandleEgress, RecordingTypeOK
<1> QED BY <1>2, <1>3, <1>5, <1>6 DEF RecordingTypeOK, livekit

LEMMA SettleKeeps ==
  ASSUME RecordingTypeOK, NEW e \in Egresses, HandleTerminal(e) \/ Backfill(e)
  PROVE  RecordingTypeOK' /\ RowsKept(row')
<1>0. row \in Rows /\ Hook \in Jobs /\ job[Hook] \in JobType BY TypeParts
<1>1. CASE HandleTerminal(e)
  <2>1. /\ job[Hook].info.status \in ACTIVE..LIMIT_REACHED /\ job[Hook].info.file \in BOOLEAN
        /\ job[Hook].info \in Info
    <3>1. job[Hook].at = "settle" BY <1>1 DEF HandleTerminal, JobAt
    <3>2. /\ job[Hook].info.status \in ACTIVE..LIMIT_REACHED /\ job[Hook].info.file \in BOOLEAN
          /\ job[Hook].info = [status |-> job[Hook].info.status, file |-> job[Hook].info.file]
      BY <1>0, <3>1, JobFields
    <3> QED BY <3>2 DEF Info
  <2>2. RowsKept(row') BY <1>0, <1>1, <2>1, AdvancedKeeps DEF HandleTerminal
  <2>3. /\ job' \in [Jobs -> JobType] /\ lock' \in Calls \cup {Unlocked}
        /\ told' \subseteq Egresses
    <3>1. CASE Finish(Hook) /\ Tells(e, row[e].status)
      BY <1>0, <3>1, FinishType DEF Tells, RecordingTypeOK
    <3>2. CASE /\ Turn(Hook, [at |-> "backfill", of |-> e, info |-> job[Hook].info,
                              seen |-> row[e].status])
               /\ UNCHANGED <<lock, told>>
      <4>1. row[e].status \in Absent..LIMIT_REACHED BY <1>0 DEF Rows
      <4>2. [at |-> "backfill", of |-> e, info |-> job[Hook].info, seen |-> row[e].status]
              \in JobType
        BY <2>1, <4>1, JobPlaces
      <4>3. job' \in [Jobs -> JobType] BY <1>0, <3>2, <4>2, TurnType DEF RecordingTypeOK
      <4> QED BY <3>2, <4>3 DEF RecordingTypeOK
    <3> QED BY <1>1, <3>1, <3>2 DEF HandleTerminal
  <2>4. UNCHANGED <<strayed, left, livekit>> BY <1>1 DEF HandleTerminal
  <2> QED BY <2>2, <2>3, <2>4 DEF RecordingTypeOK, livekit, RowsKept, Rows
<1>2. CASE Backfill(e)
  <2>1. RowsKept(row') BY <1>0, <1>2, BackfillKeeps DEF Backfill
  <2>2. job' \in [Jobs -> JobType] /\ lock' \in Calls \cup {Unlocked}
    BY <1>0, <1>2, FinishType DEF Backfill
  <2>3. told' \subseteq Egresses BY <1>2 DEF Backfill, Tells, RecordingTypeOK
  <2>4. UNCHANGED <<strayed, left, livekit>> BY <1>2 DEF Backfill
  <2> QED BY <2>1, <2>2, <2>3, <2>4 DEF RecordingTypeOK, livekit, RowsKept, Rows
<1> QED BY <1>1, <1>2

-----------------------------------------------------------------------------
(* The invariants behind OneRecording. *)

\* What is said of an egress that has ended stays true.
Real(e, status) == egress[e] # Absent /\ (Terminal(status) => Terminal(egress[e]))

\* Everything written or heard is true: in the webhooks, in the table and in what a
\* call or the handler keeps.
TruthInv ==
  /\ \A h \in hooks : Real(h.of, h.info.status)
  /\ \A e \in Egresses : row[e].status # Absent => Real(e, row[e].status)
  /\ \A j \in Jobs :
       job[j].at \in {"reconcile", "read", "settle", "save", "backfill"} =>
         Real(job[j].of, job[j].info.status)
  /\ \A j \in Jobs :
       job[j].at = "save" /\ job[j].seen # Absent => row[job[j].of].status # Absent

\* From the second check on a start holds the lock.
Inside(c) == \/ job[c].at \in {"again", "launch", "read", "save", "undo"}
             \/ job[c].at = "reconcile" /\ job[c].then = "launch"

LockInv == \A c \in Calls : Inside(c) => lock = c

\* As far as the table knows, the egress may still be running.
Unsettled(e) == egress[e] # Absent /\ ~Terminal(row[e].status)

\* While no start has failed there is at most one such egress, it is the one the
\* holder of the lock has to deal with, and none when the next is launched.
OneInv ==
  ~strayed =>
    /\ \A e \in Egresses : egress[e] # Absent /\ row[e].status = Absent =>
         \E c \in Calls : lock = c /\ job[c].at \in {"read", "save"} /\ job[c].of = e
    /\ \A d, e \in Egresses : Unsettled(d) /\ Unsettled(e) => d = e
    /\ \A c \in Calls : job[c].at = "launch" => \A e \in Egresses : ~Unsettled(e)
    /\ \A c \in Calls : job[c].at = "reconcile" /\ job[c].then = "launch" =>
         /\ row[job[c].of].status # Absent
         /\ \A e \in Egresses : Unsettled(e) => e = job[c].of

RecordingInv == RecordingTypeOK /\ ListedInv /\ TruthInv /\ LockInv /\ OneInv

-----------------------------------------------------------------------------
(* What the steps have in common, but for the launch of an egress. *)

Informed(w) == w.at \in {"reconcile", "read", "settle", "save", "backfill"}

\* True from the step on.
Said(e, status) == egress'[e] # Absent /\ (Terminal(status) => Terminal(egress'[e]))

Stays(j) == job'[j] = job[j] /\ lock' = lock

\* What j turns to rests on what is true, and goes no further than the lock allows.
Moves(j) ==
  /\ Informed(job'[j]) => Said(job'[j].of, job'[j].info.status)
  /\ job'[j].at = "save" /\ job'[j].seen # Absent => row'[job'[j].of].status # Absent
  /\ j \in Calls /\ Inside(j)' => lock' = j
  /\ j \in Calls /\ ~strayed' =>
       /\ job[j].at \in {"read", "save"} /\ row'[job[j].of].status = Absent =>
            lock' = lock /\ job'[j].at \in {"read", "save"} /\ job'[j].of = job[j].of
       /\ job'[j].at = "launch" => \A e \in Egresses : ~Unsettled(e)'
       /\ job'[j].at = "reconcile" /\ job'[j].then = "launch" =>
            /\ row'[job'[j].of].status # Absent
            /\ \A e \in Egresses : Unsettled(e)' => e = job'[j].of

EgressGoesOn ==
  \A e \in Egresses :
    /\ egress[e] # Absent <=> egress'[e] # Absent
    /\ Terminal(egress[e]) => Terminal(egress'[e])

HooksSay == \A h \in hooks' : h \in hooks \/ Said(h.of, h.info.status)

RowsSay ==
  \A e \in Egresses :
    /\ row'[e].status = row[e].status \/ Said(e, row'[e].status)
    /\ row[e].status # Absent => row'[e].status # Absent
    /\ Terminal(row[e].status) => Terminal(row'[e].status)

OnlyMoves(j) ==
  /\ \A k \in Jobs : k # j => job'[k] = job[k]
  /\ \/ lock' = lock
     \/ lock = Unlocked /\ lock' = j
     \/ lock = j /\ lock' = Unlocked
  /\ strayed => strayed'
  /\ Stays(j) \/ Moves(j)

Effect(j) == EgressGoesOn /\ HooksSay /\ RowsSay /\ OnlyMoves(j)

\* Whoever is informed speaks of an egress.
LEMMA InformedOf ==
  ASSUME RecordingTypeOK, NEW j \in Jobs, Informed(job[j])
  PROVE  job[j].of \in Egresses
BY TypeParts, JobFields DEF Informed

LEMMA TruthStep ==
  ASSUME RecordingTypeOK, TruthInv, NEW j \in Jobs, Effect(j)
  PROVE  TruthInv'
<1>1. \A h \in hooks' : Real(h.of, h.info.status)'
  BY DEF RecordingTypeOK, Effect, EgressGoesOn, HooksSay, TruthInv, Real, Said
<1>2. \A e \in Egresses : row'[e].status # Absent => Real(e, row[e].status)'
  BY DEF Effect, EgressGoesOn, RowsSay, TruthInv, Real, Said
<1>3. ASSUME NEW k \in Jobs, Informed(job'[k]) PROVE Real(job[k].of, job[k].info.status)'
  <2>1. CASE job'[k] = job[k]
    <3>1. Informed(job[k]) BY <1>3, <2>1
    <3>2. job[k].of \in Egresses BY <3>1, InformedOf
    <3>3. Real(job[k].of, job[k].info.status) BY <3>1 DEF TruthInv, Informed
    <3> QED BY <2>1, <3>2, <3>3 DEF Effect, EgressGoesOn, Real
  <2>2. CASE job'[k] # job[k]
    <3>1. k = j /\ Moves(j) BY <2>2 DEF Effect, OnlyMoves, Stays
    <3>2. Said(job'[k].of, job'[k].info.status) BY <1>3, <3>1 DEF Moves
    <3> QED BY <3>2 DEF Said, Real
  <2> QED BY <2>1, <2>2
<1>4. ASSUME NEW k \in Jobs, job'[k].at = "save", job'[k].seen # Absent
      PROVE  row'[job'[k].of].status # Absent
  <2>1. CASE job'[k] = job[k]
    <3>1. job[k].of \in Egresses BY <1>4, <2>1, InformedOf DEF Informed
    <3>2. row[job[k].of].status # Absent BY <1>4, <2>1 DEF TruthInv
    <3> QED BY <2>1, <3>1, <3>2 DEF Effect, RowsSay
  <2>2. CASE job'[k] # job[k]
    BY <1>4, <2>2 DEF Effect, OnlyMoves, Stays, Moves
  <2> QED BY <2>1, <2>2
<1> QED BY <1>1, <1>2, <1>3, <1>4 DEF TruthInv, Informed

LEMMA LockStep ==
  ASSUME RecordingTypeOK, LockInv, NEW j \in Jobs, Effect(j)
  PROVE  LockInv'
<1> SUFFICES ASSUME NEW c \in Calls, Inside(c)' PROVE lock' = c BY DEF LockInv
<1>0. c \in Jobs /\ c # Unlocked BY TypeParts
<1>1. CASE job'[c] = job[c]
  <2>1. lock = c BY <1>1 DEF LockInv, Inside
  <2>2. CASE c # j BY <1>0, <2>1, <2>2 DEF Effect, OnlyMoves
  <2>3. CASE c = j
    <3>1. CASE Stays(j) BY <2>1, <3>1 DEF Stays
    <3>2. CASE Moves(j) BY <2>3, <3>2 DEF Moves
    <3> QED BY <3>1, <3>2 DEF Effect, OnlyMoves
  <2> QED BY <2>2, <2>3
<1>2. CASE job'[c] # job[c]
  <2>1. c = j /\ Moves(j) BY <1>0, <1>2 DEF Effect, OnlyMoves, Stays
  <2> QED BY <2>1 DEF Moves
<1> QED BY <1>1, <1>2

\* No egress becomes unsettled but by a launch.
LEMMA UnsettledBefore ==
  ASSUME NEW j \in Jobs, Effect(j), NEW e \in Egresses, Unsettled(e)'
  PROVE  Unsettled(e)
BY DEF Effect, EgressGoesOn, RowsSay, Unsettled

LEMMA OneStep ==
  ASSUME RecordingTypeOK, LockInv, OneInv, NEW j \in Jobs, Effect(j)
  PROVE  OneInv'
<1> SUFFICES ASSUME ~strayed' PROVE OneInv' BY DEF OneInv
<1>0. ~strayed BY DEF Effect, OnlyMoves
<1>1. ASSUME NEW e \in Egresses, egress'[e] # Absent, row'[e].status = Absent
      PROVE  \E c \in Calls : lock' = c /\ job'[c].at \in {"read", "save"} /\ job'[c].of = e
  <2>1. egress[e] # Absent /\ row[e].status = Absent BY <1>1 DEF Effect, EgressGoesOn, RowsSay
  <2>2. PICK c \in Calls : lock = c /\ job[c].at \in {"read", "save"} /\ job[c].of = e
    BY <1>0, <2>1 DEF OneInv
  <2>3. c \in Jobs /\ c # Unlocked BY TypeParts
  <2>4. CASE c # j BY <2>2, <2>3, <2>4 DEF Effect, OnlyMoves
  <2>5. CASE c = j
    <3>1. CASE Stays(j) BY <2>2, <2>5, <3>1 DEF Stays
    <3>2. CASE Moves(j) BY <1>1, <2>2, <2>5, <3>2 DEF Moves
    <3> QED BY <3>1, <3>2 DEF Effect, OnlyMoves
  <2> QED BY <2>4, <2>5
<1>2. ASSUME NEW d \in Egresses, NEW e \in Egresses, Unsettled(d)', Unsettled(e)' PROVE d = e
  <2>1. Unsettled(d) /\ Unsettled(e) BY <1>2, UnsettledBefore
  <2> QED BY <1>0, <2>1 DEF OneInv
<1>3. ASSUME NEW c \in Calls, job'[c].at = "launch", NEW e \in Egresses PROVE ~Unsettled(e)'
  <2>0. c \in Jobs BY TypeParts
  <2>1. CASE job'[c] = job[c]
    <3>1. ~Unsettled(e) BY <1>0, <1>3, <2>1 DEF OneInv
    <3> QED BY <3>1, UnsettledBefore
  <2>2. CASE job'[c] # job[c]
    <3>1. c = j /\ Moves(j) BY <2>0, <2>2 DEF Effect, OnlyMoves, Stays
    <3> QED BY <1>3, <3>1 DEF Moves
  <2> QED BY <2>1, <2>2
<1>4. ASSUME NEW c \in Calls, job'[c].at = "reconcile", job'[c].then = "launch"
      PROVE  /\ row'[job'[c].of].status # Absent
             /\ \A e \in Egresses : Unsettled(e)' => e = job'[c].of
  <2>0. c \in Jobs BY TypeParts
  <2>1. CASE job'[c] = job[c]
    <3>1. job[c].of \in Egresses BY <1>4, <2>0, <2>1, InformedOf DEF Informed
    <3>2. /\ row[job[c].of].status # Absent
          /\ \A e \in Egresses : Unsettled(e) => e = job[c].of
      BY <1>0, <1>4, <2>1 DEF OneInv
    <3>3. row'[job[c].of].status # Absent BY <3>1, <3>2 DEF Effect, RowsSay
    <3>4. \A e \in Egresses : Unsettled(e)' => e = job[c].of BY <3>2, UnsettledBefore
    <3> QED BY <2>1, <3>3, <3>4
  <2>2. CASE job'[c] # job[c]
    <3>1. c = j /\ Moves(j) BY <2>0, <2>2 DEF Effect, OnlyMoves, Stays
    <3> QED BY <1>4, <3>1 DEF Moves
  <2> QED BY <2>1, <2>2
<1> QED BY <1>1, <1>2, <1>3, <1>4 DEF OneInv

-----------------------------------------------------------------------------
(* Every step but the launch is of that kind. *)

LEMMA EgressesQuiet == egress' = egress => EgressGoesOn
BY DEF EgressGoesOn

LEMMA HooksQuiet == hooks' = hooks => HooksSay
BY DEF HooksSay

LEMMA RowsQuiet == row' = row => RowsSay
BY DEF RowsSay

LEMMA ReachSays ==
  ASSUME RecordingTypeOK, NEW e \in Egresses, NEW status \in ACTIVE..LIMIT_REACHED, NEW file,
         egress[e] # Absent, Terminal(egress[e]) => Terminal(status), Reach(e, status, file)
  PROVE  EgressGoesOn /\ HooksSay
<1>1. egress' = [egress EXCEPT ![e] = status] BY DEF Reach
<1>2. egress \in [Egresses -> Absent..LIMIT_REACHED] BY TypeParts
<1>3. egress'[e] = status /\ \A d \in Egresses : d # e => egress'[d] = egress[d] BY <1>1, <1>2
<1>4. EgressGoesOn BY <1>3 DEF EgressGoesOn
<1>5. Said(e, status) BY <1>3 DEF Said
<1>6. ASSUME NEW h \in hooks' PROVE h \in hooks \/ Said(h.of, h.info.status)
  <2>1. h \in hooks \/ h = [of |-> e, info |-> [status |-> status, file |-> file]]
    BY DEF Reach
  <2>2. h \notin hooks => h.of = e /\ h.info.status = status BY <2>1
  <2> QED BY <1>5, <2>2
<1> QED BY <1>4, <1>6 DEF HooksSay

\* What is true is still true when egresses go on.
LEMMA StillSaid ==
  ASSUME EgressGoesOn, NEW e \in Egresses, NEW status, Real(e, status)
  PROVE  Said(e, status)
BY DEF EgressGoesOn, Real, Said

\* Whoever finishes leaves a row behind if he was to save one.
LEMMA FinishMoves ==
  ASSUME RecordingTypeOK, NEW j \in Jobs, Finish(j), strayed => strayed',
         j \in Calls /\ ~strayed' /\ job[j].at \in {"read", "save"} =>
           row'[job[j].of].status # Absent
  PROVE  OnlyMoves(j)
<1>1. job'[j] = [at |-> "idle"] /\ \A k \in Jobs : k # j => job'[k] = job[k]
  BY DEF Finish, Turn, RecordingTypeOK
<1>2. job'[j].at = "idle" BY <1>1
<1>3. \/ lock' = lock
      \/ lock = j /\ lock' = Unlocked
  BY DEF Finish
<1>4. Moves(j) BY <1>2 DEF Moves, Informed, Inside
<1> QED BY <1>1, <1>3, <1>4 DEF OnlyMoves

\* A turn to a place, with the lock as it is.
LEMMA TurnMoves ==
  ASSUME RecordingTypeOK, NEW j \in Jobs, NEW next, Turn(j, next), lock' = lock,
         strayed => strayed', Moves(j)
  PROVE  OnlyMoves(j)
BY DEF Turn, OnlyMoves, RecordingTypeOK

LEMMA TurnsTo ==
  ASSUME RecordingTypeOK, NEW j \in Jobs, NEW next, Turn(j, next)
  PROVE  job'[j] = next
BY DEF Turn, RecordingTypeOK

LEMMA LiveKitEffect ==
  ASSUME RecordingTypeOK, NEW e \in Egresses, Advance(e) \/ FileReady(e) \/ Forget(e)
  PROVE  Effect(Hook)
<1>1. UNCHANGED <<strayed, row, lock, job>> BY DEF Advance, FileReady, Forget
<1>2. RowsSay BY <1>1, RowsQuiet
<1>3. OnlyMoves(Hook) BY <1>1 DEF OnlyMoves, Stays
<1>4. EgressGoesOn /\ HooksSay
  <2>1. CASE Advance(e)
    <3>1. PICK status \in {egress[e] + 1, FAILED, LIMIT_REACHED} : Reach(e, status, FALSE) BY <2>1 DEF Advance
    <3>2. egress[e] \in ACTIVE..ENDING BY <2>1, TypeParts DEF Advance, InProgress
    <3>3. status \in ACTIVE..LIMIT_REACHED BY <3>2
    <3>4. egress[e] # Absent /\ ~Terminal(egress[e]) BY <3>2 DEF Terminal
    <3>5. Terminal(egress[e]) => Terminal(status) BY <3>4
    <3> QED BY <3>1, <3>3, <3>4, <3>5, ReachSays
  <2>2. CASE FileReady(e)
    <3>1. Reach(e, egress[e], TRUE) /\ egress[e] \in {COMPLETE, LIMIT_REACHED} BY <2>2 DEF FileReady
    <3>2. egress[e] \in ACTIVE..LIMIT_REACHED /\ egress[e] # Absent BY <3>1
    <3> QED BY <3>1, <3>2, ReachSays
  <2>3. CASE Forget(e) BY <2>3, EgressesQuiet, HooksQuiet DEF Forget
  <2> QED BY <2>1, <2>2, <2>3
<1> QED BY <1>2, <1>3, <1>4 DEF Effect

\* ListEgress speaks the truth of an egress in the table.
LEMMA ListingReal ==
  ASSUME RecordingTypeOK, ListedInv, TruthInv, NEW e \in Egresses, FindsActive(e)
  PROVE  Real(e, Listing(e).status) /\ row[e].status # Absent /\ Unsettled(e)
<1>1. row[e].status \in ACTIVE..ENDING BY DEF FindsActive, InProgress
<1>2. egress[e] # Absent BY <1>1 DEF TruthInv, Real
<1>3. Unsettled(e) BY <1>1, <1>2 DEF Unsettled, Terminal
<1>4. CASE e \in listed
  <2>1. Listing(e).status = egress[e] BY <1>4 DEF Listing
  <2> QED BY <1>1, <1>2, <1>3, <2>1 DEF Real
<1>5. CASE e \notin listed
  <2>1. ~InProgress(egress[e]) BY <1>5 DEF ListedInv
  <2>2. egress[e] \in Absent..LIMIT_REACHED BY TypeParts
  <2>3. Terminal(egress[e]) BY <1>2, <2>1, <2>2 DEF Terminal, InProgress
  <2> QED BY <1>1, <1>2, <1>3, <1>5, <2>3 DEF Listing, Real
<1> QED BY <1>1, <1>3, <1>4, <1>5

\* Under the lock of a start the egress found is the only one unsettled.
LEMMA ListEgressEffect ==
  ASSUME RecordingTypeOK, ListedInv, TruthInv, LockInv, OneInv,
         NEW c \in Calls, NEW e \in Egresses,
         NEW then \in {"acquire", "launch", "idle"}, ListEgress(c, e, then),
         then = "launch" => Inside(c), ~(job[c].at \in {"read", "save"}),
         UNCHANGED <<strayed, egress, hooks, row>>
  PROVE  Effect(c)
<1>0. c \in Jobs BY TypeParts
<1>1. EgressGoesOn /\ HooksSay /\ RowsSay BY EgressesQuiet, HooksQuiet, RowsQuiet
<1>2. CASE Finish(c)
  <2>1. OnlyMoves(c) BY <1>0, <1>2, FinishMoves
  <2> QED BY <1>1, <2>1 DEF Effect
<1>3. CASE /\ UNCHANGED lock
           /\ Turn(c, [at |-> "reconcile", of |-> e, info |-> Listing(e), then |-> then])
  <2>1. /\ job'[c].at = "reconcile" /\ job'[c].of = e
        /\ job'[c].info = Listing(e) /\ job'[c].then = then
    BY <1>0, <1>3, TurnsTo
  <2>2. Real(e, Listing(e).status) /\ row[e].status # Absent /\ Unsettled(e)
    BY ListingReal DEF ListEgress
  <2>3. Said(e, Listing(e).status) BY <1>1, <2>2, StillSaid
  <2>4. Inside(c)' => lock' = c BY <1>3, <2>1 DEF Inside, LockInv
  <2>5. ~strayed' => \A d \in Egresses : Unsettled(d)' => d = e
    BY <2>2 DEF OneInv, Unsettled
  <2>6. Moves(c) BY <2>1, <2>2, <2>3, <2>4, <2>5 DEF Moves, Informed
  <2>7. OnlyMoves(c) BY <1>0, <1>3, <2>6, TurnMoves
  <2> QED BY <1>1, <2>7 DEF Effect
<1> QED BY <1>2, <1>3 DEF ListEgress

\* The calls that only read.  Under the lock no row in progress means no egress running.
LEMMA ChecksEffect ==
  ASSUME RecordingInv, NEW c \in Calls,
         \/ StartMeetingRecord(c)
         \/ CheckAgain(c)
         \/ \E e \in Egresses : GetMeetingRecordState(c, e)
  PROVE  Effect(c)
<1> USE DEF RecordingInv
<1>0. c \in Jobs BY TypeParts
<1>1. ASSUME NEW place \in {"idle", "again"}, NEW then \in {"acquire", "launch"},
             then = "launch" => place = "again", ActiveRecording(c, place, then)
      PROVE  Effect(c)
  <2>1. UNCHANGED <<strayed, egress, hooks, row>> BY <1>1 DEF ActiveRecording, livekit
  <2>2. job[c].at = place BY <1>1 DEF ActiveRecording, JobAt
  <2>3. EgressGoesOn /\ HooksSay /\ RowsSay BY <2>1, EgressesQuiet, HooksQuiet, RowsQuiet
  <2>4. CASE FindsNone /\ Turn(c, [at |-> then]) /\ UNCHANGED lock
    <3>1. job'[c].at = then BY <1>0, <2>4, TurnsTo
    <3>2. then = "launch" => Inside(c) BY <1>1, <2>2 DEF Inside
    <3>3. Inside(c)' => lock' = c BY <2>4, <3>1, <3>2 DEF Inside, LockInv
    <3>4. ASSUME then = "launch", ~strayed, NEW e \in Egresses PROVE ~Unsettled(e)
      <4>1. job[c].at = "again" /\ lock = c BY <1>1, <2>2, <3>2, <3>4 DEF LockInv
      <4>2. row[e].status \in Absent..LIMIT_REACHED BY TypeParts DEF Rows
      <4>3. row[e].status \notin ACTIVE..ENDING BY <2>4 DEF FindsNone, FindsActive, InProgress
      <4>4. SUFFICES ASSUME egress[e] # Absent, row[e].status = Absent PROVE FALSE
        BY <4>2, <4>3 DEF Unsettled, Terminal
      <4>5. PICK d \in Calls : lock = d /\ job[d].at \in {"read", "save"}
        BY <3>4, <4>4 DEF OneInv
      <4> QED BY <4>1, <4>5
    <3>5. \A e \in Egresses : Unsettled(e)' <=> Unsettled(e) BY <2>1 DEF Unsettled
    <3>6. Moves(c) BY <1>1, <2>1, <2>2, <3>1, <3>3, <3>4, <3>5 DEF Moves, Informed
    <3>7. OnlyMoves(c) BY <1>0, <2>1, <2>4, <3>6, TurnMoves
    <3> QED BY <2>3, <3>7 DEF Effect
  <2>5. CASE \E e \in Egresses : ListEgress(c, e, then)
    <3>1. then = "launch" => Inside(c) BY <1>1, <2>2 DEF Inside
    <3> QED BY <1>1, <2>1, <2>2, <2>5, <3>1, ListEgressEffect
  <2> QED BY <1>1, <2>4, <2>5 DEF ActiveRecording
<1>2. CASE StartMeetingRecord(c) BY <1>1, <1>2 DEF StartMeetingRecord
<1>3. CASE CheckAgain(c) BY <1>1, <1>3 DEF CheckAgain
<1>4. CASE \E e \in Egresses : GetMeetingRecordState(c, e)
  <2>1. PICK e \in Egresses : GetMeetingRecordState(c, e) BY <1>4
  <2>2. /\ ListEgress(c, e, "idle") /\ job[c].at = "idle"
        /\ UNCHANGED <<strayed, egress, hooks, row>>
    BY <2>1 DEF GetMeetingRecordState, Free, JobAt, livekit
  <2> QED BY <2>2, ListEgressEffect
<1> QED BY <1>2, <1>3, <1>4

\* What is written to a row was said of its egress.
LEMMA AdvancedSays ==
  ASSUME RecordingTypeOK, NEW e \in Egresses, NEW i, i.status \in ACTIVE..LIMIT_REACHED,
         i.file \in BOOLEAN, Said(e, i.status), row' = Advanced(e, i)
  PROVE  /\ RowsSay
         /\ Terminal(i.status) /\ row[e].status # Absent => Terminal(row'[e].status)
<1>1. row \in Rows BY TypeParts
<1>2. \A d \in Egresses : d # e => row'[d] = row[d] BY <1>1 DEF Advanced, Rows
<1>3. \/ row'[e] = row[e] /\ ~(InProgress(row[e].status) /\ row[e].status < i.status)
      \/ /\ row'[e].status = i.status
         /\ InProgress(row[e].status) /\ row[e].status < i.status
  BY <1>1 DEF Advanced, Rows
<1>4. row[e].status \in Absent..LIMIT_REACHED BY <1>1 DEF Rows
<1>5. /\ row'[e].status = row[e].status \/ Said(e, row'[e].status)
      /\ row[e].status # Absent => row'[e].status # Absent
      /\ Terminal(row[e].status) => Terminal(row'[e].status)
      /\ Terminal(i.status) /\ row[e].status # Absent => Terminal(row'[e].status)
  BY <1>3, <1>4 DEF InProgress, Terminal
<1> QED BY <1>2, <1>5 DEF RowsSay

LEMMA SavedSays ==
  ASSUME RecordingTypeOK, NEW e \in Egresses, NEW i, i.status \in ACTIVE..LIMIT_REACHED,
         NEW seen \in Absent..LIMIT_REACHED, Said(e, i.status), row' = SavedRow(e, i, seen),
         seen # Absent => row[e].status # Absent
  PROVE  RowsSay /\ row'[e].status # Absent
<1>1. row \in Rows BY TypeParts
<1>2. \A d \in Egresses : d # e => row'[d] = row[d] BY <1>1 DEF SavedRow, Refreshed, Rows
<1>3. \/ row'[e] = row[e] /\ (seen = Absent => row[e].status # Absent)
      \/ /\ row'[e].status = i.status
         /\ InProgress(row[e].status) \/ row[e].status = Absent
  BY <1>1 DEF SavedRow, Refreshed, Rows
<1>4. row[e].status \in Absent..LIMIT_REACHED BY <1>1 DEF Rows
<1>5. /\ row'[e].status = row[e].status \/ Said(e, row'[e].status)
      /\ row'[e].status # Absent
      /\ Terminal(row[e].status) => Terminal(row'[e].status)
  BY <1>3, <1>4 DEF InProgress, Terminal
<1> QED BY <1>2, <1>5 DEF RowsSay

\* What somebody has heard.
LEMMA Heard ==
  ASSUME RecordingTypeOK, TruthInv, NEW j \in Jobs, Informed(job[j]), EgressGoesOn
  PROVE  /\ job[j].of \in Egresses /\ Said(job[j].of, job[j].info.status)
         /\ job[j].info.status \in ACTIVE..LIMIT_REACHED /\ job[j].info.file \in BOOLEAN
<1>1. job[j] \in JobType BY TypeParts
<1>2. /\ job[j].of \in Egresses /\ job[j].info.status \in ACTIVE..LIMIT_REACHED
      /\ job[j].info.file \in BOOLEAN
  BY <1>1, JobFields DEF Informed
<1>3. Real(job[j].of, job[j].info.status) BY DEF TruthInv, Informed
<1> QED BY <1>2, <1>3, StillSaid

LEMMA ReconcileEffect ==
  ASSUME RecordingInv, NEW c \in Calls, Reconcile(c)
  PROVE  Effect(c)
<1> USE DEF RecordingInv
<1>0. c \in Jobs /\ job[c].at = "reconcile" /\ Informed(job[c])
  BY TypeParts DEF Reconcile, JobAt, Informed
<1>1. UNCHANGED <<strayed, egress, hooks>> BY DEF Reconcile, livekit
<1>2. EgressGoesOn /\ HooksSay BY <1>1, EgressesQuiet, HooksQuiet
<1>3. /\ job[c].of \in Egresses /\ Said(job[c].of, job[c].info.status)
      /\ job[c].info.status \in ACTIVE..LIMIT_REACHED /\ job[c].info.file \in BOOLEAN
  BY <1>0, <1>2, Heard
<1>4. row' = Advanced(job[c].of, job[c].info) BY DEF Reconcile, Of
<1>5. /\ RowsSay
      /\ Terminal(job[c].info.status) /\ row[job[c].of].status # Absent =>
           Terminal(row'[job[c].of].status)
  BY <1>3, <1>4, AdvancedSays
<1>6. CASE Finish(c)
  <2>1. OnlyMoves(c) BY <1>0, <1>1, <1>6, FinishMoves
  <2> QED BY <1>2, <1>5, <2>1 DEF Effect
<1>7. CASE /\ ~InProgress(job[c].info.status)
           /\ Turn(c, [at |-> job[c].then]) /\ UNCHANGED lock
  <2>0. job[c].then \in {"acquire", "launch", "idle"} BY <1>0, TypeParts, JobFields
  <2>1. job'[c].at = job[c].then BY <1>0, <1>7, TurnsTo
  <2>2. Inside(c)' => lock' = c BY <1>0, <1>7, <2>0, <2>1 DEF Inside, LockInv
  <2>3. Terminal(job[c].info.status) BY <1>3, <1>7 DEF InProgress, Terminal
  <2>4. ASSUME job[c].then = "launch", ~strayed, NEW e \in Egresses PROVE ~Unsettled(e)'
    <3>1. /\ row[job[c].of].status # Absent
          /\ Unsettled(e) => e = job[c].of
      BY <1>0, <2>4 DEF OneInv
    <3>2. Terminal(row'[job[c].of].status) BY <1>5, <2>3, <3>1
    <3>3. Unsettled(e)' => Unsettled(e) BY <1>2, <1>5 DEF EgressGoesOn, RowsSay, Unsettled
    <3> QED BY <3>1, <3>2, <3>3 DEF Unsettled
  <2>5. Moves(c) BY <1>0, <1>1, <2>0, <2>1, <2>2, <2>4 DEF Moves, Informed
  <2>6. OnlyMoves(c) BY <1>0, <1>1, <1>7, <2>5, TurnMoves
  <2> QED BY <1>2, <1>5, <2>6 DEF Effect
<1> QED BY <1>6, <1>7 DEF Reconcile

LEMMA AcquireEffect ==
  ASSUME RecordingInv, NEW c \in Calls, Acquire(c)
  PROVE  Effect(c)
<1> USE DEF RecordingInv
<1>0. c \in Jobs /\ job[c].at = "acquire" BY TypeParts DEF Acquire, JobAt
<1>1. UNCHANGED <<strayed, egress, hooks, row>> BY DEF Acquire, livekit
<1>2. EgressGoesOn /\ HooksSay /\ RowsSay BY <1>1, EgressesQuiet, HooksQuiet, RowsQuiet
<1>3. CASE Finish(c)
  <2>1. OnlyMoves(c) BY <1>0, <1>1, <1>3, FinishMoves
  <2> QED BY <1>2, <2>1 DEF Effect
<1>4. CASE lock = Unlocked /\ lock' = c /\ Turn(c, [at |-> "again"])
  <2>1. job'[c].at = "again" BY <1>0, <1>4, TurnsTo
  <2>2. \A k \in Jobs : k # c => job'[k] = job[k] BY <1>4 DEF Turn, RecordingTypeOK
  <2>3. Moves(c) BY <1>0, <1>4, <2>1 DEF Moves, Informed
  <2>4. OnlyMoves(c) BY <1>1, <1>4, <2>2, <2>3 DEF OnlyMoves
  <2> QED BY <1>2, <2>4 DEF Effect
<1> QED BY <1>3, <1>4 DEF Acquire

LEMMA SaveStepEffect ==
  ASSUME RecordingInv, NEW j \in Jobs, SaveStep(j)
  PROVE  Effect(j)
<1> USE DEF RecordingInv
<1>0. job[j].at \in {"read", "save"} /\ Informed(job[j])
  BY DEF SaveStep, Read, Save, JobAt, Informed
<1>1. UNCHANGED <<strayed, egress, hooks>> BY DEF SaveStep, Read, Save, livekit
<1>2. EgressGoesOn /\ HooksSay BY <1>1, EgressesQuiet, HooksQuiet
<1>3. /\ job[j].of \in Egresses /\ Said(job[j].of, job[j].info.status)
      /\ job[j].info.status \in ACTIVE..LIMIT_REACHED
  BY <1>0, <1>2, Heard
<1>4. CASE Read(j)
  <2>0. UNCHANGED <<strayed, row>> /\ RowsSay BY <1>4, RowsQuiet DEF Read
  <2>1. CASE Terminal(row[job[j].of].status) /\ Finish(j)
    <3>1. row'[job[j].of].status # Absent BY <2>0, <2>1 DEF Terminal
    <3>2. OnlyMoves(j) BY <1>1, <2>1, <3>1, FinishMoves
    <3> QED BY <1>2, <2>0, <3>2 DEF Effect
  <2>2. CASE /\ Turn(j, [at |-> "save", of |-> Of(j), info |-> job[j].info,
                         seen |-> row[Of(j)].status])
             /\ UNCHANGED lock
    <3>1. /\ job'[j].at = "save" /\ job'[j].of = job[j].of
          /\ job'[j].info = job[j].info /\ job'[j].seen = row[job[j].of].status
      BY <2>2, TurnsTo DEF Of
    <3>2. j \in Calls => lock' = j BY <1>0, <2>2 DEF LockInv, Inside
    <3>3. Moves(j) BY <1>3, <2>0, <2>2, <3>1, <3>2 DEF Moves, Inside
    <3>4. OnlyMoves(j) BY <1>1, <2>2, <3>3, TurnMoves
    <3> QED BY <1>2, <2>0, <3>4 DEF Effect
  <2> QED BY <1>4, <2>1, <2>2 DEF Read, Of
<1>5. CASE Save(j)
  <2>1. job[j].at = "save" /\ job[j].seen \in Absent..LIMIT_REACHED
    BY <1>5, TypeParts, JobFields DEF Save, JobAt
  <2>2. row' = SavedRow(job[j].of, job[j].info, job[j].seen) /\ Finish(j)
    BY <1>5 DEF Save, Of
  <2>3. job[j].seen # Absent => row[job[j].of].status # Absent BY <2>1 DEF TruthInv
  <2>4. RowsSay /\ row'[job[j].of].status # Absent BY <1>3, <2>1, <2>2, <2>3, SavedSays
  <2>5. OnlyMoves(j) BY <1>1, <2>2, <2>4, FinishMoves
  <2> QED BY <1>2, <2>4, <2>5 DEF Effect
<1> QED BY <1>4, <1>5 DEF SaveStep

LEMMA UndoEffect ==
  ASSUME RecordingInv, NEW c \in Calls, Undo(c)
  PROVE  Effect(c)
<1> USE DEF RecordingInv
<1>0. c \in Jobs /\ job[c].at = "undo" BY TypeParts DEF Undo, JobAt
<1>1. job[c].of \in Egresses BY <1>0, TypeParts, JobFields
<1>2. UNCHANGED <<strayed, row>> /\ Finish(c) BY DEF Undo
<1>3. OnlyMoves(c) BY <1>0, <1>2, FinishMoves
<1>4. RowsSay BY <1>2, RowsQuiet
<1>5. EgressGoesOn /\ HooksSay
  <2>1. CASE egress[Of(c)] = ACTIVE /\ Reach(Of(c), ENDING, FALSE)
    <3>1. /\ Of(c) \in Egresses /\ ENDING \in ACTIVE..LIMIT_REACHED /\ egress[Of(c)] # Absent
          /\ ~Terminal(egress[Of(c)])
      BY <1>1, <2>1 DEF Of, Terminal
    <3> QED BY <2>1, <3>1, ReachSays
  <2>2. CASE UNCHANGED <<egress, hooks>> BY <2>2, EgressesQuiet, HooksQuiet
  <2> QED BY <2>1, <2>2 DEF Undo
<1> QED BY <1>3, <1>4, <1>5 DEF Effect

\* An error: a start that cannot save its row goes on holding the lock.
LEMMA FailsEffect ==
  ASSUME RecordingInv, NEW j \in Jobs, Fails(j)
  PROVE  Effect(j)
<1> USE DEF RecordingInv
<1>1. UNCHANGED <<egress, hooks, row>> BY DEF Fails, livekit
<1>2. EgressGoesOn /\ HooksSay /\ RowsSay BY <1>1, EgressesQuiet, HooksQuiet, RowsQuiet
<1>3. CASE /\ j \in Calls => ~(job[j].at \in {"read", "save"})
           /\ Finish(j) /\ UNCHANGED strayed
  <2>1. OnlyMoves(j) BY <1>3, FinishMoves
  <2> QED BY <1>2, <2>1 DEF Effect
<1>4. CASE /\ job[j].at \in {"read", "save"} /\ j \in Calls
           /\ Turn(j, [at |-> "undo", of |-> Of(j)]) /\ UNCHANGED lock /\ strayed' = TRUE
  <2>1. job'[j].at = "undo" BY <1>4, TurnsTo
  <2>2. lock' = j BY <1>4 DEF LockInv, Inside
  <2>3. Moves(j) BY <1>4, <2>1, <2>2 DEF Moves, Informed
  <2>4. OnlyMoves(j) BY <1>4, <2>3, TurnMoves
  <2> QED BY <1>2, <2>4 DEF Effect
<1> QED
  <2>1. Hook \notin Calls OBVIOUS
  <2> QED BY <1>3, <1>4, <2>1 DEF Fails

LEMMA StopEffect ==
  ASSUME RecordingInv, NEW c \in Calls, NEW e \in Egresses, StopMeetingRecord(c, e)
  PROVE  Effect(c)
<1> USE DEF RecordingInv
<1>0. c \in Jobs BY TypeParts
<1>1. UNCHANGED <<strayed, row>> /\ RowsSay /\ job[c].at = "idle"
  BY RowsQuiet DEF StopMeetingRecord, Free, JobAt
<1>2. CASE egress[e] = ACTIVE /\ Reach(e, ENDING, FALSE) /\ UNCHANGED <<job, lock>>
  <2>1. ENDING \in ACTIVE..LIMIT_REACHED /\ egress[e] # Absent /\ ~Terminal(egress[e])
    BY <1>2 DEF Terminal
  <2>2. EgressGoesOn /\ HooksSay BY <1>2, <2>1, ReachSays
  <2>3. OnlyMoves(c) BY <1>1, <1>2 DEF OnlyMoves, Stays
  <2> QED BY <1>1, <2>2, <2>3 DEF Effect
<1>3. CASE ListEgress(c, e, "idle") /\ UNCHANGED <<egress, hooks>>
  BY <1>1, <1>3, ListEgressEffect
<1> QED BY <1>2, <1>3 DEF StopMeetingRecord

LEMMA HandleEffect ==
  ASSUME RecordingInv, NEW hook \in hooks, HandleEgress(hook)
  PROVE  Effect(Hook)
<1> USE DEF RecordingInv
<1>0. Hook \in Jobs /\ Hook \notin Calls BY TypeParts
<1>1. UNCHANGED <<strayed, egress, hooks, row, lock>> BY DEF HandleEgress, livekit
<1>2. EgressGoesOn /\ HooksSay /\ RowsSay BY <1>1, EgressesQuiet, HooksQuiet, RowsQuiet
<1> DEFINE next == [at |-> IF Terminal(hook.info.status) THEN "settle" ELSE "read",
                    of |-> hook.of, info |-> hook.info]
<1>3. Turn(Hook, next) BY DEF HandleEgress
<1>4. job'[Hook] = next BY <1>0, <1>3, TurnsTo
<1>5. job'[Hook].at # "save" /\ job'[Hook].of = hook.of /\ job'[Hook].info = hook.info
  BY <1>4
<1>6. hook.of \in Egresses BY DEF RecordingTypeOK
<1>7. Said(hook.of, hook.info.status) BY <1>2, <1>6, StillSaid DEF TruthInv
<1>8. Moves(Hook) BY <1>0, <1>5, <1>7 DEF Moves
<1> HIDE DEF next
<1>9. OnlyMoves(Hook) BY <1>0, <1>1, <1>3, <1>8, TurnMoves
<1> QED BY <1>2, <1>9 DEF Effect

LEMMA SettleEffect ==
  ASSUME RecordingInv, NEW e \in Egresses, HandleTerminal(e) \/ Backfill(e)
  PROVE  Effect(Hook)
<1> USE DEF RecordingInv
<1>0. /\ Hook \in Jobs /\ Hook \notin Calls /\ Informed(job[Hook]) /\ e = job[Hook].of
      /\ job[Hook].at \in {"settle", "backfill"}
  BY TypeParts DEF HandleTerminal, Backfill, JobAt, Informed, Of
<1>1. UNCHANGED <<strayed, egress, hooks>> BY DEF HandleTerminal, Backfill, livekit
<1>2. EgressGoesOn /\ HooksSay BY <1>1, EgressesQuiet, HooksQuiet
<1>3. /\ Said(e, job[Hook].info.status)
      /\ job[Hook].info.status \in ACTIVE..LIMIT_REACHED /\ job[Hook].info.file \in BOOLEAN
  BY <1>0, <1>2, Heard
<1>4. CASE HandleTerminal(e)
  <2>1. RowsSay BY <1>3, <1>4, AdvancedSays DEF HandleTerminal
  <2>2. CASE Finish(Hook)
    <3>1. OnlyMoves(Hook) BY <1>0, <1>1, <2>2, FinishMoves
    <3> QED BY <1>2, <2>1, <3>1 DEF Effect
  <2>3. CASE /\ Turn(Hook, [at |-> "backfill", of |-> e, info |-> job[Hook].info,
                            seen |-> row[e].status])
             /\ UNCHANGED <<lock, told>>
    <3>1. /\ job'[Hook].at = "backfill" /\ job'[Hook].of = e
          /\ job'[Hook].info = job[Hook].info
      BY <1>0, <2>3, TurnsTo
    <3>2. Moves(Hook) BY <1>0, <1>3, <3>1 DEF Moves
    <3>3. OnlyMoves(Hook) BY <1>0, <1>1, <2>3, <3>2, TurnMoves
    <3> QED BY <1>2, <2>1, <3>3 DEF Effect
  <2> QED BY <1>4, <2>2, <2>3 DEF HandleTerminal
<1>5. CASE Backfill(e)
  <2>1. Finish(Hook) BY <1>5 DEF Backfill
  <2>2. \A d \in Egresses : row'[d].status = row[d].status
    <3>1. row \in Rows BY TypeParts
    <3>2. row' = [row EXCEPT ![e].file = @ \/ row[e].status = COMPLETE] BY <1>5 DEF Backfill
    <3> QED BY <3>1, <3>2 DEF Rows
  <2>3. RowsSay BY <2>2 DEF RowsSay
  <2>4. OnlyMoves(Hook) BY <1>0, <1>1, <2>1, FinishMoves
  <2> QED BY <1>2, <2>3, <2>4 DEF Effect
<1> QED BY <1>4, <1>5

-----------------------------------------------------------------------------
(* The launch of an egress. *)

\* Without an egress to launch the start ends; with it, it holds the lock and has found
\* nothing unsettled before.
LEMMA LaunchInv ==
  ASSUME RecordingInv, NEW c \in Calls, Launch(c)
  PROVE  TruthInv' /\ LockInv' /\ OneInv' /\ ListedInv'
<1> USE DEF RecordingInv
<1>0. c \in Jobs /\ job[c].at = "launch" BY TypeParts DEF Launch, JobAt
<1>1. UNCHANGED <<files, row, told>> BY DEF Launch
<1>2. CASE Finish(c) /\ UNCHANGED <<egress, hooks, listed, left, strayed>>
  <2>1. EgressGoesOn /\ HooksSay /\ RowsSay
    BY <1>1, <1>2, EgressesQuiet, HooksQuiet, RowsQuiet
  <2>2. OnlyMoves(c) BY <1>0, <1>2, FinishMoves
  <2>3. Effect(c) BY <2>1, <2>2 DEF Effect
  <2>4. ListedInv' BY <1>1, <1>2 DEF ListedInv
  <2> QED BY <1>0, <2>3, <2>4, TruthStep, LockStep, OneStep
<1>3. CASE ~(Finish(c) /\ UNCHANGED <<egress, hooks, listed, left, strayed>>)
  <2> DEFINE new == {n \in Egresses : egress[n] = Absent}
             e == CHOOSE n \in new : TRUE
             info == [status |-> ACTIVE, file |-> FALSE]
  <2>1. /\ new # {} /\ Reach(e, ACTIVE, FALSE) /\ listed' = listed \cup {e}
        /\ \/ Turn(c, [at |-> "read", of |-> e, info |-> info]) /\ UNCHANGED <<lock, strayed>>
           \/ Finish(c) /\ strayed' = TRUE
    BY <1>3 DEF Launch
  <2>2. e \in Egresses /\ egress[e] = Absent BY <2>1
  <2> HIDE DEF e
  <2>3. /\ egress'[e] = ACTIVE
        /\ \A d \in Egresses : d # e => egress'[d] = egress[d]
    BY <2>1, <2>2, TypeParts DEF Reach
  <2>4. \A h \in hooks' : h \in hooks \/ (h.of = e /\ h.info.status = ACTIVE)
    <3>1. hooks' = hooks \cup {[of |-> e, info |-> [status |-> ACTIVE, file |-> FALSE]]}
      BY <2>1 DEF Reach
    <3> QED BY <3>1
  <2>5. \A k \in Jobs : k # c => job'[k] = job[k]
    BY <2>1 DEF Turn, Finish, RecordingTypeOK
  <2>6. \/ /\ job'[c] = [at |-> "read", of |-> e, info |-> info]
           /\ lock' = lock /\ strayed' = strayed
        \/ job'[c] = [at |-> "idle"] /\ strayed' = TRUE /\ (lock' = lock \/ lock = c)
    BY <1>0, <2>1, TurnsTo DEF Finish
  <2>7. /\ job'[c].at \in {"read", "idle"}
        /\ job'[c].at = "read" => /\ job'[c].of = e /\ job'[c].info.status = ACTIVE
                                 /\ lock' = lock /\ strayed' = strayed
        /\ job'[c].at = "idle" => strayed' = TRUE /\ (lock' = lock \/ lock = c)
    BY <2>6
  <2>8. lock = c BY <1>0 DEF LockInv, Inside
  <2>9. TruthInv'
    <3>1. ASSUME NEW d \in Egresses, NEW status, Real(d, status) PROVE Said(d, status)
      <4>1. d # e BY <2>2, <3>1 DEF Real
      <4>2. egress'[d] = egress[d] BY <2>3, <4>1
      <4> QED BY <3>1, <4>2 DEF Real, Said
    <3>2. Said(e, ACTIVE) BY <2>3 DEF Said, Terminal
    <3>3. \A h \in hooks' : Said(h.of, h.info.status)
      <4> TAKE h \in hooks'
      <4>1. CASE h \in hooks
        <5>1. h.of \in Egresses /\ Real(h.of, h.info.status)
          BY <4>1 DEF RecordingTypeOK, TruthInv
        <5> QED BY <3>1, <5>1
      <4>2. CASE h.of = e /\ h.info.status = ACTIVE BY <3>2, <4>2
      <4> QED BY <2>4, <4>1, <4>2
    <3>4. \A d \in Egresses : row'[d].status # Absent => Said(d, row'[d].status)
      <4> TAKE d \in Egresses
      <4>1. row[d].status # Absent => Real(d, row[d].status) BY DEF TruthInv
      <4> QED BY <1>1, <3>1, <4>1
    <3>5. ASSUME NEW k \in Jobs, Informed(job'[k]) PROVE Said(job'[k].of, job'[k].info.status)
      <4>1. CASE k = c
        <5>1. job'[k].at = "read" BY <2>7, <3>5, <4>1 DEF Informed
        <5>2. job'[k].of = e /\ job'[k].info.status = ACTIVE BY <2>7, <4>1, <5>1
        <5> QED BY <3>2, <5>2
      <4>2. CASE k # c
        <5>1. job'[k] = job[k] BY <2>5, <4>2
        <5>2. job[k].of \in Egresses /\ Real(job[k].of, job[k].info.status)
          BY <3>5, <5>1, InformedOf DEF TruthInv, Informed
        <5> QED BY <3>1, <5>1, <5>2
      <4> QED BY <4>1, <4>2
    <3>6. ASSUME NEW k \in Jobs, job'[k].at = "save", job'[k].seen # Absent
          PROVE  row'[job'[k].of].status # Absent
      <4>1. k # c BY <2>7, <3>6
      <4>2. job'[k] = job[k] BY <2>5, <4>1
      <4> QED BY <1>1, <3>6, <4>2 DEF TruthInv
    <3> QED BY <3>3, <3>4, <3>5, <3>6 DEF TruthInv, Informed, Real, Said
  <2>10. \A k \in Calls : k # c => ~Inside(k) /\ job'[k] = job[k]
    <3> TAKE k \in Calls
    <3>1. k \in Jobs BY TypeParts
    <3> QED BY <2>5, <2>8, <3>1 DEF LockInv
  <2>11. LockInv'
    <3> SUFFICES ASSUME NEW k \in Calls, Inside(k)' PROVE lock' = k BY DEF LockInv
    <3>1. k = c BY <2>10 DEF Inside
    <3>2. job'[c].at # "idle" BY <3>1 DEF Inside
    <3> QED BY <2>7, <2>8, <3>1, <3>2
  <2>12. OneInv'
    <3> SUFFICES ASSUME ~strayed' PROVE OneInv' BY DEF OneInv
    <3>1. job'[c].at = "read" /\ job'[c].of = e /\ lock' = c /\ ~strayed BY <2>7, <2>8
    <3>2. \A d \in Egresses : ~Unsettled(d) BY <1>0, <3>1 DEF OneInv
    <3>3. \A d \in Egresses : Unsettled(d)' => d = e BY <1>1, <2>3, <3>2 DEF Unsettled
    <3>4. \A d \in Egresses : egress'[d] # Absent /\ row'[d].status = Absent => d = e
      BY <3>3 DEF Unsettled, Terminal
    <3>5. \A k \in Calls : ~(job'[k].at = "launch")
                         /\ ~(job'[k].at = "reconcile" /\ job'[k].then = "launch")
      BY <2>10, <3>1 DEF Inside
    <3> QED BY <3>1, <3>3, <3>4, <3>5 DEF OneInv
  <2>13. ListedInv'
    BY <1>1, <2>1, <2>2, <2>3 DEF ListedInv, InProgress
  <2> QED BY <2>9, <2>11, <2>12, <2>13
<1> QED BY <1>2, <1>3

-----------------------------------------------------------------------------
(* What ListEgress knows, in every step but the launch. *)

LEMMA ReachListed ==
  ASSUME RecordingTypeOK, ListedInv, NEW e \in Egresses, NEW status \in ACTIVE..LIMIT_REACHED,
         NEW file, InProgress(egress[e]), Reach(e, status, file), UNCHANGED <<listed, files>>
  PROVE  ListedInv'
<1>1. egress' = [egress EXCEPT ![e] = status] BY DEF Reach
<1>2. egress \in [Egresses -> Absent..LIMIT_REACHED] BY TypeParts
<1>3. egress'[e] = status /\ \A d \in Egresses : d # e => egress'[d] = egress[d] BY <1>1, <1>2
<1>4. e \in listed /\ e \notin files BY DEF ListedInv, InProgress
<1> QED BY <1>3, <1>4 DEF ListedInv

LEMMA LiveKitListed ==
  ASSUME RecordingTypeOK, ListedInv, NEW e \in Egresses, Advance(e) \/ FileReady(e) \/ Forget(e)
  PROVE  ListedInv'
<1>1. CASE Advance(e)
  <2>1. PICK status \in {egress[e] + 1, FAILED, LIMIT_REACHED} : Reach(e, status, FALSE) BY <1>1 DEF Advance
  <2>2. egress[e] \in ACTIVE..ENDING BY <1>1 DEF Advance, InProgress
  <2>3. status \in ACTIVE..LIMIT_REACHED BY <2>2
  <2>4. InProgress(egress[e]) /\ UNCHANGED <<listed, files>> BY <1>1 DEF Advance
  <2> QED BY <2>1, <2>3, <2>4, ReachListed
<1>2. CASE FileReady(e)
  <2>1. egress' = egress
    <3>1. egress' = [egress EXCEPT ![e] = egress[e]]
      BY <1>2 DEF FileReady, Reach
    <3> QED BY <3>1, TypeParts
  <2> QED BY <1>2, <2>1 DEF FileReady, ListedInv
<1>3. CASE Forget(e)
  <2>1. egress[e] \in {COMPLETE, FAILED, LIMIT_REACHED} BY <1>3 DEF Forget, ListedInv
  <2>2. ~InProgress(egress[e]) BY <2>1 DEF InProgress
  <2> QED BY <1>3, <2>2 DEF Forget, ListedInv
<1> QED BY <1>1, <1>2, <1>3

\* Undo and stop ask for the end of an egress.
LEMMA EndsListed ==
  ASSUME RecordingTypeOK, ListedInv, UNCHANGED <<listed, files>>, NEW e \in Egresses,
         \/ egress[e] = ACTIVE /\ Reach(e, ENDING, FALSE)
         \/ UNCHANGED <<egress, hooks>>
  PROVE  ListedInv'
<1>1. CASE egress[e] = ACTIVE /\ Reach(e, ENDING, FALSE)
  <2>1. InProgress(egress[e]) /\ ENDING \in ACTIVE..LIMIT_REACHED BY <1>1 DEF InProgress
  <2> QED BY <1>1, <2>1, ReachListed
<1>2. CASE UNCHANGED <<egress, hooks>> BY <1>2 DEF ListedInv
<1> QED BY <1>1, <1>2

LEMMA LivekitQuiet == ASSUME ListedInv, UNCHANGED livekit PROVE ListedInv'
BY DEF livekit, ListedInv

-----------------------------------------------------------------------------
(* The invariant. *)

LEMMA RecordingInvInit == RecordingInit => RecordingInv
<1> SUFFICES ASSUME RecordingInit PROVE RecordingInv OBVIOUS
<1>1. job = [j \in Jobs |-> [at |-> "idle"]] /\ [at |-> "idle"] \in JobType
  BY JobPlaces DEF RecordingInit
<1>2. RecordingTypeOK
  <2>1. Absent \in Absent..LIMIT_REACHED /\ FALSE \in BOOLEAN OBVIOUS
  <2>2. left \in [egresses : Nat, hooks : Nat] BY DEF RecordingInit
  <2>3. row \in [Egresses -> [status : Absent..LIMIT_REACHED, file : BOOLEAN]]
    BY <2>1 DEF RecordingInit
  <2>4. egress \in [Egresses -> Absent..LIMIT_REACHED] BY <2>1 DEF RecordingInit
  <2>5. job \in [Jobs -> JobType] BY <1>1
  <2>6. strayed \in BOOLEAN BY DEF RecordingInit
  <2>7. /\ listed \subseteq Egresses /\ files \subseteq Egresses /\ told \subseteq Egresses
        /\ hooks \subseteq [of : Egresses, info : Info]
        /\ lock \in Calls \cup {Unlocked}
    BY DEF RecordingInit
  <2> QED BY <2>2, <2>3, <2>4, <2>5, <2>6, <2>7 DEF RecordingTypeOK
<1>3. \A j \in Jobs : job[j].at = "idle" BY <1>1
<1>4. \A e \in Egresses : egress[e] = Absent /\ row[e].status = Absent BY DEF RecordingInit
<1>5. ListedInv
  <2>1. listed = {} /\ files = {} BY DEF RecordingInit
  <2>2. \A e \in Egresses : e \notin listed /\ e \notin files BY <2>1
  <2>3. ~InProgress(Absent) BY DEF InProgress
  <2>4. \A e \in Egresses : ~InProgress(egress[e]) BY <1>4, <2>3, Zenon
  <2> QED BY <2>2, <2>4 DEF ListedInv
<1>6. TruthInv BY <1>3, <1>4 DEF RecordingInit, TruthInv
<1>7. LockInv
  <2>1. \A c \in Calls : job[c].at = "idle" BY <1>3, TypeParts, <1>2
  <2> QED BY <2>1 DEF LockInv, Inside
<1>8. OneInv
  <2>1. \A c \in Calls : job[c].at = "idle" BY <1>3, TypeParts, <1>2
  <2> QED BY <1>4, <2>1 DEF OneInv, Unsettled
<1> QED BY <1>2, <1>5, <1>6, <1>7, <1>8 DEF RecordingInv

\* A step that is no launch and keeps what ListEgress knows.
LEMMA InvStep ==
  ASSUME RecordingInv, NEW j \in Jobs, Effect(j), RecordingTypeOK', ListedInv'
  PROVE  RecordingInv'
BY TruthStep, LockStep, OneStep DEF RecordingInv

LEMMA RecordingInvNext ==
  ASSUME RecordingInv, [RecordingNext]_recordingVars
  PROVE  RecordingInv' /\ RowsKept(row')
<1> USE DEF RecordingInv
<1>0. Hook \in Jobs /\ \A c \in Calls : c \in Jobs BY TypeParts
<1>1. ASSUME NEW e \in Egresses, Advance(e) \/ FileReady(e) \/ Forget(e)
      PROVE  RecordingInv' /\ RowsKept(row')
  BY <1>0, <1>1, LiveKitKeeps, LiveKitEffect, LiveKitListed, InvStep
<1>2. ASSUME NEW c \in Calls,
             \/ StartMeetingRecord(c)
             \/ CheckAgain(c)
             \/ \E e \in Egresses : GetMeetingRecordState(c, e)
      PROVE  RecordingInv' /\ RowsKept(row')
  <2>1. UNCHANGED livekit
    BY <1>2 DEF StartMeetingRecord, CheckAgain, ActiveRecording, GetMeetingRecordState
  <2> QED BY <1>0, <1>2, <2>1, ChecksKeep, ChecksEffect, LivekitQuiet, InvStep
<1>3. ASSUME NEW c \in Calls, Reconcile(c) PROVE RecordingInv' /\ RowsKept(row')
  <2>1. UNCHANGED livekit BY <1>3 DEF Reconcile
  <2> QED BY <1>0, <1>3, <2>1, ReconcileKeeps, ReconcileEffect, LivekitQuiet, InvStep
<1>4. ASSUME NEW c \in Calls, Acquire(c) PROVE RecordingInv' /\ RowsKept(row')
  <2>1. UNCHANGED livekit BY <1>4 DEF Acquire
  <2> QED BY <1>0, <1>4, <2>1, AcquireKeeps, AcquireEffect, LivekitQuiet, InvStep
<1>5. ASSUME NEW c \in Calls, Launch(c) PROVE RecordingInv' /\ RowsKept(row')
  BY <1>5, LaunchKeeps, LaunchInv
<1>6. ASSUME NEW j \in Jobs, SaveStep(j) PROVE RecordingInv' /\ RowsKept(row')
  <2>1. UNCHANGED livekit BY <1>6 DEF SaveStep, Read, Save
  <2> QED BY <1>6, <2>1, SaveStepKeeps, SaveStepEffect, LivekitQuiet, InvStep
<1>7. ASSUME NEW c \in Calls, Undo(c) PROVE RecordingInv' /\ RowsKept(row')
  <2>1. Of(c) \in Egresses BY <1>0, <1>7, TypeParts, JobFields DEF Undo, JobAt, Of
  <2>2. /\ UNCHANGED <<listed, files>>
        /\ \/ egress[Of(c)] = ACTIVE /\ Reach(Of(c), ENDING, FALSE)
           \/ UNCHANGED <<egress, hooks>>
    BY <1>7 DEF Undo
  <2>3. ListedInv' BY <2>1, <2>2, EndsListed
  <2> QED BY <1>0, <1>7, <2>3, UndoKeeps, UndoEffect, InvStep
<1>8. ASSUME NEW j \in Jobs, Fails(j) PROVE RecordingInv' /\ RowsKept(row')
  <2>1. UNCHANGED livekit BY <1>8 DEF Fails
  <2> QED BY <1>8, <2>1, FailsKeeps, FailsEffect, LivekitQuiet, InvStep
<1>9. ASSUME NEW c \in Calls, NEW e \in Egresses, StopMeetingRecord(c, e)
      PROVE  RecordingInv' /\ RowsKept(row')
  <2>1. /\ UNCHANGED <<listed, files>>
        /\ \/ egress[e] = ACTIVE /\ Reach(e, ENDING, FALSE)
           \/ UNCHANGED <<egress, hooks>>
    BY <1>9 DEF StopMeetingRecord
  <2>2. ListedInv' BY <2>1, EndsListed
  <2> QED BY <1>0, <1>9, <2>2, StopKeeps, StopEffect, InvStep
<1>10. ASSUME NEW hook \in hooks, HandleEgress(hook) PROVE RecordingInv' /\ RowsKept(row')
  <2>1. UNCHANGED livekit BY <1>10 DEF HandleEgress
  <2> QED BY <1>0, <1>10, <2>1, HandleKeeps, HandleEffect, LivekitQuiet, InvStep
<1>11. ASSUME NEW e \in Egresses, HandleTerminal(e) \/ Backfill(e)
       PROVE  RecordingInv' /\ RowsKept(row')
  <2>1. UNCHANGED livekit BY <1>11 DEF HandleTerminal, Backfill
  <2> QED BY <1>0, <1>11, <2>1, SettleKeeps, SettleEffect, LivekitQuiet, InvStep
<1>12. ASSUME UNCHANGED recordingVars PROVE RecordingInv' /\ RowsKept(row')
  <2>1. /\ UNCHANGED <<strayed, egress, hooks, row, lock, job>> /\ UNCHANGED livekit
        /\ UNCHANGED <<listed, files, left, told>>
    BY <1>12 DEF recordingVars, livekit
  <2>2. EgressGoesOn /\ HooksSay /\ RowsSay BY <2>1, EgressesQuiet, HooksQuiet, RowsQuiet
  <2>3. OnlyMoves(Hook) BY <2>1 DEF OnlyMoves, Stays
  <2>4. Effect(Hook) BY <2>2, <2>3 DEF Effect
  <2>5. RecordingTypeOK' BY <2>1 DEF RecordingTypeOK
  <2>6. RowsKept(row') BY <2>1, TypeParts, RowsSame
  <2> QED BY <1>0, <2>1, <2>4, <2>5, <2>6, LivekitQuiet, InvStep
<1> QED
  BY <1>0, <1>1, <1>2, <1>3, <1>4, <1>5, <1>6, <1>7, <1>8, <1>9, <1>10, <1>11, <1>12
  DEF RecordingNext, CallStep, HookStep

-----------------------------------------------------------------------------
(* The file of a recording.  A backfill that met a row before meets one that *)
(* has ended.                                                                *)

FileInv ==
  /\ job[Hook].at = "backfill" /\ job[Hook].seen # Absent =>
       Terminal(row[job[Hook].of].status)
  /\ \A e \in told : Terminal(row[e].status) /\ (row[e].status = COMPLETE => row[e].file)

\* The handler is not at the end of a recording.
AsideFromFiles ==
  /\ told' = told
  /\ job'[Hook] = job[Hook] \/ job'[Hook].at \notin {"settle", "backfill"}

LEMMA FileInvInit == RecordingInit => FileInv
<1> SUFFICES ASSUME RecordingInit PROVE FileInv OBVIOUS
<1>1. told = {} /\ Hook \in Jobs BY DEF RecordingInit, Jobs
<1>2. job[Hook] = [at |-> "idle"] BY <1>1 DEF RecordingInit
<1>3. job[Hook].at = "idle" BY <1>2
<1> QED BY <1>1, <1>3 DEF FileInv

LEMMA AsideKeepsFiles ==
  ASSUME RecordingTypeOK, FileInv, AsideFromFiles, RowsKept(row')
  PROVE  FileInv'
<1>1. ASSUME job'[Hook].at = "backfill", job'[Hook].seen # Absent
      PROVE  Terminal(row'[job'[Hook].of].status)
  <2>1. job'[Hook] = job[Hook] BY <1>1 DEF AsideFromFiles
  <2>2. job[Hook].of \in Egresses BY <1>1, <2>1, TypeParts, JobFields
  <2>3. Terminal(row[job[Hook].of].status) BY <1>1, <2>1 DEF FileInv
  <2>4. row'[job[Hook].of].status = row[job[Hook].of].status BY <2>2, <2>3 DEF RowsKept
  <2> QED BY <2>1, <2>3, <2>4
<1>2. ASSUME NEW e \in told'
      PROVE  Terminal(row'[e].status) /\ (row'[e].status = COMPLETE => row'[e].file)
  <2>1. e \in told /\ e \in Egresses BY <1>2 DEF AsideFromFiles, RecordingTypeOK
  <2> QED BY <2>1 DEF FileInv, RowsKept
<1> QED BY <1>1, <1>2 DEF FileInv, Terminal

\* Who is not the handler leaves it alone.
LEMMA CallAside ==
  ASSUME RecordingTypeOK, NEW c \in Calls, NEW next, Turn(c, next)
  PROVE  job'[Hook] = job[Hook]
<1>1. c # Hook /\ Hook \in Jobs BY TypeParts
<1> QED BY <1>1 DEF Turn, RecordingTypeOK

LEMMA LiveKitAside ==
  ASSUME NEW e \in Egresses, Advance(e) \/ FileReady(e) \/ Forget(e)
  PROVE  AsideFromFiles
BY DEF Advance, FileReady, Forget, AsideFromFiles

LEMMA CallsAside ==
  ASSUME RecordingTypeOK, NEW c \in Calls,
         \/ StartMeetingRecord(c) \/ CheckAgain(c) \/ Reconcile(c) \/ Acquire(c)
         \/ Launch(c) \/ SaveStep(c) \/ Undo(c) \/ Fails(c)
         \/ \E e \in Egresses : GetMeetingRecordState(c, e) \/ StopMeetingRecord(c, e)
  PROVE  AsideFromFiles
<1>1. told' = told
  BY DEF StartMeetingRecord, CheckAgain, ActiveRecording, Reconcile, Acquire, Launch, SaveStep,
         Read, Save, Undo, Fails, GetMeetingRecordState, StopMeetingRecord
<1>2. job' = job \/ \E next : Turn(c, next)
  <2>1. Finish(c) => \E next : Turn(c, next) BY DEF Finish
  <2>2. \A e, then : ListEgress(c, e, then) => \E next : Turn(c, next) BY <2>1 DEF ListEgress
  <2>3. \A place, then : ActiveRecording(c, place, then) => \E next : Turn(c, next)
    BY <2>2 DEF ActiveRecording
  <2>4. StartMeetingRecord(c) \/ CheckAgain(c) => \E next : Turn(c, next)
    BY <2>3 DEF StartMeetingRecord, CheckAgain
  <2>5. Reconcile(c) \/ Acquire(c) \/ Undo(c) \/ Fails(c) => \E next : Turn(c, next)
    BY <2>1 DEF Reconcile, Acquire, Undo, Fails
  <2>6. Launch(c) => \E next : Turn(c, next) BY <2>1 DEF Launch
  <2>7. SaveStep(c) => \E next : Turn(c, next) BY <2>1 DEF SaveStep, Read, Save
  <2>8. ASSUME NEW e \in Egresses, GetMeetingRecordState(c, e) \/ StopMeetingRecord(c, e)
        PROVE  job' = job \/ \E next : Turn(c, next)
    BY <2>2, <2>8 DEF GetMeetingRecordState, StopMeetingRecord
  <2> QED BY <2>4, <2>5, <2>6, <2>7, <2>8
<1>3. job'[Hook] = job[Hook] BY <1>2, CallAside
<1> QED BY <1>1, <1>3 DEF AsideFromFiles

\* The handler where it is not about the end of a recording.
LEMMA HookAside ==
  ASSUME RecordingTypeOK, SaveStep(Hook) \/ Fails(Hook)
  PROVE  AsideFromFiles
<1>1. told' = told
  BY DEF SaveStep, Read, Save, Fails
<1>2. Hook \in Jobs /\ Hook \notin Calls BY TypeParts
<1>3. Finish(Hook) => job'[Hook] = [at |-> "idle"] BY <1>2, TurnsTo DEF Finish
<1>4. Fails(Hook) => Finish(Hook) BY <1>2 DEF Fails
<1>5. SaveStep(Hook) => \/ Finish(Hook)
                        \/ \E i, seen : Turn(Hook, [at |-> "save", of |-> Of(Hook), info |-> i, seen |-> seen])
  BY DEF SaveStep, Read, Save
<1>6. job'[Hook].at \in {"idle", "save"}
  <2>1. CASE Finish(Hook) BY <1>3, <2>1
  <2>2. ASSUME NEW i, NEW seen, Turn(Hook, [at |-> "save", of |-> Of(Hook), info |-> i, seen |-> seen])
        PROVE  job'[Hook].at = "save"
    BY <1>2, <2>2, TurnsTo
  <2> QED BY <1>4, <1>5, <2>1, <2>2
<1> QED BY <1>1, <1>6 DEF AsideFromFiles

\* The handler learns of the end of a recording.
LEMMA HandleFiles ==
  ASSUME RecordingTypeOK, FileInv, NEW hook \in hooks, HandleEgress(hook)
  PROVE  FileInv'
<1>1. UNCHANGED <<row, told>> BY DEF HandleEgress
<1> DEFINE place == IF Terminal(hook.info.status) THEN "settle" ELSE "read"
<1>2. Turn(Hook, [at |-> place, of |-> hook.of, info |-> hook.info]) /\ Hook \in Jobs
  BY TypeParts DEF HandleEgress
<1>3. job'[Hook] = [at |-> place, of |-> hook.of, info |-> hook.info] BY <1>2, TurnsTo
<1>4. job'[Hook].at # "backfill" BY <1>3
<1> QED BY <1>1, <1>4 DEF FileInv

\* An event that finds the row in progress writes its file with the end; one that finds
\* it at an end is followed by the backfill.
LEMMA TerminalFiles ==
  ASSUME RecordingTypeOK, FileInv, RowsKept(row'), NEW e \in Egresses, HandleTerminal(e)
  PROVE  FileInv'
<1>0. /\ Hook \in Jobs /\ row \in Rows
      /\ job[Hook].info.status \in ACTIVE..LIMIT_REACHED /\ job[Hook].info.file \in BOOLEAN
  BY TypeParts, JobFields DEF HandleTerminal, JobAt
<1>1. row' = Advanced(e, job[Hook].info)
  BY DEF HandleTerminal
<1>2. ASSUME NEW d \in told
      PROVE  Terminal(row'[d].status) /\ (row'[d].status = COMPLETE => row'[d].file)
  <2>1. d \in Egresses BY DEF RecordingTypeOK
  <2> QED BY <2>1 DEF FileInv, RowsKept
<1>3. CASE ~FindsActive(e) /\ NamesFile(job[Hook].info)
  <2>1. /\ Turn(Hook, [at |-> "backfill", of |-> e, info |-> job[Hook].info, seen |-> row[e].status])
        /\ told' = told
    BY <1>3 DEF HandleTerminal
  <2>2. job'[Hook] = [at |-> "backfill", of |-> e, info |-> job[Hook].info, seen |-> row[e].status]
    BY <1>0, <2>1, TurnsTo
  <2>3. job'[Hook].at = "backfill" /\ job'[Hook].of = e /\ job'[Hook].seen = row[e].status
    BY <2>2
  <2>4. row[e].status # Absent => Terminal(row'[e].status)
    <3>1. row[e].status \in Absent..LIMIT_REACHED BY <1>0 DEF Rows
    <3>2. row[e].status # Absent => Terminal(row[e].status)
      BY <1>3, <3>1 DEF FindsActive, InProgress, Terminal
    <3> QED BY <3>2 DEF RowsKept
  <2> QED BY <1>2, <2>1, <2>3, <2>4 DEF FileInv
<1>4. CASE ~(~FindsActive(e) /\ NamesFile(job[Hook].info))
  <2>1. Finish(Hook) /\ Tells(e, row[e].status) BY <1>4 DEF HandleTerminal
  <2>2. job'[Hook] = [at |-> "idle"] BY <1>0, <2>1, TurnsTo DEF Finish
  <2>3. job'[Hook].at = "idle" BY <2>2
  <2>4. told' = told \/ (told' = told \cup {e} /\ NamesFile(job[Hook].info)) BY <2>1 DEF Tells
  <2>5. ASSUME NamesFile(job[Hook].info) PROVE row'[e].status = COMPLETE /\ row'[e].file
    <3>1. /\ job[Hook].info.status = COMPLETE /\ job[Hook].info.file
          /\ InProgress(row[e].status)
      BY <1>4, <2>5 DEF FindsActive, NamesFile
    <3>2. row[e].status < job[Hook].info.status BY <3>1 DEF InProgress
    <3>3. row' = [row EXCEPT ![e] = [status |-> job[Hook].info.status,
                                     file |-> row[e].file \/ job[Hook].info.file]]
      BY <1>1, <3>1, <3>2 DEF Advanced
    <3>4. row'[e] = [status |-> job[Hook].info.status, file |-> row[e].file \/ job[Hook].info.file]
      BY <1>0, <3>3 DEF Rows
    <3>5. row'[e].status = job[Hook].info.status BY <3>4
    <3>6. row'[e].file = (row[e].file \/ job[Hook].info.file) BY <3>4
    <3> QED BY <3>1, <3>5, <3>6
  <2>6. \A d \in told' : Terminal(row'[d].status) /\ (row'[d].status = COMPLETE => row'[d].file)
    <3>1. COMPLETE >= COMPLETE OBVIOUS
    <3> QED BY <1>2, <2>4, <2>5, <3>1 DEF Terminal
  <2> QED BY <2>3, <2>6 DEF FileInv
<1> QED BY <1>3, <1>4

\* The backfill gives a complete recording its file.
LEMMA BackfillFiles ==
  ASSUME RecordingTypeOK, FileInv, RowsKept(row'), NEW e \in Egresses, Backfill(e)
  PROVE  FileInv'
<1>0. Hook \in Jobs /\ row \in Rows BY TypeParts
<1>1. /\ job[Hook].at = "backfill" /\ job[Hook].of = e
      /\ row' = [row EXCEPT ![e].file = row[e].file \/ row[e].status = COMPLETE]
      /\ Finish(Hook) /\ Tells(e, job[Hook].seen)
  BY DEF Backfill, JobAt, Of
<1>2. job'[Hook] = [at |-> "idle"] BY <1>0, <1>1, TurnsTo DEF Finish
<1>3. job'[Hook].at = "idle" BY <1>2
<1>4. ASSUME NEW d \in told
      PROVE  Terminal(row'[d].status) /\ (row'[d].status = COMPLETE => row'[d].file)
  <2>1. d \in Egresses BY DEF RecordingTypeOK
  <2> QED BY <2>1 DEF FileInv, RowsKept
<1>5. /\ row'[e].status = row[e].status
      /\ row'[e].file = (row[e].file \/ row[e].status = COMPLETE)
  BY <1>0, <1>1 DEF Rows
<1>6. job[Hook].seen # Absent => Terminal(row[e].status) BY <1>1 DEF FileInv
<1>7. told' = told \/ (told' = told \cup {e} /\ job[Hook].seen # Absent) BY <1>1 DEF Tells
<1>8. \A d \in told' : Terminal(row'[d].status) /\ (row'[d].status = COMPLETE => row'[d].file)
  BY <1>4, <1>5, <1>6, <1>7
<1> QED BY <1>3, <1>8 DEF FileInv

LEMMA FileInvNext ==
  ASSUME RecordingInv, FileInv, [RecordingNext]_recordingVars
  PROVE  FileInv'
<1>0. RecordingTypeOK /\ RowsKept(row') BY RecordingInvNext DEF RecordingInv
<1>1. CASE AsideFromFiles BY <1>0, <1>1, AsideKeepsFiles
<1>2. UNCHANGED recordingVars => AsideFromFiles
  BY DEF recordingVars, AsideFromFiles
<1>3. ASSUME NEW j \in Jobs, Fails(j) PROVE FileInv'
  BY <1>0, <1>1, <1>3, CallsAside, HookAside DEF Jobs
<1> QED
  BY <1>0, <1>1, <1>2, <1>3, LiveKitAside, CallsAside, HookAside, HandleFiles, TerminalFiles,
     BackfillFiles
  DEF RecordingNext, CallStep, HookStep

-----------------------------------------------------------------------------
(* The theorems. *)

LEMMA RecordingInvariant == RecordingSpec => []RecordingInv
<1>1. RecordingInv /\ [RecordingNext]_recordingVars => RecordingInv' BY RecordingInvNext
<1> QED BY RecordingInvInit, <1>1, PTL DEF RecordingSpec

\* Every variable keeps its type, for any number of egresses, calls and webhooks.
THEOREM RecordingTypeCorrect == RecordingSpec => []RecordingTypeOK
<1>1. RecordingInv => RecordingTypeOK BY DEF RecordingInv
<1> QED BY RecordingInvariant, <1>1, PTL

\* While no start has failed after its egress had begun, one egress at most is active for
\* the meeting: two would both be unsettled.
THEOREM OneRecordingAtATime == RecordingSpec => []OneRecording
<1>1. ASSUME RecordingInv PROVE OneRecording
  <2> SUFFICES ASSUME ~strayed, NEW d \in Egresses, NEW e \in Egresses,
                      egress[d] = ACTIVE, egress[e] = ACTIVE
               PROVE  d = e
    BY DEF OneRecording
  <2>1. ASSUME NEW f \in Egresses, egress[f] = ACTIVE PROVE Unsettled(f)
    <3>1. row[f].status # Absent => Real(f, row[f].status) BY <1>1 DEF RecordingInv, TruthInv
    <3> QED BY <2>1, <3>1 DEF Unsettled, Real, Terminal
  <2> QED BY <1>1, <2>1 DEF RecordingInv, OneInv
<1> QED BY RecordingInvariant, <1>1, PTL

\* What has ended in the database keeps its status and its file: every write is guarded by
\* the row as it is then, and not by what was read of it.
THEOREM FinalRowsStay == RecordingSpec => FinalStays
<1>1. RecordingInv /\ [RecordingNext]_recordingVars
        => [\A e \in Egresses : /\ Terminal(row[e].status) => row'[e].status = row[e].status
                                /\ row[e].file => row'[e].file]_row
  BY RecordingInvNext DEF RowsKept
<1> QED BY RecordingInvariant, <1>1, PTL DEF RecordingSpec, FinalStays

\* A complete recording has its file once the event that names it was handled, whoever
\* announced the end before: the row is at its end then, and the end stays.
THEOREM FilesArrive == RecordingSpec => []FileArrives
<1>1. RecordingInv /\ FileInv /\ [RecordingNext]_recordingVars => RecordingInv' /\ FileInv'
  BY RecordingInvNext, FileInvNext
<1>2. FileInv => FileArrives BY DEF FileInv, FileArrives
<1> QED BY RecordingInvInit, FileInvInit, <1>1, <1>2, PTL DEF RecordingSpec
=============================================================================
