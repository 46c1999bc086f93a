--------------------------- MODULE MeetingRecording ---------------------------
(***************************************************************************)
(* The recordings of one meeting (app/live): StartMeetingRecord with its   *)
(* redis lock, StopMeetingRecord, GetMeetingRecordState, the               *)
(* reconciliation with LiveKit and the egress webhooks, over the table of  *)
(* recordings.                                                             *)
(*                                                                         *)
(* LiveKit (external) runs egresses and sends a webhook for every change;  *)
(* a webhook arrives never, once or several times, in any order, and is    *)
(* handled beside the calls.  Statements of the database are atomic; what  *)
(* was read may be stale when something is written.                        *)
(***************************************************************************)
EXTENDS Integers

CONSTANTS
  Egresses,
  Calls,      \* goroutines of the service, each with one call after the other
  Hook,       \* a webhook handler, one event after the other
  Unlocked,
  Bounds      \* how many egresses are started and how many webhooks arrive

ASSUME RecordingAssumption == /\ Hook # Unlocked /\ Calls \cap {Hook, Unlocked} = {}
                              /\ Bounds \subseteq [egresses : Nat, hooks : Nat]

VARIABLES
  egress,    \* the status of every egress at LiveKit
  listed,    \* the egresses ListEgress knows
  files,     \* egresses whose file is there
  hooks,     \* the webhooks sent
  left,      \* what is left of the bounds
  row,       \* the recordings in the database
  lock,      \* who holds the redis lock of the meeting's recordings
  job,       \* what every call and the handler are doing
  told,      \* complete egresses whose last webhook, with the file, was handled when
             \* the row was there
  strayed    \* whether a start has failed after its egress had begun

livekit == <<egress, listed, files, hooks>>
recordingVars == <<livekit, left, row, lock, job, told, strayed>>

\* The numbers of EgressStatus.  STARTING goes the way of ACTIVE (as a zero it is
\* even stored as the default of the column, which is ACTIVE), and ABORTED goes the
\* way of FAILED.  A recording that meets a limit has a file as a complete one has.
Absent        == 0
ACTIVE        == 1
ENDING        == 2
COMPLETE      == 3
FAILED        == 4
LIMIT_REACHED == 6
InProgress(status) == status \in ACTIVE..ENDING
Terminal(status)   == status >= COMPLETE

Jobs == Calls \cup {Hook}
Info == [status : ACTIVE..LIMIT_REACHED, file : BOOLEAN]

\* "then" is where a call goes on when the recording turns out to be over.
JobType ==
  [at : {"idle", "acquire", "again", "launch"}]
  \cup [at : {"reconcile"}, of : Egresses, info : Info, then : {"acquire", "launch", "idle"}]
  \cup [at : {"read", "settle"}, of : Egresses, info : Info]
  \cup [at : {"save", "backfill"}, of : Egresses, info : Info, seen : Absent..LIMIT_REACHED]
  \cup [at : {"undo"}, of : Egresses]

RecordingTypeOK ==
  /\ egress \in [Egresses -> Absent..LIMIT_REACHED]
  /\ listed \subseteq Egresses /\ files \subseteq Egresses /\ told \subseteq Egresses
  /\ hooks \subseteq [of : Egresses, info : Info]
  /\ left \in [egresses : Nat, hooks : Nat]
  /\ row \in [Egresses -> [status : Absent..LIMIT_REACHED, file : BOOLEAN]]
  /\ lock \in Calls \cup {Unlocked}
  /\ job \in [Jobs -> JobType] /\ strayed \in BOOLEAN

RecordingInit ==
  /\ egress = [e \in Egresses |-> Absent]
  /\ listed = {} /\ files = {} /\ hooks = {} /\ told = {}
  /\ left \in Bounds
  /\ row = [e \in Egresses |-> [status |-> Absent, file |-> FALSE]]
  /\ lock = Unlocked
  /\ job = [j \in Jobs |-> [at |-> "idle"]] /\ strayed = FALSE

JobAt(j, place) == job[j].at = place
Of(j) == job[j].of
Turn(j, next) == job' = [job EXCEPT ![j] = next]

\* A call returns and releases its lock; the handler takes the next event.
Finish(j) ==
  /\ Turn(j, [at |-> "idle"])
  /\ lock' = IF lock = j THEN Unlocked ELSE lock

-----------------------------------------------------------------------------
(* LiveKit. *)

Reach(e, status, file) ==
  /\ egress' = [egress EXCEPT ![e] = status]
  /\ hooks' = hooks \cup {[of |-> e, info |-> [status |-> status, file |-> file]]}

\* An egress goes on, comes to its end, fails or meets a limit.
Advance(e) ==
  /\ InProgress(egress[e])
  /\ \E status \in {egress[e] + 1, FAILED, LIMIT_REACHED} : Reach(e, status, FALSE)
  /\ UNCHANGED <<strayed, left, listed, files, row, lock, job, told>>

\* egress_ended names the file; egress_updated has announced the end before.
FileReady(e) ==
  /\ egress[e] \in {COMPLETE, LIMIT_REACHED} /\ e \notin files
  /\ files' = files \cup {e} /\ Reach(e, egress[e], TRUE)
  /\ UNCHANGED <<strayed, left, listed, row, lock, job, told>>

Forget(e) ==
  /\ e \in listed /\ (e \in files \/ egress[e] = FAILED)
  /\ listed' = listed \ {e}
  /\ UNCHANGED <<strayed, left, egress, files, hooks, row, lock, job, told>>

-----------------------------------------------------------------------------
(* The table of recordings. *)

\* GetActiveRecordingByMeeting finds the newest row in progress; here it may be any.
FindsActive(e) == InProgress(row[e].status)
FindsNone == \A e \in Egresses : ~FindsActive(e)

\* UpdateRecordingStatus: only a row in progress, and only forward.
Advanced(e, info) ==
  IF InProgress(row[e].status) /\ row[e].status < info.status
  THEN [row EXCEPT ![e] = [status |-> info.status, file |-> @.file \/ info.file]]
  ELSE row

\* Mutant: the update does not look whether the row is still in progress.
RefreshedAnyway(e, info, seen) ==
  IF info.status > seen THEN [row EXCEPT ![e].status = info.status] ELSE row

\* The status is compared with what was read, the row must be in progress now.
Refreshed(e, info, seen) ==
  IF InProgress(row[e].status) /\ info.status > seen
  THEN [row EXCEPT ![e].status = info.status] ELSE row

\* The second half of SaveRecordingStarted; an insert that meets a row of the same
\* egress leaves it as it is.
SavedRow(e, info, seen) ==
  IF seen # Absent THEN Refreshed(e, info, seen)
  ELSE IF row[e].status = Absent THEN [row EXCEPT ![e].status = info.status] ELSE row

-----------------------------------------------------------------------------
(* activeRecording and reconcileRecordingState. *)

\* What ListEgress says of e: an egress that is not listed any more counts as failed.
Listing(e) == IF e \in listed THEN [status |-> egress[e], file |-> e \in files]
                              ELSE [status |-> FAILED, file |-> FALSE]

\* The row is looked up and ListEgress asked; of the row only the id is used again.
\* When nothing has changed there is nothing to write, and the call is over.
ListEgress(c, e, then) ==
  /\ FindsActive(e)
  /\ IF Listing(e).status = row[e].status THEN Finish(c)
     ELSE UNCHANGED lock /\ Turn(c, [at |-> "reconcile", of |-> e, info |-> Listing(e), then |-> then])

\* The two checks of StartMeetingRecord, before and under the lock.
ActiveRecording(c, place, then) ==
  /\ JobAt(c, place)
  /\ \/ FindsNone /\ Turn(c, [at |-> then])
        /\ UNCHANGED lock
     \/ \E e \in Egresses : ListEgress(c, e, then)
  /\ UNCHANGED <<strayed, left, livekit, row, told>>

\* Idle goroutines are interchangeable.
Free(c) == JobAt(c, "idle") /\ c = CHOOSE d \in Calls : JobAt(d, "idle")

StartMeetingRecord(c) == Free(c) /\ ActiveRecording(c, "idle", "acquire")

CheckAgain(c) == ActiveRecording(c, "again", "launch")

GetMeetingRecordState(c, e) ==
  /\ Free(c) /\ ListEgress(c, e, "idle")
  /\ UNCHANGED <<strayed, left, livekit, row, told>>

\* Mutant: a recording that has ended is not written down.
ReconcileForgets(c) ==
  /\ JobAt(c, "reconcile")
  /\ IF InProgress(job[c].info.status)
     THEN row' = Advanced(Of(c), job[c].info) /\ Finish(c)
     ELSE UNCHANGED <<row, lock>> /\ Turn(c, [at |-> job[c].then])
  /\ UNCHANGED <<strayed, left, livekit, told>>

\* A recording still in progress is returned, and the call is over.
Reconcile(c) ==
  /\ JobAt(c, "reconcile")
  /\ row' = Advanced(Of(c), job[c].info)
  /\ IF InProgress(job[c].info.status) THEN Finish(c)
     ELSE Turn(c, [at |-> job[c].then]) /\ UNCHANGED lock
  /\ UNCHANGED <<strayed, left, livekit, told>>

-----------------------------------------------------------------------------
(* StartMeetingRecord from the lock on. *)

\* Mutant: without the second check.
AcquireOnce(c) ==
  /\ JobAt(c, "acquire")
  /\ IF lock = Unlocked THEN lock' = c /\ Turn(c, [at |-> "launch"]) ELSE Finish(c)
  /\ UNCHANGED <<strayed, left, livekit, row, told>>

\* Whoever does not get the lock gives up.
Acquire(c) ==
  /\ JobAt(c, "acquire")
  /\ IF lock = Unlocked THEN lock' = c /\ Turn(c, [at |-> "again"]) ELSE Finish(c)
  /\ UNCHANGED <<strayed, left, livekit, row, told>>

\* StartEgress, as long as there are egresses; its answer may be lost.
Launch(c) ==
  LET new == {e \in Egresses : egress[e] = Absent}  e == CHOOSE n \in new : TRUE
      info == [status |-> ACTIVE, file |-> FALSE]
  IN
  /\ JobAt(c, "launch")
  /\ IF new = {} \/ left.egresses = 0 THEN Finish(c) /\ UNCHANGED <<egress, hooks, listed, left, strayed>>
     ELSE /\ left' = [left EXCEPT !.egresses = @ - 1]
          /\ Reach(e, ACTIVE, FALSE) /\ listed' = listed \cup {e}
          /\ \/ Turn(c, [at |-> "read", of |-> e, info |-> info]) /\ UNCHANGED <<lock, strayed>>
             \/ Finish(c) /\ strayed' = TRUE
  /\ UNCHANGED <<files, row, told>>

\* The first half of SaveRecordingStarted, for a call or the handler.
Read(j) ==
  LET seen == row[Of(j)].status IN
  /\ JobAt(j, "read")
  /\ IF Terminal(seen) THEN Finish(j)
     ELSE Turn(j, [at |-> "save", of |-> Of(j), info |-> job[j].info, seen |-> seen])
          /\ UNCHANGED lock
  /\ UNCHANGED <<strayed, left, livekit, row, told>>

Save(j) ==
  /\ JobAt(j, "save")
  /\ row' = SavedRow(Of(j), job[j].info, job[j].seen) /\ Finish(j)
  /\ UNCHANGED <<strayed, left, livekit, told>>

\* StopEgress for the egress that could not be saved; its error is only logged.
Undo(c) ==
  /\ JobAt(c, "undo") /\ Finish(c)
  /\ \/ egress[Of(c)] = ACTIVE /\ Reach(Of(c), ENDING, FALSE)
     \/ UNCHANGED <<egress, hooks>>
  /\ UNCHANGED <<strayed, left, listed, files, row, told>>

\* The database, redis or LiveKit answers with an error, and nothing was done.
Fails(j) ==
  /\ \/ /\ job[j].at \in {"reconcile", "acquire", "again", "launch", "settle", "backfill"}
        /\ Finish(j) /\ UNCHANGED strayed
     \/ job[j].at \in {"read", "save"} /\ j = Hook /\ Finish(j) /\ UNCHANGED strayed
     \/ /\ job[j].at \in {"read", "save"} /\ j \in Calls
        /\ Turn(j, [at |-> "undo", of |-> Of(j)]) /\ UNCHANGED lock /\ strayed' = TRUE
  /\ UNCHANGED <<left, livekit, row, told>>

-----------------------------------------------------------------------------
(* StopMeetingRecord: a StopEgress that fails is followed by a reconciliation. *)

StopMeetingRecord(c, e) ==
  /\ Free(c)
  /\ \/ FindsActive(e) /\ egress[e] = ACTIVE /\ Reach(e, ENDING, FALSE) /\ UNCHANGED <<job, lock>>
     \/ ListEgress(c, e, "idle") /\ UNCHANGED <<egress, hooks>>
  /\ UNCHANGED <<strayed, left, listed, files, row, told>>

-----------------------------------------------------------------------------
(* handleEgress. *)

HandleEgress(hook) ==
  /\ hook \in hooks /\ JobAt(Hook, "idle")
  /\ left.hooks > 0 /\ left' = [left EXCEPT !.hooks = @ - 1]
  /\ Turn(Hook, [at |-> IF Terminal(hook.info.status) THEN "settle" ELSE "read",
                 of |-> hook.of, info |-> hook.info])
  /\ UNCHANGED <<strayed, livekit, row, lock, told>>

\* The file of a complete recording.
NamesFile(info) == info.file /\ info.status = COMPLETE

\* The event that names the file was handled, and there was a row when it came.
Tells(e, seen) ==
  told' = IF NamesFile(job[Hook].info) /\ seen # Absent THEN told \cup {e} ELSE told

\* Mutant: a row that has ended before is left as it is.
HandleTerminalOnce(e) ==
  /\ JobAt(Hook, "settle") /\ e = Of(Hook)
  /\ row' = Advanced(e, job[Hook].info) /\ Finish(Hook) /\ Tells(e, row[e].status)
  /\ UNCHANGED <<strayed, left, livekit>>

\* handleEgressTerminal; when no row was updated and the file of a complete
\* recording is known it goes on.
HandleTerminal(e) ==
  /\ JobAt(Hook, "settle") /\ e = Of(Hook)
  /\ row' = Advanced(e, job[Hook].info)
  /\ IF ~FindsActive(e) /\ NamesFile(job[Hook].info)
     THEN /\ Turn(Hook, [at |-> "backfill", of |-> e, info |-> job[Hook].info, seen |-> row[e].status])
          /\ UNCHANGED <<lock, told>>
     ELSE Finish(Hook) /\ Tells(e, row[e].status)
  /\ UNCHANGED <<strayed, left, livekit>>

\* BackfillRecordingFile.
Backfill(e) ==
  /\ JobAt(Hook, "backfill") /\ e = Of(Hook)
  /\ row' = [row EXCEPT ![e].file = @ \/ row[e].status = COMPLETE]
  /\ Finish(Hook) /\ Tells(e, job[Hook].seen)
  /\ UNCHANGED <<strayed, left, livekit>>

-----------------------------------------------------------------------------

SaveStep(j) == Read(j) \/ Save(j)
CallStep(c) == Acquire(c) \/ CheckAgain(c) \/ Launch(c) \/ SaveStep(c) \/ Undo(c)
HookStep == SaveStep(Hook) \/ \E e \in Egresses : HandleTerminal(e) \/ Backfill(e)

RecordingNext ==
  \/ \E e \in Egresses : Advance(e) \/ FileReady(e) \/ Forget(e)
  \/ \E c \in Calls : \/ StartMeetingRecord(c) \/ CallStep(c) \/ Reconcile(c)
                      \/ \E e \in Egresses : GetMeetingRecordState(c, e) \/ StopMeetingRecord(c, e)
  \/ \E hook \in hooks : HandleEgress(hook)
  \/ HookStep \/ \E j \in Jobs : Fails(j)

RecordingSpec == RecordingInit /\ [][RecordingNext]_recordingVars

\* LiveKit ends every recording some time, somebody asks for the state of the
\* recording again and again, and LiveKit and the database do not fail for ever.
\* No webhook has to arrive.
RecordingFairness ==
  /\ \A e \in Egresses : WF_recordingVars(Advance(e))
  /\ SF_recordingVars(\E c \in Calls, e \in Egresses : GetMeetingRecordState(c, e))
  /\ SF_recordingVars(\E c \in Calls : Reconcile(c))
  /\ \A c \in Calls : WF_recordingVars(CallStep(c))
  /\ WF_recordingVars(HookStep)

-----------------------------------------------------------------------------
(* Properties. *)

\* A meeting is recorded once at a time, whatever calls and webhooks interleave
\* (activeRecording: "one at a time"), as long as nobody outlives the lock's TTL and no
\* start fails after its egress has begun: by the lost answer of StartEgress, or because
\* the row cannot be saved.  Then the egress is stopped, and yet a late webhook brings
\* a row for it that hides the row of the next recording from a check.
OneRecording ==
  ~strayed => \A d, e \in Egresses :
    egress[d] = ACTIVE /\ egress[e] = ACTIVE => d = e

\* A recording that has ended in the database keeps its status and its file, although
\* everything written rests on something read before ("never back from a final
\* status" in the comments of SaveRecordingStarted and UpdateRecordingStatus).
FinalStays ==
  [][\A e \in Egresses : /\ Terminal(row[e].status) => row'[e].status = row[e].status
                         /\ row[e].file => row'[e].file]_row

\* A complete recording has its file once the event that names it was handled,
\* although another one, or a reconciliation, has announced the end before it.  (The
\* code promises it of COMPLETE only: the file of a recording that met a limit is
\* lost when its end was announced before it.)
FileArrives == \A e \in told : row[e].status = COMPLETE => row[e].file

\* Every recording in the database ends there once it has ended at LiveKit, be its
\* webhooks lost, late or repeated.
RowsSettle == <>[](\A e \in Egresses : egress[e] > ENDING => ~FindsActive(e))
=============================================================================
