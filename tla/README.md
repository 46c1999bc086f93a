# zero-service: a TLA+ verification project

TLA+ models of the concurrent core of zero-service, the TLC runs that check them
on small instances, and TLAPS proofs of what matters most for every instance.
The code is the reference: every definition is translated from it, and
`PROJECT.json` names, definition by definition, the lines it stands for
(`map`), the runs, the hazards and what each theorem establishes.

    tlc -workers 2 -config CronPoints.cfg MCCronTask     # one run, see "Runs"
    tlapm GnetxClientProofs.tla                          # the proofs of a module

Contents: [the system](#the-system), [modules](#modules-and-the-code),
[runs](#runs), [fairness](#fairness-and-assumptions), [findings](#findings),
[schedules outside the runs](#schedules-found-outside-the-runs), [proofs](#proofs), [what is left out](#what-is-not-modelled), [plan](#plan).

## The system

zero-service is a collection of go-zero micro-services: a scheduler and plan
engine, industrial and media protocol gateways, message bridges, and the shared
libraries under `common/` they are built from. Most services pass a request on;
the state worth verifying is in the components below. The components that keep
no protocol state of their own are in `PROJECT.json` with the reason.

### CronJob scheduler (`common/crontask`, `app/trigger/internal/cronjob`)

*State*: a row per job in `cron_job` (status, rule, `next_run`,
`scheduled_time`), shared by any number of scheduler instances; in each
instance a scan loop and one goroutine per run. *Operations*: `LockAndFetch`
claims a due job by a compare-and-set on `next_run`, which then holds the
expiry of the lease; `executeTask` checks for a misfire, calls the handler and
`Complete`s by a second compare-and-set; operators create, update, enable,
disable, delete and run jobs. *Interaction*: through the table only, and with
downstream services through the handler. *Hard*: one column is planned point
and lease token at once; SELECT and UPDATE are separate statements; handlers
outlive leases; instances crash; operators write while runs are in flight.
*Correct when*: leases of a job do not overlap, only the holder of the current
claim completes, and no planned point is lost or repeated.

### Plan engine (`app/trigger/cron`, `model/gormmodel/plan.go`, plan RPCs)

*State*: rows of a plan, its batches and execution items, with a version
column; a redis lock per item; a task runner per instance. *Operations*: scan
loops claim due items (optimistic lock) and call downstream; downstream answers
at once or by `CallbackPlanExecItem`; failures are retried with a backoff up to
a limit; whoever ends an item tries to close its batch and the plan and to
announce it; operators pause, resume, run and terminate at three levels. *Hard*:
a claim lapses under a slow call and is given to another dispatcher; every
status change is a statement of its own; operators read a row, check it and
save all of it later; closing is three statements in which a process can die.
*Correct when*: calls of an item never overlap, ended items stay ended, a closed
parent has nothing open below it and is announced once, and everything ends.

### Reply pool (`common/antsx/replypool.go`, `promise.go`)

*State*: a mutex-guarded map from ids to promises and one timing wheel.
*Operations*: `Register`, `Resolve`, `Reject`, the timeout callback, `Close`.
*Interaction*: used by gnetx, mqttx and the IEC 104 client to match replies to
requests. *Hard*: the wheel and the promises are touched after the unlock, so
timer, reply, failure and `Close` interleave. *Correct when*: a promise somebody
waits on is always going to be settled, once, and with its own reply.

### gnetx client and server (`common/gnetx`)

*State*: the client has one current session, a closed flag, a reconnecting flag
and a reply pool shared by all its sessions; the server has maps of sessions by
session id and client id. *Operations*: dial, `OnOpen`, `OnTraffic`, `OnClose`,
reconnect loop, `Request`, `WriteAsync`, `Shutdown`; on the server `add`,
`bindClientID`, `remove` and the idle sweeper. *Interaction*: callbacks run on
gnet's event loop, the rest in goroutines of the callers; `common/isp` is built
on it. *Hard*: loss during a dial, shutdown during a dial, requests that outlive
their connection, ids that start again with every session; on the server a
session displaced while it is being announced. *Correct when*: one connection
at a time, every request returns, replies are not mixed up, nothing is left
after `Shutdown`, and a lost connection is dialled again.

### IEC 104 commands (`common/iec104/client`, `app/ieccaller/internal/iec`)

*State*: commands that wait for the station's confirmation, in a reply pool
under `coa:type:ioa`. *Operations*: `sendWithAck` registers and writes,
`onCommandAck` resolves or rejects in a task runner's goroutine, timers, `Close`.
*Hard*: every further command to a target uses its id again, a confirmation
names nothing but the target, a station confirms twice, and the pool stops
timers by id after its unlock. *Correct when*: a command gets its own
confirmation, expires by itself and leaves its target free.

### mqttx client (`common/mqttx/client.go`)

*State*: handlers by topic, the set of subscribed topics, a ready flag, one
mutex held across a subscription. *Operations*: `AddHandler`, `onConnect` with
`restoreSubscriptions`, `onConnectionLost`, `Close`. *Interaction*: paho runs the
callbacks in goroutines of their own. *Hard*: a connection lost and found again
under a running restoration; handlers added meanwhile. *Correct when*: after a
reconnect every topic with a handler is subscribed.

### antsx emitter, unbounded channel and Invoke (`common/antsx`)

*State*: subscribers of a topic with a mutex, a flag and a bounded stream each; a
queue behind a mutex and a condition variable; tasks on a goroutine pool with a
`WaitGroup`, a `Once` and a context. *Operations*: `Subscribe`, cancel, `Emit`,
`Close`; `Send`, `Receive`, `ReceiveContext`, `Close`; `InvokeWithReactor`,
`InvokeAllSettledWithReactor`. *Hard*: a stream is closed while somebody writes to
it; wakeups and ends of contexts meet; the pool refuses a task in the middle of a
fan-out. *Correct when*: nothing is sent on a closed stream, no wakeup is lost,
every call returns and answers for every task.

### Live recordings (`app/live`)

*State*: a table of recordings, a redis lock per meeting, egresses at LiveKit.
*Operations*: `StartMeetingRecord`, `StopMeetingRecord`, `GetMeetingRecordState`,
the reconciliation with `ListEgress`, `handleEgress` for webhooks. *Hard*: all of
them write the same row after reading it, webhooks come never, twice or in any
order, a start can fail after its egress has begun. *Correct when*: one recording
of a meeting at a time, an end is final and has its file, and every recording
that has ended is closed in the table.

### Not modelled yet, and worth a module

| component | state and operations | hard, and correct when |
|---|---|---|
| ISP client (`common/isp/client.go`) | registration, heartbeat and requests over gnetx | what a session registered must not outlive it; execution only on the registered session |
| socketiox (`common/socketiox`) | sessions and rooms, hooks that call other services | a socket that has gone is not a session |
| live meetings (`app/live`) | meetings and participants in tables against webhooks | webhooks out of order and repeated converge |
| asynq tasks (`app/trigger/internal/task`) | queue, retry and archive in redis | a task is delivered until it succeeds or is archived |

## Modules and the code

| module | models | lines of thought |
|---|---|---|
| `CronTask` | `crontask.go`, `db_store.go`, `schedule.go`, the CronJob RPCs | extends nothing of the project; instantiates `JobLease` |
| `JobLease` | what `LockAndFetch`/`Complete` promise (`crontask/store.go`) | abstract specification, implemented by `CronTask` |
| `PlanExec` | `cronservice.go`, `plan.go`, the ten plan RPCs and the callback | rows, locks, dispatchers and calls |
| `PendingReplies` | what the pool promises its users (comments of `replypool.go`) | abstract specification, implemented by `ReplyPool` in both modules that use it |
| `ReplyPool` | `antsx/replypool.go` | state and operations only, no `Next`: to be composed; instantiates `PendingReplies` |
| `GnetxClient` | `gnetx/client.go`, `session.go`, `isp.Client.requestOnSession` | extends `ReplyPool` |
| `SessionRegistry` | what the session manager promises (comments of `session.go`) | abstract specification, implemented by `GnetxServer` |
| `GnetxServer` | `gnetx/server.go`, `session.go`, `idle.go` | connections, manager, listener and their threads |
| `IecCommands` | `iec104/client/core.go`, `clienthandler.go` | extends `ReplyPool`: the same pool under ids that come back |
| `MqttClient` | `mqttx/client.go` | the client, paho and the broker |
| `Emitter`, `UnboundedChan`, `Invoke` | `antsx/emitter.go`, `unbounded.go`, `invoke.go` | one module each, nothing shared |
| `MeetingRecording` | the recording calls of `app/live`, `meetingrepo.go`, the webhook handler | table, lock, LiveKit, calls and handler |
| `MC...` | | constants and symmetry for TLC; `MCLibraries` and `MCApplications` put modules that share no state side by side |
| `...Proofs` | | TLAPS proofs about the module of the name; `LibrariesProofs` about channel, `Invoke`, emitter, `MqttClient` and `MCLibraries`, `ApplicationsProofs` about `IecCommands` and `MCApplications` |

The grain of atomicity is the same everywhere: one statement sent to the
database, one critical section of a mutex, one call to another process, or one
assignment other goroutines can see is one action. Between two actions of a
goroutine everything else may move.

### CronTask

`job` is the table (`next` is `next_run`, `sched` is `scheduled_time`, 0 is
NULL), `scan[i]` the row an instance has SELECTed but not yet UPDATEd, `work[w]`
the stage of a handler goroutine, `admin[a]` what `Enable` or `UpdateCronJob` has
read. `holder` and `served` are histories, read by properties only.

- `ScanSelect`/`ScanClaim`/`ScanLost`: the two statements of `LockAndFetch`. All
  that a claim carries, the rule included, comes from the row that was read.
- `StartTask`, `HandlerSucceeds`, `HandlerDeletes`, `CompleteOK`, `CompleteLost`,
  `Abandon`: `executeTask`. A skipped misfire goes on to `Complete` too.
  `Abandon` is every way in which a goroutine ends without completing.
- `Create`, `UpdateRead`/`UpdateStore`, `EnableRead`/`SetEnabled`, `Disable`,
  `Delete`, `RunNow`/`RunNowDone`: the RPCs.
- `FirstRun`, `NextAfter`, `ComputeNextRun`: the schedule. The rule compiler is
  abstracted to the set of its points; which of them is chosen is kept.

### PlanExec

`plan`, `batch`, `item` are the rows; `lock` the redis lock of an item ("left":
nobody works under it any more, its release or the end of its TTL is to come; the
reader of an answer and the deferred release run side by side); `disp[d]` a run of `ScanPlanExecItem`, `call[c]` an RPC in
flight, `tail[p]` how far a process is with closing. Each RPC of the service is
an action of its name; the ones that read, check and save are that action and
`SaveItem`/`SavePlan`/`SaveBatch`, `Terminate...Count` and `...Commit` are the
two statements of the terminating transactions.

- Time is abstract: `due` says that `next_trigger_time` has come, `Elapse` lets
  it come at any moment. Backoff lengths and the five-minute claim are instances.
  An ended item is never due.
- `count` is `trigger_count` as far as it decides something: it stays at the last
  value below the limit when downstream puts the item off more often (`Counted`).
- The version column is abstracted to whether a scan's copy is still `fresh`;
  `Touch` clears it on every UPDATE of the row.
- `Save` of gorm: when its versioned UPDATE matches no row it falls back to an
  upsert, so a stale row overwrites the newer one. This is what `SaveItem` does.
- The execution log and `scan_flg` are left out: nothing reads them back.

### ReplyPool and GnetxClient

`pending` is the map, `timers` the wheel, `fired` the callbacks that have not yet
taken the mutex, `taken` the entries that were removed under the mutex but whose
promise is not settled yet, `pool` and `snapshot` the stages of `Close`. A request
`r` stands for its promise too, and a reply for the request it answers.

`PendingReplies` is the pool as its users see it: a request waits alone under its
key until one reply, error, timeout or `Close` finishes it, in one instant and for
good. `ReplyPool` does this in several steps, and the instant is the one in which the
mutex is held: `pending` maps to `waiting`, and `Outcome(r)` is what the promise was
settled with or is bound to be settled with, once the entry was taken out (`taken`) or
copied by `Close` (`snapshot`). `PoolImplemented` says that every step of a program
that uses the pool is one step of `PendingReplies` or none.

`conn` is gnet's view of a connection ("lost": `OnClose` is to come), `shut` the
closed flag of a session, `sess` the current session, `rec` the reconnect
goroutine (its `reconnecting` flag is true while `rec # "none"`), `down` the
stage of `Shutdown`, `req` the stage of every call of `Request`.

- `OnOpen` runs inside `DialContext`, so `Open` is part of `FirstDialOK`/`DialOK`.
- Event-loop callbacks exclude each other: `LoopFree`.
- `Draw` is `Client.Session` and the sequence number that `isp.Client` takes as
  transaction id; `Enter`, `Register`, `StartTimer`, `Send`/`SendFails`,
  `RejectOwn`, `Await`, `Cancel` are the steps of `session.Request`.
- `Fresh` and the choice in `Draw` take interchangeable connections and requests
  in a fixed order; this only breaks symmetry.

### SessionRegistry and GnetxServer

The registry says three things: a session joins once, takes a client id over and
by that displaces who had it, leaves and does not come back. In `GnetxServer`
`conn` is gnet's view of a connection, `bySession`, `byClient`, `client` and `shut`
are what the manager's mutex guards, `once` is the `closeOnce` of a session,
`task[t]` what the event loop of a connection or a goroutine is about to do, and
`heard` the listener's events, a history.

- `OnOpen`, `Bind` and `Remove` are the critical sections of `add`,
  `bindClientID` and `remove`; `Created`, `Registered`, `Destroyed` the calls of
  the listener after the unlock; `Enter`, `HangUp` the rest of `Close`.
- `Dispatch` is a message whose handler binds or closes its session, `Sweep` the
  sweeper, `Shutdown`/`EngineStopped`/`ShutdownTimesOut` the server's end.
- The refinement maps the registry's `live` to what `All` finds, `gone` to the
  closed flags and `owner` to `GetByClientID`.

### IecCommands

`cmd` is the stage of every call of `sendWithAck`, `station` what the station has
said to a command, `acks` the confirmations on the wire or past the check of
`HasCommandAck`. The pool is `ReplyPool`, unchanged: its keys are targets here.
A caller sends its next command whenever the target is not waiting, also between
the two confirmations of the last one. `crossed` is a history: the commands that
were registered while the timer of an earlier entry of their target was still to
be removed, so that the removal may meet their own.

### MqttClient

`link`, `granted`, `losses` belong to paho and the broker: the connection, the
subscriptions it has, the lost-callbacks to come. `subscribed` is the client's
set, `asked` the subscription the mutex is held for, `work[g]` the stage of a
callback or of `AddHandler`. `ConnectionLost` and `Connected` are paho's; a
connection may come up before the callback of a loss before it has run, and
`overtaken`, a history, says that this one did.

### Emitter, UnboundedChan, Invoke

The emitter keeps of a stream how many values it holds and whether it is closed;
`call[t]` is the rest of the list a call of `Emit`, cancel or `Close` has copied,
`mutex[s]` who holds the mutex of a subscriber while it waits for room. A reader
reads to the end of its stream, closes its own end (`CloseReader`), which releases a
send that waits for room (`SendRefused`), or just stops reading (`Leave`).
`UnboundedChan` keeps of the values their number; a receiver is `test`ing its
loop condition, holds the mutex up to `Wait`, or is asleep; `watcher` is the
goroutine of `ReceiveContext`, and `WakeAll` its broadcast, which takes no mutex.
`Invoke` is one call of either function: `caller` is its stage, `turn` the task to
submit, `job`, `fault` and `slot` the tasks, their errors and the results;
`errOnce` is "inside" between keeping the first error and the cancel.

### MeetingRecording

`egress`, `listed`, `files`, `hooks` are LiveKit's; `row` is the table, `job[j]` what
a call or the webhook handler has read and is about to write. STARTING is taken
with ACTIVE and ABORTED with FAILED, as the code treats them alike. LIMIT_REACHED
is an end with a file of its own, which comes with its event but is never
backfilled: `NamesFile` holds of COMPLETE only. `strayed` records a start that failed after its egress had begun, `told`
the egresses whose last event was handled; both are histories.

- `ActiveRecording` is the check of a start, before and under the lock, with
  `ListEgress` and `Reconcile` the halves of `reconcileRecordingState`.
- `Launch` is `StartEgress`, whose answer may be lost; `Read` and `Save` are
  `SaveRecordingStarted`, for calls and webhooks; `Undo` stops the egress of a
  start that could not be saved; `Fails` is an error of any call.
- `HandleTerminal` and `Backfill` are the events of an end and of its file.

## Runs

No run checks for deadlock: every model has bounded clocks, faults or calls,
and really stops when they are used up (a client that is shut down, an
ended plan). A bound is a constant; `Max...` constants are guards in the model.

| run | question | bounds, and why they are enough |
|---|---|---|
| `cron_points` | Is `JobLease` implemented, so that leases never overlap; does a stale run complete, is a point lost or repeated? | 1 job, 2 instances, 2 goroutines, 1 operator with 2 calls, 1 crash, 5 time units; three configurations, one skipping misfires, one one-shot. Jobs share nothing but scan order. A lease is 1 or 2 units, so leases expire under runs, are taken over and completed late. 614,510 states |
| `cron_recovery` | Is every due point served in spite of crashes? | the same without operators, 2 crashes up to time 4, 7 units so that the last retry fits; tokens off the plan. 20,382 states |
| `cron_stale_completion` | Can a run complete another's claim? (yes: finding) | 1 instance, 3 calls: disable, enable, update |
| `plan_rows` | Overlapping calls, revived items, early or repeated closing? | 2 items of a batch, 2 dispatchers, 2 RPC calls of any kind: a callback and an operator, or two operators. Faults off, the first failure ends an item: retries only repeat what one claim does; "delayed" and "ongoing" may be answered without limit. 2,365,178 states |
| `plan_live` | Does everything end? | 2 items, 2 dispatchers, a limit of 2, one fault (crash, failed call or lost event), no operator. How often downstream answers "failed" is not bounded by the run: the limit of the code alone ends such an item. 323,203 states |
| `plan_stale_save` | Is an ended item final whatever operators do? (no: finding) | 1 item, 1 dispatcher, 1 RPC |
| `gnetx_client` | One connection, own answers, no forgotten waiter, clean shutdown, is a request finished once and in one instant, and does every request return? | 2 requests, 2 connections with 2 ids each, 1 fault; shutdown at any moment. Two sessions are needed for ids to repeat, two requests for one to disturb the other. 213,664 states. With 2 faults it holds as well |
| `gnetx_reconnect` | Is a lost connection always dialled again? (no: finding) | 3 connections, 1 request, 2 faults |
| `libraries` | gnetx server: does a displaced session stay away, is the listener right, is a stopped server empty, is every closing finished? mqttx: is everything subscribed? emitter, channel, Invoke: do calls wait for each other in a ring, does every call return, is a wakeup or an error lost? | 2 sessions, 1 goroutine beside their event loops, 2 client ids, 2 events; 2 topics, 1 configured, 1 caller of `AddHandler`, 2 connections; 2 values, 2 subscribers, streams of 1; 2 receivers, 2 values; 3 tasks on a pool of 2. Displacement takes two sessions and a third party that closes one; a reconnect takes two connections; a full stream takes two values and room for one; a signal goes astray with two receivers; with 3 tasks on a pool of 2 one waits for a slot while another fails. Readers may leave or close, a connection may overtake a loss. 631,585 states |
| `emitter_left_reader` | Does a send only ever wait for a while? (no: finding) | 2 values, 1 subscriber, a stream of 1 |
| `applications` | IEC 104: is a command decided once, has every entry a timer, is every target free again? recordings: one at a time, is an end final, with its file, and reached? | 2 commands, 2 targets; 2 calls, and either 1 egress with 2 webhooks (two events over one row) or 2 egresses without (two starts). With both, and with 3 egresses, the safety properties hold as well in longer runs. 503,926 states |
| `iec_lost_timer` | Does every entry expire by itself? (no: finding) | 2 commands, 1 target |

The parts of `libraries` and of `applications` share no state: `part` chooses one of them in the
initial state and nothing else moves in that behaviour, so each property is
checked of its part as if alone. Properties of temporal logic are fulfilled at once
by the parts that stand still.

What the properties say is written above each definition. In short:

- `LeaseImplemented`, `OnlyHolderCompletes`, `PlanPointsServedInOrder`,
  `ClaimSeesCurrentPoint`, `PointsEventuallyServed`.
- `ExecutionExclusive`, `EndedIsFinal`, `FinishedMeansDone`, `AnnouncedOnce`,
  `PlanEnds`.
- `OneConnection`, `OwnAnswer`, `WaitersTended`, `ClosedClean`, `PoolImplemented`,
  `RequestsEnd`.
- `RegistryImplemented`, `ListenerCatchesUp`, `StoppedEmpty`, `ClosingsSeenThrough`,
  `ClosedForGood`; `HandlersSubscribed`, `SubscriptionsRestored`; `EmitterLocks`
  (`NoSendOnClosed` and `WaitsEndAtReader`), `SubscribersServed`, `EmitterSettles`;
  `NoSleepOverValues`; `InvokeAnswers`.
- `EntriesExpire`, `TargetsFreed`, and again `PoolImplemented`; `OneRecording`,
  `FinalStays`, `FileArrives`, `RowsSettle`.
- Expected to be violated: `NoForeignCompletion`, `EndedIsFinal`, `Reconnects`,
  `BoundedWaiting`, `EveryEntryExpires`, each in the run that leaves out the
  assumption or the exception needed otherwise.

Every property of a passing run has a mutant: a variant of a mapped definition
with a plausible bug (a dropped comparison, a wrong reset, a forgotten copy)
under which TLC finds the property violated.

## Fairness and assumptions

Safety of `CronTask` is checked under `DisciplinedSpec`, which adds to the code
three assumptions; without the first and without the third a claim is completed or
taken wrongly, see [findings](#findings) and [schedules](#schedules-found-outside-the-runs):

1. *Quiet*: a job is not re-enabled while one of its runs is in flight.
2. *Timely*: the UPDATE of a claim arrives before the lease it takes expires.
3. *Off plan*: a lease token is never itself a planned point.

`LeaseImplemented` needs the first only (it is proved from `QuietSpec`).

- `CronTask!FairSpec`: scan loops and goroutines go on; the clock advances, but
  not past a due job that an idle scan loop and a free goroutine could take (the
  loop polls every two seconds, a lease lasts at least thirty). Scans whose token
  would be a planned point come a little later (`OffPlanSelect`): what such a
  token does is the first of the schedules, and it can lose a point for good. Nobody has
  to crash or answer `ErrDeleteTask`. `PointsEventuallyServed` asks for more than
  that the point is gone: it was handled, or reported as skipped.
- `PlanExec!FairSpec`: dispatchers, calls in flight and closings go on
  (goroutines and statements end, downstream calls have a timeout), time passes,
  locks that were left go, by their release or their TTL. Callbacks need not arrive.
  `ClosingSpec` rules out in addition that a process dies after the write that
  ends the last item and before the parents are closed: nothing in the code
  repeats the closing then, `PlanEnds` is false, and the code promises nothing
  else. It is listed as a hazard. It also assumes that downstream puts an item off
  ("delayed", "ongoing") finitely often, which nothing in the code limits. How often
  an item may fail is not assumed: that is the code's own limit.
- `PlanExec!SerialSpec`: nothing happens between the read and the save of an
  operator's call. The code does not ensure it; `plan_stale_save` shows the
  consequence.
- `GnetxClient!FairSpec`: the first dial, `OnClose`, the reconnect goroutine,
  `Shutdown`, the steps of a request and timers go on, and a dial succeeds some
  time if it is tried again and again. Nobody has to answer, to cancel, to shut
  down or to lose the connection: `RequestsEnd` rests on the timer alone.

- `ServerFairness`: threads and `OnClose` go on. Nobody has to connect, to send,
  to sweep or to shut down.
- `MqttFairness`: goroutines go on, paho calls `onConnectionLost` and ends every
  wait for an answer (it has a timeout). paho starts the goroutine of a loss and that
  of the next connection independently, so the second may overtake the first:
  `HandlersSubscribed` and `SubscriptionsRestored` except that connection (but not the
  ones after it); what becomes of it is the third of the schedules.
- `EmitterFairness`: goroutines go on, and readers read on as long as they have
  neither left nor closed. One weak fairness condition is enough as every goroutine
  takes finitely many steps. `EmitterSettles` excepts the behaviours in which a reader
  left with its end open; `emitter_left_reader` shows that then calls wait for ever.
- `CommandsFairness`: timers and goroutines go on, nobody has to confirm. Nothing is
  assumed of the callers. `EntriesExpire` and `TargetsFreed` except a command that was
  registered while the timer of an earlier one was to be removed (`crossed`), and
  `iec_lost_timer` shows its fate. That a confirmation names nothing but the target
  is the fourth of the schedules: a command may be accepted on that of another.
- `RecordingFairness`: LiveKit ends every recording, somebody asks for the state
  again and again (strong fairness, as asking and answering may fail in between,
  but not for ever), calls and the handler go on. No webhook has to arrive.
- `OneRecording` assumes that a start does not outlive the 30 seconds of its lock,
  and leaves out the starts that failed with their egress running (`strayed`).
- The channel and `Invoke` are checked for safety only.

## Findings

Five runs are expected to end with a counterexample; each shows a documented
promise the code does not keep, with the lines in `PROJECT.json`.

1. *A stale run completes a new claim* (`cron_stale_completion`): `Complete`
   compares `next_run` only, and operators can bring the same token about again.
2. *A completed item comes back* (`plan_stale_save`): the four item RPCs save the
   row they read before they checked it.
3. *A client that does not reconnect* (`gnetx_reconnect`): `OnClose` of a
   connection that dies before the dialling goroutine has cleared `reconnecting`
   starts nothing, and that goroutine ends.
4. *A cancel that waits for ever* (`emitter_left_reader`): `send` holds the mutex of a
   subscriber while it waits for room, and the cancel needs that mutex. In the
   documented usage the reader itself cancels, in a `defer`, and takes nothing more.
5. *An entry without a timer* (`iec_lost_timer`): a reply takes the entry out under the
   mutex and removes the timer by id behind it; the next command to the target has
   come in between, and its timer is removed. Unless it is confirmed, every later
   command to this target is refused as a duplicate.

## Schedules found outside the runs

TLC found these with a property or a step the runs leave out; each can be seen
again by what is named.

1. *A stale scan puts a completed point back* (`db_store.go:63`). The UPDATE of
   `LockAndFetch` writes `scheduled_time` from the row it read earlier and compares
   `next_run` only. When `Complete` commits in between and the next planned point
   equals the expired token, the claim succeeds: the completed point runs again and
   the new one never does. `ClaimSeesCurrentPoint` under `QuietSpec` with the
   configurations `EverySecond`, 2 instances, no operator and `MaxTime = 4`: 11 states.
2. *A call after termination* (`terminateplanlogic.go:70`). RUNNING items are counted in
   one statement and the parents closed in another; a claim in between passes its own
   check of the parents. `NoCallAfterTermination` under `Spec`, bounds as in
   `PlanStaleSave.cfg`: 9 states.
3. *A reconnect without subscriptions* (`mqttx/client.go:197`). The restoration on the new
   connection finds every topic in the set, and only then the callback of the loss
   empties it: the broker has no subscription, where the comment at line 262 promises
   all of them. `RestoredAfterReconnect` under `MqttSpec`, 2 topics, 2 connections:
   22 states.
4. *The confirmation of another command* (`clienthandler.go:519`). A station confirms at
   the activation and at the termination, and handlers run in goroutines of their own;
   the second confirmation, or one handled late, resolves the next command to the
   target, which then answers with the echo of the one before. `OwnConfirmation` under
   `CommandsSpec`, 2 commands, 1 target: 11 states.
5. *A receiver that is not told of the end of its context*
   (`antsx/unbounded.go:86`). `ReceiveContext` finds the queue empty and `ctx.Err()`
   nil; the context ends; its goroutine broadcasts, without the mutex, and is
   gone; only now the receiver enters `Wait`, and it sleeps until a value is sent
   or the channel is closed. The comment at line 72 says that no goroutine leaks
   when the context is cancelled, the one at line 77 that `Broadcast` takes the
   lock; `sync.Cond` does not. In `UnboundedChan` with weak fairness of the
   receivers' steps and the property `rctx[r] = "ended" ~> rcv[r] = "idle"` the
   counterexample has 6 states. `NoSleepOverValues` holds all the same.
6. *A second recording after a start that could not be saved*
   (`startmeetingrecordlogic.go:138`). A's row is not saved and its egress stopped.
   B starts, and its row is saved. A late webhook of A, still "active", inserts
   A's row: it is the newest. The next check sees this row only
   (`meetingrepo.go:252`), reconciles it as failed and starts C beside B. With
   `strayed` left as it is in the third disjunct of `Fails`, 3 egresses, 2 calls
   and 1 webhook, TLC violates `OneRecording` in 22 states.
7. *A recording nobody knows* (`startmeetingrecordlogic.go:116`): when the answer
   of `StartEgress` is lost its egress is not stopped and has no row before a
   webhook comes; the next start is let through.

## Proofs

TLAPS checks these for every value of the constants, from the named assumptions
of each module.

**CronTaskProofs** (`ConfigsAssumption`, `BoundsAssumption`)

- `TypeCorrect`: `Spec => []TypeOK`, the code with nothing assumed.
- `LeasesNeverOverlap`: `QuietSpec => []LeasesDisjoint`, two runs of a job never hold
  leases that overlap. `LeasesDisjoint` is a consequence of `LeaseImplemented`, which
  the runs check, and part of the invariant behind it. It is not inductive: that the
  new claim may start has to follow from what the row shows. `LeaseInv` adds that (a) as long as a lease has not expired the row shows its
  token and `scheduled_time` is set, (b) nobody runs a job that was never
  created, (c) a row a scan has read was due when it was read. A claim compares
  `next_run` with the value read, which was due; so either the row moved since
  or, by (a), every lease has expired. There is a lemma per group of actions and
  one for the step.
- `LeaseRefinement`: `QuietSpec => LeaseImplemented`. A claim maps to `Acquire`,
  the end of a run to `Release`, the clock to `Tick`, all else to a stutter.
- `HolderCompletes`, `PointsServedInOrder`, `ClaimTakesCurrentPoint`:
  `DisciplinedSpec` implies `OnlyHolderCompletes`, `PlanPointsServedInOrder` and
  `ClaimSeesCurrentPoint`, under all three assumptions of `DisciplinedSpec`. All three ask whether equal values of `next_run` mean
  the same claim. `PlanInv` answers: since no token is a planned point, a row
  tells by `scheduled_time` which of the two `next_run` is (`RowsInv`); a scan
  whose `next_run` is that of the table has read the table's point, even if the
  row moved and came back (`ScansInv`); what an operator is about to write is on
  the plan (`RequestsInv`); and a run whose token is in the row is the last that
  claimed the job and runs for the row's point (`RunsInv`). A new claim cannot
  bring an old token back: by `LeaseInv` the leases before it have expired, and
  its own token lies ahead. The first finding and the first schedule are what is left of
  these theorems when the first or the third assumption is dropped.

**ReplyPoolProofs** (`PoolNames`: requests are told from `None`, "waiting", "closed"
and the errors)

Two halves, neither of which knows who uses the pool.

- *Every operation is a step of `PendingReplies` or none* (`PoolMoveShown`): the
  section in which a reply, an error, the timer or `Close` takes the entry out is
  `Finish` or `CloseAll`, `Insert` is `Begin`, and all that follows the unlock (the
  wheel, the promise) changes nothing a user can see. It needs `PlacedInv`: a
  request whose promise waits is at exactly one place, under one key, taken out by
  one goroutine, or in the copy of `Close`. Without it `Settle` could settle a
  promise somebody else has taken out as well, and `Outcome` would change when
  the second comes. The user's part is that a request is inserted once (`PoolMoves`).
- `RepliesDecidedOnce`: `Replies!PendingSpec` implies `[]HeldOnce` (who waits, waits
  under exactly one key, and nobody in a closed pool) and `DecidedOnce` (how a
  request has ended never changes).

**GnetxClientProofs** (`KeysAssumption`, `BoundsAssumption`, `NamesAssumption`)

- `TypeCorrect`: `Spec => []TypeOK`.
- `RepliesReachTheirRequest`: `Spec => []OwnAnswer`.
- `NobodyForgotten`: `Spec => []WaitersTended`.

The inductive invariant is `PoolInv`: every id is held by one request and is
below the sequence number of its session (`IdsAlone`); every entry, waiting or
taken out, lies under the id of its request, a reply is paired with its own
request only, and a pool that is being closed is empty (`EntriesKeyed`). It is
needed because `Settle` removes a timer by key after the mutex was released:
only since no two requests ever have the same key can this not be the timer of
somebody else. The proof has a lemma per operation of the pool (`TakeOutInv`,
`InsertInv`, `StartTimerInv`, `SettleInv`, `FireInv`, `CloseInv`) and per group
of client steps. Two more follow the connections:

- `OneConnectionAtATime`: `Spec => []OneConnection`. `LinkInv` says who may dial:
  the first dial before anything else, then the reconnect goroutine, which only
  `OnClose` of the last live connection starts; while one of them may dial no
  connection is live, also one that is lost and whose `OnClose` is to come.
- `ShutdownLeavesNothing`: `Spec => []ClosedClean`. `DownInv` follows `Shutdown`:
  a stopped engine has no open connection, and the pool is closed after the last
  `OnClose`; what remains of promises follows from `PoolInv`. A dial that succeeds
  after the session was dropped is covered by the stop of the engine.
- `RequestsDecidedOnce`: `Spec => PoolImplemented`, from `ReplyPoolProofs` and two
  facts: every step of the client is an operation of the pool or leaves it alone
  (`ClientMoves`), and who registers has a promise that was never used (`FreshInv`).

**PlanExecProofs** (`ItemsAssumption`, `BoundsAssumption`, `ProcsAssumption`)

- `TypeCorrect`: `Spec => []TypeOK`.
- `ExecutionsExclusive`: `Spec => []ExecutionExclusive`. The run checks it under
  `SerialSpec`, the theorem holds with operators interleaving as they like and
  with crashes. `ExecutionExclusive` says nothing of locks and is not inductive;
  `LockInv` adds that whoever works on an item finds its lock "held". A process
  begins when the lock is free, so nobody else works on the item
  (`HolderBegins`); a lock is released or left only with the end of its holder's
  work (`HolderEnds`); a lock that goes by itself was "left", not "held". The proof relies
  on the model of the lock service: a lock never expires under a live owner.
- `EndedStaysEnded`, `ClosedWhenDone`, `AnnouncedAtMostOnce`: `SerialSpec` implies
  `EndedIsFinal`, `[]FinishedMeansDone` and `[]AnnouncedOnce`. The three lean on each
  other and are proved with one invariant, `SerialInv`. `OpsInv`: what an operator
  is about to save is the row as it is, neither an ended item nor a closed batch.
  `FreshInv`: a row nobody changed since the scan read it is still pending, so the
  claim under that condition takes no ended item. `DoneInv`: a batch has a
  `finished_time` only when it was terminated or all its items have ended, and an
  item never leaves its end (`ItemsKept`, of every step). `NewsInv`: who is about to
  announce has just written `finished_time`, is alone, and nobody has announced
  before. Without the restriction of `SerialSpec`, `EndedIsFinal` is false
  (`PlanStaleSave`).

**GnetxServerProofs** (`ServerAssumption`)

- `ServerTypeCorrect`: `ServerSpec => []ServerTypeOK`.
- `ManagerIsRegistry`: `ServerSpec => RegistryImplemented`. `RegistryImplemented`
  says that every step of the manager is one step of the registry or none. It
  needs `ManagerInv`, which ties the two maps, the client id kept in the session
  and the closed flag together: an entry of a client id points to a session in
  the other map that carries that id and is not closed. A displacement closes
  the old session and enters the new one in one critical section, which is the
  registry's `Take`.
- `ServerStopsEmpty`, `ListenerIsRight`: `StoppedEmpty` and `ListenerCatchesUp`. `OnceInv`
  says that one thread at most is inside `closeOnce` of a session and what it has
  done so far, `TellInv` that for every event the listener was not told some thread
  is on its way to tell it; when all threads are through nothing is owed.
- `ClosingsAreSeenThrough`: `ServerSpec => []ClosingsSeenThrough`, the part of
  `ClosedForGood` that needs no fairness. Event loops and goroutines close each
  other's sessions and wait in `closeOnce`; it is no deadlock, because while a
  `closeOnce` runs some thread is inside, and who is inside waits for nobody. `SeenInv`
  adds that an event loop closes its own session only after its connection was
  lost, as it binds its own session only and so never displaces itself: therefore the
  part that hangs up may be left out there, and every session that was reported
  destroyed is hung up or about to be.

**LibrariesProofs** (`ChanAssumption`, `InvokeAssumption`, `EmitterAssumption`,
`MqttAssumption`, `NothingAssumption`)

- `NoLostWakeup`: `ChanSpec => []NoSleepOverValues`, for any number of receivers.
  While somebody sleeps there are at least as many receivers about to look as
  values: a send adds a value and wakes one sleeper, a receiver that looks takes
  one of each, and one falls asleep only when it found nothing and has kept the
  mutex since. Counting needs the finite-set theorems.
- `InvokeAnswersRight`: `InvokeSpec => []InvokeAnswers`, for any number of tasks and
  any pool. The invariant follows the loop (tasks below `turn` were taken or
  refused) and the `Once` (a context can be ended by the call itself only after
  the first error was kept, so the kept error is never its own cancellation).
- `NothingSentOnClosed`: `EmitterSpec => []NoSendOnClosed`. `WriterInv`: whoever
  writes holds the mutex of a subscriber that is not stopped, and a stream is closed
  exactly when its subscriber is stopped. `ListInv`: everybody on a list has
  subscribed, so that nobody is writing to the subscriber that a closed emitter stops
  as soon as it is made. `EmitterTypeCorrect` comes with it.
- `WhoStaysIsServed`: `EmitterSpec => []SubscribersServed`. Who stays, with its
  reader not closed, is in the topic and not stopped (`StayInv`): a cancel takes one place out of the list, its own, and
  stops its own subscriber only (`OwnInv`). So the list `Emit` copied has everybody
  who stays, and until a value was put into their stream they are on the rest of that
  list (`DueInv`): send passes over stopped subscribers only.
- `LocksOfEmitter`: `EmitterSpec => []EmitterLocks`, which adds to the former
  `WaitsEndAtReader`, the part of `EmitterSettles` that needs no fairness. Calls wait for the once of a subscriber, for its mutex and for
  room in its stream, in this order. `WaitsInv` says that nobody in this chain is
  missing: a once that runs is run by a call about to close the stream
  (`StopperInv`), a mutex is held by a send to its subscriber (`HolderInv`), and a
  reader has come to the end only at a stopped subscriber (`ReaderInv`), which a
  sender's is not, by `WriterInv`. A reader that left is still a reader here: that
  it takes nothing more is liveness, and the fourth finding.
- `MqttTypeCorrect`: `MqttSpec => []MqttTypeOK`, whatever order paho starts its
  goroutines in.
- `HandlersAreSubscribed`: `MqttSpec => []HandlersSubscribed`, in any order of the
  goroutines: a topic with a handler is granted once all is quiet, unless the broker
  refused one on this connection or the connection has overtaken a loss. `SetInv`:
  on a connection that has not, the set claims nothing the broker has not granted on
  it and the mutex is held for a subscription on it; when all losses were dealt with
  the set is empty before the next connection. `CoverInv`: every topic with a handler
  is granted or on its way, on the list of a goroutine, being asked for, or still to be
  listed by the callback of this connection. When all is quiet nothing is on its way.
- `EveryLibraryKept`: `LibrariesSpec` implies the specification of each of the five,
  so that what is proved of each holds of the behaviours the run `libraries` checks,
  and `LibrariesTypeCorrect`: `LibrariesSpec => []LibrariesTypeOK`.

**MeetingRecordingProofs** (`RecordingAssumption`)

- `RecordingTypeCorrect`: `RecordingSpec => []RecordingTypeOK`.
- `OneRecordingAtATime`: `RecordingSpec => []OneRecording`, for any number of
  egresses, calls and webhooks. `RecordingInv` has four parts. `ListedInv`: LiveKit
  lists what is in progress. `TruthInv`: everything said of an egress, in a
  webhook, in the table or in what a call keeps, is true, and an end that was said
  has come. `LockInv`: from its second check on a start holds the lock. `OneInv`:
  while nothing has strayed at most one egress is *unsettled* (begun, and without
  an end in the table), one without a row belongs to the holder of the lock, and
  none is left when the next is launched. Two active egresses would both be
  unsettled. Every action but `Launch` has a lemma that it is an `Effect`: egresses
  only go on, rows only forward and with the truth, one goroutine moves; and an
  `Effect` keeps the invariant, whatever it is the effect of.
- `FinalRowsStay`: `RecordingSpec => FinalStays`, from `RowsKept`, which every
  statement that writes the table establishes by its own condition.
- `FilesArrive`: `RecordingSpec => []FileArrives`. `FileInv`: the backfill that met
  a row meets one at its end, and a recording whose last event was handled (`told`) has ended in the table, with its
  file if complete. It is kept since an end stays (`RowsKept`).

**ApplicationsProofs** (`CommandsAssumption`)

- `CommandsTypeCorrect`: `CommandsSpec => []CommandsTypeOK`, the code with nothing
  assumed of its callers.
- `NoEntryWithoutTimer`: `CommandsSpec => []EntriesExpire`, with callers that send when
  they like: an entry has a timer, or somebody about to start one, unless it was
  registered while the removal of an earlier entry of its target was to come. The pool
  forgets under which promise a timer was started. `CrossInv`: as long as a reply,
  having taken an entry out, has not removed its timer, whatever waits under the key is
  crossed. So a removal cannot reach the timer of an entry that is not, and the timers
  of such entries go by firing only.
- `CommandsDecidedOnce`: `CommandsSpec => PoolImplemented`, crossed or not.
  A timer of an earlier command may end a later one; it ends it once, and for good.
- `EveryApplicationKept` and `ApplicationsTypeCorrect`: `ApplicationsSpec` implies
  `CommandsSpec` and `RecordingSpec`, and the types of both, as above for `libraries`.

TLC checked the inductive invariants on small instances before they were proved.

Only model-checked: everything under fairness (`PointsEventuallyServed`,
`PlanEnds`, `RequestsEnd`, `Reconnects`, `ClosedForGood`, `SubscriptionsRestored`,
`EmitterSettles`, `TargetsFreed`, `RowsSettle`), which is out of the prover's
reach: they need ENABLED. Of `ClosedForGood` and `EmitterSettles` the part that needs
no fairness is proved (`ClosingsAreSeenThrough`, `LocksOfEmitter`). Every safety property
of a passing run is proved: invariants, action properties and the three
refinements. The five findings are about properties that do not hold.

## What is not modelled

- The in-memory store of `crontask`, calendar arithmetic of rules, log tables and
  `last_run` of the scheduler.
- Execution logs, `scan_flg` and the construction of a plan (it is the initial
  state) in the plan engine; plans are independent of each other.
- Of gnetx: codecs, router and serializers, heartbeats; an inbound message of the
  server is what its handler does to the manager. Of antsx: stream converters,
  merging and copying, `Invoke` and `InvokeAllSettled` without a pool (an errgroup,
  and plain goroutines that are waited for), the promise's combinators.
- Of mqttx: publishing, dispatching, tracing; refusals of the broker are counted
  but not repaired, as in the code. Of IEC 104: commands without confirmation,
  interrogation, ASDU conversion, point mapping.
- Of `app/live`: meetings, participants, SIP, permissions; of a recording its times
  and error texts.
- Thin wrappers and pass-through services: bridges, files, GIS, media servers,
  gateways, AI services, command-line tools (see `components`).

## Plan

1. *ISP client* over `GnetxClient`: registration and acknowledgement state that
   belongs to a session.
2. *Meetings and participants* of `app/live` against webhooks; *socketiox sessions*.
3. *More proofs*: what of the safety properties survives without the assumptions on
   operators (`NoForeignCompletion` and `EndedIsFinal` as far as they hold).
4. The backoff of the plan engine as a numeric function.

Runs are added only where a module asks a new question; modules that share no state
are checked side by side in one run.
