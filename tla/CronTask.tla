------------------------------ MODULE CronTask ------------------------------
(***************************************************************************)
(* The lease protocol of the CronJob scheduler: common/crontask over the   *)
(* cron_job table (app/trigger/internal/cronjob/db_store.go).              *)
(*                                                                         *)
(* Every scheduler instance scans the table for a due job, takes a lease   *)
(* on it by a compare-and-set on next_run, runs the handler in a goroutine *)
(* and completes the run by a second compare-and-set on the lease token.   *)
(* ONE COLUMN, next_run, HAS TWO MEANINGS: the next planned point of a     *)
(* job, and, while the job is claimed, the instant its lease expires.      *)
(*                                                                         *)
(* A statement sent to the database is one action.  A Go function that     *)
(* sends two of them (SELECT, then UPDATE) is two actions, with the clock  *)
(* and every other process free to move in between.                        *)
(***************************************************************************)
EXTENDS Integers, FiniteSets

CONSTANTS
  Jobs,          \* job ids that may be created; an id is never reused
  Configs,       \* the configurations a job can be given
  Instances,     \* scheduler instances, each with one scan loop
  Workers,       \* handler goroutines, of all the instances together
  Admins,        \* RPC calls of operators in flight
  MaxTime,       \* bound of the clock
  MaxFaults,     \* bound of crashes and handler errors
  MaxCalls,      \* bound of management calls, after the creation of the jobs
  FaultHorizon   \* no crash and no handler error after this instant

\* A configuration: its planned points, whether it is an RRULE (a one-shot
\* task has an empty RRuleStr), the resolved lock timeout, the tolerated
\* delay (0: none set), whether a misfire runs at once, and the priority.
ConfigType == [occ : SUBSET (Nat \ {0}), rrule : BOOLEAN, lock : Nat \ {0},
               maxDelay : Nat, catchUp : BOOLEAN, prio : Nat]

ASSUME ConfigsAssumption == Configs # {} /\ Configs \subseteq ConfigType
ASSUME BoundsAssumption  == /\ MaxTime \in Nat \ {0}
                            /\ MaxFaults \in Nat
                            /\ MaxCalls \in Nat
                            /\ FaultHorizon \in Nat

VARIABLES
  now,     \* the clock, in whole seconds (lease tokens are truncated to them)
  job,     \* the cron_job table
  scan,    \* per instance: the row LockAndFetch has read but not yet claimed
  work,    \* per goroutine: what executeTask or RunNow is doing
  admin,   \* per call: what Enable or UpdateCronJob has read and computed
  faults,  \* crashes and handler errors so far
  calls,   \* management calls so far
  holder,  \* history: the goroutine whose claim of the job is the last one
  served   \* history: the points handled or reported skipped since the job moved

vars == <<now, job, scan, work, admin, faults, calls, holder, served>>

\* The zero time.Time, NULL in the table.
NoTime == 0

Idle == [pc |-> "idle"]

Row      == [state : {"new", "live", "deleted"}, on : BOOLEAN, next : Nat,
             sched : Nat, cfg : Configs]
Snapshot == [pc : {"selected"}, job : Jobs, at : 1 .. MaxTime, row : Row]
Claim    == [pc : {"claimed", "running", "finishing", "manual", "deleting"},
             job : Jobs, cfg : Configs, sched : Nat, token : Nat,
             since : Nat, next : Nat]
Request  == [pc : {"enabling", "updating"}, job : Jobs, cfg : Configs, next : Nat]

-----------------------------------------------------------------------------
Least(p, S)    == p \in S /\ \A q \in S : p =< q
Greatest(p, S) == p \in S /\ \A q \in S : q =< p

\* Mutant: an exhausted rule is reported as -1 instead of the zero time.
EarliestNoZero(S) == IF \E p \in S : Least(p, S) THEN CHOOSE p \in S : Least(p, S)
                                                 ELSE -1

\* The earliest (latest) point of a set, NoTime when it has none.
Earliest(S) == IF \E p \in S : Least(p, S) THEN CHOOSE p \in S : Least(p, S)
                                           ELSE NoTime
Latest(S)   == IF \E p \in S : Greatest(p, S) THEN CHOOSE p \in S : Greatest(p, S)
                                              ELSE NoTime

\* rrulex.NextRuns(rrule, t, inclusive = false, 1): strictly after t.
NextAfter(c, t) == IF c.rrule THEN Earliest({p \in c.occ : p > t}) ELSE NoTime

\* compileSchedule: the first point not before t (t included), or with
\* skipTimeFilter the last one not after t, if there is one.
FirstRun(c, t, skipTimeFilter) ==
  LET past == {p \in c.occ : p =< t}
  IN  IF skipTimeFilter /\ past # {} THEN Latest(past)
                                     ELSE Earliest({p \in c.occ : p >= t})

\* computeNextRun: on the configuration of the CLAIM, not of the table.
ComputeNextRun(c, sched) == NextAfter(c, IF sched > now THEN sched ELSE now)

Live(j) == job[j].state = "live"

\* Mutant: only rows without a claim are scanned, an expired lease is not.
DueUnclaimed(j) == /\ Live(j) /\ job[j].on /\ job[j].next # NoTime
                   /\ job[j].next =< now /\ job[j].sched = NoTime

\* The WHERE clause of the scan; NULL is never due.
Due(j) == Live(j) /\ job[j].on /\ job[j].next # NoTime /\ job[j].next =< now

\* The point a row is waiting to serve, whether claimed or not.
PlanPoint(row) == IF row.sched # NoTime THEN row.sched ELSE row.next

\* The goroutines that run a claim of j (those of RunNow hold no lease).
Busy(c)     == c.pc \in {"claimed", "running", "finishing"}
InFlight(j) == {w \in Workers : Busy(work[w]) /\ work[w].job = j}

Init ==
  /\ now = 1
  /\ job = [j \in Jobs |-> [state |-> "new", on |-> FALSE, next |-> NoTime,
                            sched |-> NoTime, cfg |-> CHOOSE c \in Configs : TRUE]]
  /\ scan = [i \in Instances |-> Idle]
  /\ work = [w \in Workers |-> Idle]
  /\ admin = [a \in Admins |-> Idle]
  /\ faults = 0
  /\ calls = 0
  /\ holder = [j \in Jobs |-> {}]
  /\ served = [j \in Jobs |-> {}]

-----------------------------------------------------------------------------
\* The scheduler.

\* LockAndFetch, the SELECT: enabled, due, the highest priority first.
ScanSelect(i) ==
  /\ scan[i].pc = "idle"
  /\ \E j \in Jobs :
       /\ Due(j)
       /\ \A k \in Jobs : Due(k) => job[k].cfg.prio =< job[j].cfg.prio
       /\ scan' = [scan EXCEPT ![i] = [pc |-> "selected", job |-> j,
                                       at |-> now, row |-> job[j]]]
  /\ UNCHANGED <<now, job, work, admin, faults, calls, holder, served>>

\* Mutant: the claim does not compare next_run.
ClaimableStatusOnly(j, s) == Live(j) /\ job[j].on

\* The WHERE clause of the claim: only next_run and status are compared.
Claimable(j, s) == Live(j) /\ job[j].on /\ job[j].next = s.row.next

\* The lease ends a lock timeout after the clock LockAndFetch was called with.
Token(s) == s.at + s.row.cfg.lock

\* LockAndFetch, the UPDATE, and the start of the goroutine.  Everything the
\* claim carries comes from the row that was read.
ScanClaim(i, w) ==
  LET s     == scan[i]
      token == Token(s)
  IN  /\ s.pc = "selected"
      /\ work[w].pc = "idle"
      /\ Claimable(s.job, s)
      /\ job' = [job EXCEPT ![s.job].next = token,
                            ![s.job].sched = PlanPoint(s.row)]
      /\ work' = [work EXCEPT ![w] =
                    [pc |-> "claimed", job |-> s.job, cfg |-> s.row.cfg,
                     sched |-> PlanPoint(s.row), token |-> token,
                     since |-> now, next |-> NoTime]]
      /\ scan' = [scan EXCEPT ![i] = Idle]
      /\ holder' = [holder EXCEPT ![s.job] = {w}]
      /\ UNCHANGED <<now, admin, faults, calls, served>>

\* The UPDATE changed no row: another instance was first, or the job moved.
ScanLost(i) ==
  /\ scan[i].pc = "selected"
  /\ ~Claimable(scan[i].job, scan[i])
  /\ scan' = [scan EXCEPT ![i] = Idle]
  /\ UNCHANGED <<now, job, work, admin, faults, calls, holder, served>>

\* executeTask, the misfire check: too late, and the policy is to skip.
Misfired(c) == /\ c.cfg.maxDelay > 0
               /\ c.sched # NoTime
               /\ now - c.sched > c.cfg.maxDelay
               /\ ~c.cfg.catchUp

Serve(j, p) == served' = [served EXCEPT ![j] = @ \cup {p}]

\* Mutant: a skipped run leaves no record.
StartTaskUnreported(w) ==
  LET c == work[w]
  IN  /\ c.pc = "claimed"
      /\ work' = IF Misfired(c)
                 THEN [work EXCEPT ![w].pc = "finishing",
                                   ![w].next = ComputeNextRun(c.cfg, c.sched)]
                 ELSE [work EXCEPT ![w].pc = "running"]
      /\ UNCHANGED <<now, job, scan, admin, faults, calls, holder, served>>

\* executeTask up to the handler call.  A skipped run is reported (reportSkip)
\* and goes on to compute the next run without a LastRun.
StartTask(w) ==
  LET c == work[w]
  IN  /\ c.pc = "claimed"
      /\ IF Misfired(c)
         THEN /\ work' = [work EXCEPT ![w].pc = "finishing",
                                      ![w].next = ComputeNextRun(c.cfg, c.sched)]
              /\ Serve(c.job, c.sched)
         ELSE /\ work' = [work EXCEPT ![w].pc = "running"]
              /\ UNCHANGED served
      /\ UNCHANGED <<now, job, scan, admin, faults, calls, holder>>

\* The handler returns nil: the next run is computed here, from the clock.
HandlerSucceeds(w) ==
  LET c == work[w]
  IN  /\ c.pc = "running"
      /\ work' = [work EXCEPT ![w].pc = "finishing",
                              ![w].next = ComputeNextRun(c.cfg, c.sched)]
      /\ Serve(c.job, c.sched)
      /\ UNCHANGED <<now, job, scan, admin, faults, calls, holder>>

\* The handler answers ErrDeleteTask, of a claim or of RunNow.
HandlerDeletes(w) ==
  /\ work[w].pc \in {"running", "manual"}
  /\ work' = [work EXCEPT ![w].pc = "deleting"]
  /\ UNCHANGED <<now, job, scan, admin, faults, calls, holder, served>>

\* One more management call.
Call == calls < MaxCalls /\ calls' = calls + 1

\* store.Delete: soft, idempotent.
DeleteRow(j) == job' = [job EXCEPT ![j].state = IF @ = "live" THEN "deleted" ELSE @]

DeleteTask(w) ==
  /\ work[w].pc = "deleting"
  /\ DeleteRow(work[w].job)
  /\ work' = [work EXCEPT ![w] = Idle]
  /\ UNCHANGED <<now, scan, admin, faults, calls, holder, served>>

\* Mutant: the completion does not compare the lease token.
CompletesByIdOnly(w) == work[w].pc = "finishing" /\ Live(work[w].job)

\* The WHERE clause of Complete: the token only; a disabled job completes.
Completes(w) == /\ work[w].pc = "finishing"
                /\ Live(work[w].job)
                /\ job[work[w].job].next = work[w].token

\* store.Complete commits the next run.  last_run and last_scheduled_run,
\* which nothing reads back, are left out.
CompleteOK(w) ==
  LET c == work[w]
  IN  /\ Completes(w)
      /\ job' = [job EXCEPT ![c.job].next = c.next,
                            ![c.job].sched = NoTime]
      /\ work' = [work EXCEPT ![w] = Idle]
      /\ holder' = [holder EXCEPT ![c.job] = {}]
      /\ served' = [served EXCEPT ![c.job] = {}]
      /\ UNCHANGED <<now, scan, admin, faults, calls>>

\* store.Complete changed no row; the error is only logged.
CompleteLost(w) ==
  /\ work[w].pc = "finishing"
  /\ ~Completes(w)
  /\ work' = [work EXCEPT ![w] = Idle]
  /\ UNCHANGED <<now, job, scan, admin, faults, calls, holder, served>>

\* The handler fails, panics, the database call fails, or the process dies:
\* the goroutine ends and the lease is left to expire.
Abandon(w) ==
  /\ work[w].pc # "idle"
  /\ faults < MaxFaults /\ now =< FaultHorizon
  /\ work' = [work EXCEPT ![w] = Idle]
  /\ faults' = faults + 1
  /\ UNCHANGED <<now, job, scan, admin, calls, holder, served>>

\* RunNow: the handler runs without a claim; its success only sets last_run,
\* which the model leaves out.
RunNow(w, j) ==
  /\ work[w].pc = "idle"
  /\ Live(j)
  /\ work' = [work EXCEPT ![w] = [pc |-> "manual", job |-> j, cfg |-> job[j].cfg,
                                  sched |-> now, token |-> NoTime, since |-> now,
                                  next |-> NoTime]]
  /\ Call
  /\ UNCHANGED <<now, job, scan, admin, faults, holder, served>>

RunNowDone(w) ==
  /\ work[w].pc = "manual"
  /\ work' = [work EXCEPT ![w] = Idle]
  /\ UNCHANGED <<now, job, scan, admin, faults, calls, holder, served>>

-----------------------------------------------------------------------------
\* The management calls.

\* CreateCronJob: a new job is enabled, its first run compiled from the clock.
Create(j, c, skipTimeFilter) ==
  /\ job[j].state = "new"
  /\ job' = [job EXCEPT ![j] = [state |-> "live", on |-> TRUE,
                                next |-> FirstRun(c, now, skipTimeFilter),
                                sched |-> NoTime, cfg |-> c]]
  /\ UNCHANGED <<now, scan, work, admin, faults, calls, holder, served>>

\* UpdateCronJob: the row is read and the schedule compiled ...
UpdateRead(a, j, c, skipTimeFilter) ==
  /\ admin[a].pc = "idle"
  /\ Live(j) /\ c.rrule
  /\ admin' = [admin EXCEPT ![a] = [pc |-> "updating", job |-> j, cfg |-> c,
                                    next |-> FirstRun(c, now, skipTimeFilter)]]
  /\ Call
  /\ UNCHANGED <<now, job, scan, work, faults, holder, served>>

\* ... and stored unless the job is claimed by then; the status is kept.
UpdateStore(a) ==
  LET r == admin[a]
  IN  /\ r.pc = "updating"
      /\ admin' = [admin EXCEPT ![a] = Idle]
      /\ IF Live(r.job) /\ job[r.job].sched = NoTime
         THEN /\ job' = [job EXCEPT ![r.job].cfg = r.cfg, ![r.job].next = r.next]
              /\ served' = [served EXCEPT ![r.job] = {}]
         ELSE UNCHANGED <<job, served>>
      /\ UNCHANGED <<now, scan, work, faults, calls, holder>>

\* Scheduler.Enable: nothing to do for an enabled job; a one-shot task keeps
\* its planned point, an RRULE is computed from the clock.
EnableRead(a, j) ==
  /\ admin[a].pc = "idle"
  /\ Live(j) /\ ~job[j].on
  /\ admin' = [admin EXCEPT ![a] =
                 [pc |-> "enabling", job |-> j, cfg |-> job[j].cfg,
                  next |-> IF job[j].cfg.rrule THEN NextAfter(job[j].cfg, now)
                                               ELSE PlanPoint(job[j])]]
  /\ Call
  /\ UNCHANGED <<now, job, scan, work, faults, holder, served>>

\* store.SetEnabled: unconditional, it also clears the claim of the job.
SetEnabled(a) ==
  LET r == admin[a]
  IN  /\ r.pc = "enabling"
      /\ admin' = [admin EXCEPT ![a] = Idle]
      /\ IF Live(r.job)
         THEN /\ job' = [job EXCEPT ![r.job] = [@ EXCEPT !.on = TRUE, !.next = r.next,
                                                        !.sched = NoTime]]
              /\ holder' = [holder EXCEPT ![r.job] = {}]
              /\ served' = [served EXCEPT ![r.job] = {}]
         ELSE UNCHANGED <<job, holder, served>>
      /\ UNCHANGED <<now, scan, work, faults, calls>>

\* store.Disable: the status only; a claim in flight is not revoked.
Disable(j) ==
  /\ Live(j) /\ job[j].on
  /\ job' = [job EXCEPT ![j].on = FALSE]
  /\ Call
  /\ UNCHANGED <<now, scan, work, admin, faults, holder, served>>

Delete(j) ==
  /\ Live(j)
  /\ DeleteRow(j)
  /\ Call
  /\ UNCHANGED <<now, scan, work, admin, faults, holder, served>>

Tick ==
  /\ now < MaxTime
  /\ now' = now + 1
  /\ UNCHANGED <<job, scan, work, admin, faults, calls, holder, served>>

-----------------------------------------------------------------------------
Goroutine(w) ==
  \/ StartTask(w) \/ HandlerSucceeds(w) \/ CompleteOK(w) \/ CompleteLost(w)
  \/ RunNowDone(w) \/ DeleteTask(w)

Operator ==
  \/ \E j \in Jobs, c \in Configs, b \in BOOLEAN : Create(j, c, b)
  \/ \E j \in Jobs : Disable(j) \/ Delete(j)
  \/ \E j \in Jobs, w \in Workers : RunNow(w, j)
  \/ \E a \in Admins, j \in Jobs, c \in Configs, b \in BOOLEAN : UpdateRead(a, j, c, b)
  \/ \E a \in Admins : UpdateStore(a)
  \/ \E a \in Admins, j \in Jobs : EnableRead(a, j)

\* Everything but the UPDATE of LockAndFetch and the one of EnableCronJob,
\* whose timing the specifications below restrict in different ways.
Base ==
  \/ \E i \in Instances : ScanSelect(i) \/ ScanLost(i)
  \/ \E w \in Workers : Goroutine(w) \/ HandlerDeletes(w) \/ Abandon(w)
  \/ Operator
  \/ Tick

\* The code, with nothing assumed.
Next == \/ Base
        \/ \E i \in Instances, w \in Workers : ScanClaim(i, w)
        \/ \E a \in Admins : SetEnabled(a)

Spec == Init /\ [][Next]_vars

\* QUIET: an operator does not re-enable a job while one of its runs is in
\* flight.  Nothing in the code enforces this.
QuietEnable(a) == SetEnabled(a) /\ InFlight(admin[a].job) = {}

QuietNext == \/ Base
             \/ \E i \in Instances, w \in Workers : ScanClaim(i, w)
             \/ \E a \in Admins : QuietEnable(a)

QuietSpec == Init /\ [][QuietNext]_vars

\* TIMELY: the UPDATE of a claim arrives before the lease it takes expires,
\* at least 30 seconds after the SELECT.
TimelyClaim(i, w) == ScanClaim(i, w) /\ now < Token(scan[i])

TimelyNext == \/ Base
              \/ \E i \in Instances, w \in Workers : TimelyClaim(i, w)
              \/ \E a \in Admins : SetEnabled(a)

TimelySpec == Init /\ [][TimelyNext]_vars

\* DISCIPLINED: quiet, timely, and no lease token is a planned point.
PlanPoints == UNION {c.occ : c \in Configs}

OffPlanClaim(i, w) == TimelyClaim(i, w) /\ Token(scan[i]) \notin PlanPoints

DisciplinedNext == \/ Base
                   \/ \E i \in Instances, w \in Workers : OffPlanClaim(i, w)
                   \/ \E a \in Admins : QuietEnable(a)

DisciplinedSpec == Init /\ [][DisciplinedNext]_vars

\* FAIR: the scan loops and the goroutines go on and the clock advances, but
\* not past a due job that an idle scan loop and a free goroutine could take
\* (the loop polls every two seconds, a lease is at least thirty).  No lease
\* token is a planned point, and here the scans that would take such a token
\* come a little later: what a token on the plan does is seen in
\* ClaimSeesCurrentPoint, and it can lose a point for good.
OffPlanSelect(i) == ScanSelect(i) /\ Token(scan'[i]) \notin PlanPoints

NothingToClaim ==
  (\E w \in Workers : work[w].pc = "idle") =>
    \A i \in Instances : /\ scan[i].pc = "idle"
                         /\ ~\E j \in Jobs :
                              Due(j) /\ now + job[j].cfg.lock \notin PlanPoints

FairSpec ==
  /\ Init
  /\ [][/\ Next
        /\ now' # now => NothingToClaim
        /\ \A i \in Instances : ScanSelect(i) => OffPlanSelect(i)]_vars
  /\ WF_vars(Tick /\ NothingToClaim)
  /\ \A i \in Instances :
       WF_vars(OffPlanSelect(i) \/ ScanLost(i) \/ \E w \in Workers : ScanClaim(i, w))
  /\ \A w \in Workers : WF_vars(Goroutine(w))

-----------------------------------------------------------------------------
(* Properties. *)

\* Types of all the variables.
TypeOK ==
  /\ now \in 1 .. MaxTime
  /\ job \in [Jobs -> Row]
  /\ scan \in [Instances -> {Idle} \cup Snapshot]
  /\ work \in [Workers -> {Idle} \cup Claim]
  /\ admin \in [Admins -> {Idle} \cup Request]
  /\ faults \in Nat
  /\ calls \in Nat
  /\ holder \in [Jobs -> SUBSET Workers]
  /\ served \in [Jobs -> SUBSET Nat]

\* Two runs of a job in flight at the same time hold leases that do not
\* overlap: the later one was claimed when the earlier lease had expired
\* (LockAndFetch, Complete: "lease token").
LeasesDisjoint ==
  \A j \in Jobs : \A v, w \in InFlight(j) :
    v # w => \/ work[v].token =< work[w].since
             \/ work[w].token =< work[v].since

\* A run that completes is the last one that claimed the job, and its claim
\* has not been cleared since (trigger.md: the completion must match its
\* locked_until, so that an old worker cannot overwrite a new claim).
OnlyHolderCompletes ==
  [][\A w \in Workers : CompleteOK(w) => holder[work[w].job] = {w}]_vars

\* The weaker promise of that sentence: no run completes the claim of another.
NoForeignCompletion ==
  [][\A w \in Workers : CompleteOK(w) => holder[work[w].job] \subseteq {w}]_vars

\* A planned point is left only once it was handled or reported as skipped,
\* and only forwards; or else an operator has replanned the job.  Claims,
\* retries, crashes and disabling never move it.
PlanPointsServedInOrder ==
  [][\A j \in Jobs :
       \/ PlanPoint(job'[j]) = PlanPoint(job[j])
       \/ /\ PlanPoint(job[j]) \in served[j]
          /\ \/ PlanPoint(job'[j]) = NoTime
             \/ PlanPoint(job'[j]) > PlanPoint(job[j])
       \/ job[j].state = "new"
       \/ \E a \in Admins : UpdateStore(a) \/ SetEnabled(a)]_vars

\* A claim takes up the planned point that the row has when it is taken
\* (DBStore: the next_run token guards LockAndFetch and Complete against
\* overwriting each other).
ClaimSeesCurrentPoint ==
  [][\A i \in Instances, w \in Workers :
       ScanClaim(i, w) => PlanPoint(scan[i].row) = PlanPoint(job[scan[i].job])]_vars

\* A planned point of an enabled job that has come is eventually handled or
\* reported as skipped, whatever crashes and handler errors happen on the way
\* (trigger.md: after a failure the lease expires and the point is retried),
\* unless a management call or the handler takes the job away.  A row that
\* moves on to another point without serving this one does not count.
PointsEventuallyServed ==
  \A j \in Jobs : \A p \in PlanPoints :
    /\ Live(j) /\ job[j].on /\ PlanPoint(job[j]) = p
    /\ p =< now /\ p =< FaultHorizon
    ~> \/ p \in served[j]
       \/ ~(Live(j) /\ job[j].on)
       \/ calls > 0

\* Why leases are disjoint, as an inductive invariant: the row shows the token
\* of every lease that has not expired, no job that was never created is
\* running, and a row read by a scan was due when it was read.
LeaseInv ==
  /\ \A j \in Jobs : \A w \in InFlight(j) :
       /\ work[w].since =< now
       /\ job[j].state # "new"
       /\ \/ work[w].token =< now
          \/ job[j].next = work[w].token /\ job[j].sched # NoTime
  /\ \A i \in Instances : scan[i].pc = "selected" =>
       /\ scan[i].at =< now
       /\ scan[i].row.next # NoTime /\ scan[i].row.next =< scan[i].at
  /\ LeasesDisjoint

-----------------------------------------------------------------------------
(* The promise of the leases, without the table: see JobLease. *)

Leases == [j \in Jobs |->
             {[who |-> w, since |-> work[w].since, until |-> work[w].token] :
                w \in InFlight(j)}]

Lease == INSTANCE JobLease WITH Owners <- Workers, leases <- Leases,
           Times <- {t + c.lock : t \in 1 .. MaxTime, c \in Configs}

\* A job is claimed only when every lease still held on it has expired.
LeaseImplemented == Lease!Spec
=============================================================================
