--------------------------- MODULE CronTaskProofs ---------------------------
(***************************************************************************)
(* Proofs about CronTask: type correctness of the code as it is; for quiet *)
(* operators, that leases of one job never overlap and that the protocol   *)
(* implements JobLease; and under DisciplinedSpec, that only the holder of *)
(* a claim completes it and points are served in the order of the plan.    *)
(***************************************************************************)
EXTENDS CronTask, TLAPS

\* What the schedule helpers return: a point of the set, or no time at all.
LEMMA EarliestType ==
  ASSUME NEW S \in SUBSET (Nat \ {0})
  PROVE  Earliest(S) \in Nat
BY DEF Earliest, NoTime

LEMMA LatestType ==
  ASSUME NEW S \in SUBSET (Nat \ {0})
  PROVE  Latest(S) \in Nat
BY DEF Latest, NoTime

LEMMA FirstRunType ==
  ASSUME NEW c \in Configs, NEW t \in Nat, NEW b \in BOOLEAN
  PROVE  FirstRun(c, t, b) \in Nat
<1>1. c.occ \in SUBSET (Nat \ {0})
  BY ConfigsAssumption DEF ConfigType
<1>2. {p \in c.occ : p =< t} \in SUBSET (Nat \ {0}) /\ {p \in c.occ : p >= t} \in SUBSET (Nat \ {0})
  BY <1>1
<1> QED BY <1>2, EarliestType, LatestType DEF FirstRun

LEMMA NextAfterType ==
  ASSUME NEW c \in Configs, NEW t \in Nat
  PROVE  NextAfter(c, t) \in Nat
<1>1. {p \in c.occ : p > t} \in SUBSET (Nat \ {0})
  BY ConfigsAssumption DEF ConfigType
<1> QED BY <1>1, EarliestType DEF NextAfter, NoTime

LEMMA TokenType ==
  ASSUME NEW s \in Snapshot
  PROVE  Token(s) \in Nat /\ Token(s) > s.at
<1>1. s.at \in Nat /\ s.row.cfg \in Configs
  BY BoundsAssumption DEF Snapshot, Row
<1>2. s.row.cfg.lock \in Nat \ {0}
  BY <1>1, ConfigsAssumption DEF ConfigType
<1> QED BY <1>1, <1>2 DEF Token

LEMMA PlanPointType ==
  ASSUME NEW r \in Row
  PROVE  PlanPoint(r) \in Nat
BY DEF PlanPoint, Row

\* What Complete, SetEnabled and Update write keeps the row a row.
LEMMA CompletedRowType ==
  ASSUME NEW r \in Row, NEW n \in Nat
  PROVE  [r EXCEPT !.next = n, !.sched = NoTime] \in Row
BY DEF Row, NoTime

LEMMA UpdatedRowType ==
  ASSUME NEW r \in Row, NEW n \in Nat, NEW c \in Configs
  PROVE  [r EXCEPT !.cfg = c, !.next = n] \in Row
BY DEF Row

LEMMA EnabledRowType ==
  ASSUME NEW r \in Row, NEW n \in Nat
  PROVE  [r EXCEPT !.on = TRUE, !.next = n, !.sched = NoTime] \in Row
BY DEF Row, NoTime

\* A claim that goes on, and what is known of its fields.
LEMMA ClaimType ==
  ASSUME NEW c \in Claim
  PROVE  /\ c.job \in Jobs /\ c.sched \in Nat /\ c.next \in Nat /\ c.cfg \in Configs
         /\ [c EXCEPT !.pc = "running"] \in Claim
         /\ \A n \in Nat : [c EXCEPT !.pc = "finishing", !.next = n] \in Claim
<1>1. c.job \in Jobs /\ c.sched \in Nat /\ c.next \in Nat /\ c.cfg \in Configs
  BY DEF Claim
<1>2. [c EXCEPT !.pc = "running"] \in Claim
  BY DEF Claim
<1>3. ASSUME NEW n \in Nat PROVE [c EXCEPT !.pc = "finishing", !.next = n] \in Claim
  BY DEF Claim
<1> QED BY <1>1, <1>2, <1>3

-----------------------------------------------------------------------------
LEMMA InitTypeOK == Init => TypeOK
<1> SUFFICES ASSUME Init PROVE TypeOK
  OBVIOUS
<1>1. (CHOOSE c \in Configs : TRUE) \in Configs
  BY ConfigsAssumption
<1>2. job \in [Jobs -> Row]
  BY <1>1 DEF Init, Row, NoTime
<1>3. now \in 1 .. MaxTime
  BY BoundsAssumption DEF Init
<1> QED BY <1>2, <1>3 DEF Init, TypeOK, Idle

\* Every statement of the code keeps the types.
LEMMA NextTypeOK == TypeOK /\ [Next]_vars => TypeOK'
<1> SUFFICES ASSUME TypeOK, [Next]_vars PROVE TypeOK'
  OBVIOUS
<1> USE DEF TypeOK
<1>0. NoTime \in Nat /\ Idle \notin Snapshot \cup Claim \cup Request
  BY DEF NoTime, Idle, Snapshot, Claim, Request
<1>n. now \in Nat
  BY BoundsAssumption
<1>1. ASSUME NEW i \in Instances, ScanSelect(i) PROVE TypeOK'
  <2>1. PICK j \in Jobs : scan' = [scan EXCEPT ![i] = [pc |-> "selected", job |-> j,
                                                       at |-> now, row |-> job[j]]]
    BY <1>1 DEF ScanSelect
  <2>2. [pc |-> "selected", job |-> j, at |-> now, row |-> job[j]] \in Snapshot
    BY DEF Snapshot
  <2> QED BY <1>1, <2>1, <2>2 DEF ScanSelect
<1>2. ASSUME NEW i \in Instances, ScanLost(i) PROVE TypeOK'
  BY <1>2 DEF ScanLost
<1>3. ASSUME NEW i \in Instances, NEW w \in Workers, ScanClaim(i, w) PROVE TypeOK'
  <2> DEFINE s == scan[i]
  <2>1. s \in Snapshot
    BY <1>3 DEF ScanClaim, Idle
  <2>2. s.job \in Jobs /\ s.row \in Row /\ s.row.cfg \in Configs
    BY <2>1 DEF Snapshot, Row
  <2>3. Token(s) \in Nat /\ PlanPoint(s.row) \in Nat
    BY <2>1, <2>2, TokenType, PlanPointType
  <2>4. [pc |-> "claimed", job |-> s.job, cfg |-> s.row.cfg, sched |-> PlanPoint(s.row),
         token |-> Token(s), since |-> now, next |-> NoTime] \in Claim
    BY <2>2, <2>3, <1>0, <1>n DEF Claim
  <2>5. job' \in [Jobs -> Row]
    BY <1>3, <2>2, <2>3 DEF ScanClaim, Row
  <2> QED BY <1>3, <2>2, <2>4, <2>5 DEF ScanClaim
<1>4. ASSUME NEW w \in Workers, work[w].pc \in {"claimed", "running"}
      PROVE  /\ work[w] \in Claim
             /\ ComputeNextRun(work[w].cfg, work[w].sched) \in Nat
             /\ [work EXCEPT ![w].pc = "running"] \in [Workers -> {Idle} \cup Claim]
             /\ [work EXCEPT ![w].pc = "finishing",
                             ![w].next = ComputeNextRun(work[w].cfg, work[w].sched)]
                  \in [Workers -> {Idle} \cup Claim]
             /\ served \in [Jobs -> SUBSET Nat] =>
                  [served EXCEPT ![work[w].job] = @ \cup {work[w].sched}]
                    \in [Jobs -> SUBSET Nat]
  <2>1. work[w] \in Claim
    BY <1>4 DEF Idle
  <2>2. ComputeNextRun(work[w].cfg, work[w].sched) \in Nat
    BY <2>1, <1>n, ClaimType, NextAfterType DEF ComputeNextRun
  <2>3. [work EXCEPT ![w].pc = "running"] \in [Workers -> {Idle} \cup Claim]
    BY <2>1, ClaimType
  <2>4. [work EXCEPT ![w].pc = "finishing",
                     ![w].next = ComputeNextRun(work[w].cfg, work[w].sched)]
          \in [Workers -> {Idle} \cup Claim]
    BY <2>1, <2>2, ClaimType
  <2>5. work[w].job \in Jobs /\ work[w].sched \in Nat
    BY <2>1, ClaimType
  <2>6. served \in [Jobs -> SUBSET Nat] =>
          [served EXCEPT ![work[w].job] = @ \cup {work[w].sched}] \in [Jobs -> SUBSET Nat]
    BY <2>5
  <2> QED BY <2>1, <2>2, <2>3, <2>4, <2>6
<1>5. ASSUME NEW w \in Workers, StartTask(w) PROVE TypeOK'
  <2>1. work[w].pc = "claimed"
    BY <1>5 DEF StartTask
  <2>2. work' \in [Workers -> {Idle} \cup Claim] /\ served' \in [Jobs -> SUBSET Nat]
    <3>1. CASE Misfired(work[w])
      BY <1>4, <1>5, <2>1, <3>1 DEF StartTask, Serve
    <3>2. CASE ~Misfired(work[w])
      BY <1>4, <1>5, <2>1, <3>2 DEF StartTask
    <3> QED BY <3>1, <3>2
  <2> QED BY <1>5, <2>2 DEF StartTask
<1>6. ASSUME NEW w \in Workers, HandlerSucceeds(w) PROVE TypeOK'
  BY <1>4, <1>6 DEF HandlerSucceeds, Serve
<1>7. ASSUME NEW w \in Workers, HandlerDeletes(w) PROVE TypeOK'
  <2>1. work[w] \in Claim
    BY <1>7 DEF HandlerDeletes, Idle
  <2> QED BY <1>7, <2>1 DEF HandlerDeletes, Claim
<1>8. ASSUME NEW j \in Jobs, DeleteRow(j) PROVE job' \in [Jobs -> Row]
  BY <1>8 DEF DeleteRow, Row
<1>9. ASSUME NEW w \in Workers, DeleteTask(w) PROVE TypeOK'
  <2>1. work[w].job \in Jobs
    BY <1>9 DEF DeleteTask, Idle, Claim
  <2> QED BY <1>8, <1>9, <2>1 DEF DeleteTask
<1>10. ASSUME NEW w \in Workers, CompleteOK(w) PROVE TypeOK'
  <2>1. work[w].job \in Jobs /\ work[w].next \in Nat
    BY <1>10 DEF CompleteOK, Completes, Idle, Claim
  <2>2. job' \in [Jobs -> Row]
    <3>1. [job[work[w].job] EXCEPT !.next = work[w].next, !.sched = NoTime] \in Row
      BY <2>1, CompletedRowType
    <3> QED BY <1>10, <2>1, <3>1 DEF CompleteOK
  <2> QED BY <1>10, <2>1, <2>2 DEF CompleteOK
<1>11. ASSUME NEW w \in Workers, CompleteLost(w) PROVE TypeOK'
  BY <1>11 DEF CompleteLost
<1>12. ASSUME NEW w \in Workers, Abandon(w) PROVE TypeOK'
  BY <1>12 DEF Abandon
<1>13. ASSUME NEW w \in Workers, NEW j \in Jobs, RunNow(w, j) PROVE TypeOK'
  <2>1. [pc |-> "manual", job |-> j, cfg |-> job[j].cfg, sched |-> now,
         token |-> NoTime, since |-> now, next |-> NoTime] \in Claim
    BY <1>0, <1>n DEF Claim, Row
  <2> QED BY <1>13, <2>1 DEF RunNow, Call
<1>14. ASSUME NEW w \in Workers, RunNowDone(w) PROVE TypeOK'
  BY <1>14 DEF RunNowDone
<1>15. ASSUME NEW j \in Jobs, NEW c \in Configs, NEW b \in BOOLEAN, Create(j, c, b)
       PROVE  TypeOK'
  <2>1. job' \in [Jobs -> Row]
    BY <1>15, <1>0, <1>n, FirstRunType DEF Create, Row
  <2> QED BY <1>15, <2>1 DEF Create
<1>16. ASSUME NEW j \in Jobs, Disable(j) \/ Delete(j) PROVE TypeOK'
  <2>1. job' \in [Jobs -> Row]
    <3>1. CASE Disable(j)
      BY <3>1 DEF Disable, Row
    <3>2. CASE Delete(j)
      BY <1>8, <3>2 DEF Delete
    <3> QED BY <1>16, <3>1, <3>2
  <2> QED BY <1>16, <2>1 DEF Disable, Delete, Call
<1>17. ASSUME NEW a \in Admins, NEW j \in Jobs, NEW c \in Configs, NEW b \in BOOLEAN,
              UpdateRead(a, j, c, b)
       PROVE  TypeOK'
  <2>1. [pc |-> "updating", job |-> j, cfg |-> c, next |-> FirstRun(c, now, b)] \in Request
    BY <1>n, FirstRunType DEF Request
  <2> QED BY <1>17, <2>1 DEF UpdateRead, Call
<1>18. ASSUME NEW a \in Admins, NEW j \in Jobs, EnableRead(a, j) PROVE TypeOK'
  <2>1. job[j] \in Row /\ job[j].cfg \in Configs
    BY DEF Row
  <2>2. (IF job[j].cfg.rrule THEN NextAfter(job[j].cfg, now) ELSE PlanPoint(job[j])) \in Nat
    BY <2>1, <1>n, NextAfterType, PlanPointType
  <2>3. [pc |-> "enabling", job |-> j, cfg |-> job[j].cfg,
         next |-> IF job[j].cfg.rrule THEN NextAfter(job[j].cfg, now)
                                      ELSE PlanPoint(job[j])] \in Request
    BY <2>1, <2>2 DEF Request
  <2> QED BY <1>18, <2>3 DEF EnableRead, Call
<1>19. ASSUME NEW a \in Admins, UpdateStore(a) \/ SetEnabled(a) PROVE TypeOK'
  <2>1. admin[a] \in Request
    BY <1>19 DEF UpdateStore, SetEnabled, Idle
  <2>2. job' \in [Jobs -> Row]
    <3> DEFINE r == admin[a]
    <3>1. r.job \in Jobs /\ r.cfg \in Configs /\ r.next \in Nat
      BY <2>1 DEF Request
    <3>2. CASE UpdateStore(a)
      <4>0. [job[r.job] EXCEPT !.cfg = r.cfg, !.next = r.next] \in Row
        BY <3>1, UpdatedRowType
      <4>1. [job EXCEPT ![r.job].cfg = r.cfg, ![r.job].next = r.next] \in [Jobs -> Row]
        BY <3>1, <4>0
      <4> QED BY <3>2, <4>1 DEF UpdateStore
    <3>3. CASE SetEnabled(a)
      <4>1. [job[r.job] EXCEPT !.on = TRUE, !.next = r.next, !.sched = NoTime] \in Row
        <5>1. job[r.job] \in Row
          BY <3>1
        <5> QED BY <3>1, <5>1, EnabledRowType
      <4> QED BY <3>1, <3>3, <4>1 DEF SetEnabled
    <3> QED BY <1>19, <3>2, <3>3
  <2> QED BY <1>19, <2>1, <2>2 DEF UpdateStore, SetEnabled, Request
<1>20. ASSUME Tick PROVE TypeOK'
  BY <1>20, <1>n, BoundsAssumption DEF Tick
<1>21. CASE UNCHANGED vars
  BY <1>21 DEF vars
<1> QED
  BY <1>1, <1>2, <1>3, <1>5, <1>6, <1>7, <1>9, <1>10, <1>11, <1>12, <1>13, <1>14,
     <1>15, <1>16, <1>17, <1>18, <1>19, <1>20, <1>21
     DEF Next, Base, Goroutine, Operator

\* Every variable keeps its type, whatever the interleaving.
THEOREM TypeCorrect == Spec => []TypeOK
<1>1. Init => TypeOK
  BY InitTypeOK
<1>2. TypeOK /\ [Next]_vars => TypeOK'
  BY NextTypeOK
<1> QED BY <1>1, <1>2, PTL DEF Spec

-----------------------------------------------------------------------------
(* Leases of one job do not overlap while operators are quiet. *)

LEMMA InitLeaseInv == Init => LeaseInv
BY DEF Init, LeaseInv, LeasesDisjoint, InFlight, Busy, Idle

\* Steps that take no claim: goroutines keep theirs or end, scans are kept or
\* dropped, and a row moves only when the leases in flight on it have expired.
LEMMA KeptLeaseInv ==
  ASSUME TypeOK, LeaseInv, now' \in Nat, now =< now',
         \A i \in Instances : scan'[i].pc = "selected" => scan'[i] = scan[i],
         \A w \in Workers : Busy(work'[w]) =>
            /\ Busy(work[w]) /\ work'[w].job = work[w].job
            /\ work'[w].since = work[w].since /\ work'[w].token = work[w].token,
         \A j \in Jobs : job[j].state # "new" => job'[j].state # "new",
         \A j \in Jobs :
            \/ job'[j].next = job[j].next /\ job'[j].sched = job[j].sched
            \/ \A w \in InFlight(j)' : work[w].token =< now
  PROVE  LeaseInv'
<1>1. \A j \in Jobs : InFlight(j)' \subseteq InFlight(j)
  BY DEF InFlight
<1>2. \A j \in Jobs : \A w \in InFlight(j)' :
        work'[w].since = work[w].since /\ work'[w].token = work[w].token
  BY DEF InFlight
<1>3. LeasesDisjoint'
  BY <1>1, <1>2 DEF LeaseInv, LeasesDisjoint
<1>4. now \in Nat /\ \A w \in Workers : Busy(work[w]) => work[w].since \in Nat /\ work[w].token \in Nat
  BY BoundsAssumption DEF TypeOK, Claim, Busy, Idle
<1>5. \A j \in Jobs : \A w \in InFlight(j)' :
         /\ work'[w].since =< now'
         /\ job'[j].state # "new"
         /\ \/ work'[w].token =< now'
            \/ job'[j].next = work'[w].token /\ job'[j].sched # NoTime
  <2> SUFFICES ASSUME NEW j \in Jobs, NEW w \in InFlight(j)'
               PROVE  /\ work'[w].since =< now'
                      /\ job'[j].state # "new"
                      /\ \/ work'[w].token =< now'
                         \/ job'[j].next = work'[w].token /\ job'[j].sched # NoTime
    OBVIOUS
  <2>1. /\ w \in InFlight(j) /\ work[w].since \in Nat /\ work[w].token \in Nat
        /\ work'[w].since = work[w].since /\ work'[w].token = work[w].token
    BY <1>1, <1>2, <1>4 DEF InFlight
  <2>2. /\ work[w].since =< now
        /\ job[j].state # "new"
        /\ work[w].token =< now \/ (job[j].next = work[w].token /\ job[j].sched # NoTime)
    BY <2>1 DEF LeaseInv
  <2> QED BY <1>4, <2>1, <2>2
<1>6. \A i \in Instances : scan'[i].pc = "selected" =>
        /\ scan'[i].at =< now'
        /\ scan'[i].row.next # NoTime /\ scan'[i].row.next =< scan'[i].at
  <2>1. \A i \in Instances : scan[i].pc = "selected" => scan[i].at \in Nat
    BY DEF TypeOK, Snapshot, Idle
  <2> QED BY <1>4, <2>1 DEF LeaseInv
<1> QED BY <1>3, <1>5, <1>6 DEF LeaseInv

\* The claim of a due job finds every other lease of the job expired.
LEMMA ClaimLeaseInv ==
  ASSUME TypeOK, LeaseInv, NEW i \in Instances, NEW w \in Workers, ScanClaim(i, w)
  PROVE  /\ LeaseInv'
         /\ scan[i].job \in Jobs
         /\ \A v \in InFlight(scan[i].job) : v # w /\ work[v].token =< now
         /\ work' = [work EXCEPT ![w] = work'[w]]
         /\ Busy(work'[w]) /\ work'[w].job = scan[i].job
         /\ work'[w].since = now /\ work'[w].token = Token(scan[i])
<1> DEFINE s == scan[i]
<1>0. PICK j \in Jobs : j = s.job
  BY DEF ScanClaim, Idle, TypeOK, Snapshot
<1>1. s \in Snapshot /\ s.row \in Row /\ work[w] = Idle /\ now \in Nat
  BY BoundsAssumption DEF ScanClaim, Idle, TypeOK, Snapshot, Claim
<1>2. s.row.next # NoTime /\ s.row.next =< now /\ s.row.next \in Nat /\ job[j].next = s.row.next
  BY <1>0, <1>1, BoundsAssumption DEF ScanClaim, LeaseInv, Claimable, Snapshot, Row, TypeOK
<1>3. PlanPoint(s.row) # NoTime
  BY <1>2 DEF PlanPoint
<1>4. \A v \in InFlight(j) : v # w /\ work[v].token =< now
  BY <1>1, <1>2 DEF LeaseInv, InFlight, Busy, Idle
<1>5. /\ job'[j].next = Token(s) /\ job'[j].sched = PlanPoint(s.row)
      /\ job'[j].state = "live"
      /\ \A k \in Jobs : k # j => job'[k] = job[k]
  BY <1>0, <1>1 DEF ScanClaim, Claimable, Live, TypeOK, Row
<1>6. /\ work'[w] = [pc |-> "claimed", job |-> j, cfg |-> s.row.cfg,
                     sched |-> PlanPoint(s.row), token |-> Token(s),
                     since |-> now, next |-> NoTime]
      /\ \A v \in Workers : v # w => work'[v] = work[v]
      /\ work' = [work EXCEPT ![w] = work'[w]]
  BY <1>0 DEF ScanClaim, TypeOK
<1>7. Busy(work'[w]) /\ work'[w].job = j /\ work'[w].since = now /\ work'[w].token = Token(s)
  BY <1>6 DEF Busy
<1>8. InFlight(j)' = InFlight(j) \cup {w}
  BY <1>6, <1>7, <1>1 DEF InFlight, Busy, Idle
<1>9. \A k \in Jobs : k # j => InFlight(k)' = InFlight(k)
  BY <1>6, <1>7, <1>1 DEF InFlight, Busy, Idle
<1>10. now' = now /\ \A h \in Instances : scan'[h] = scan[h] \/ scan'[h] = Idle
  BY DEF ScanClaim, TypeOK
<1>11. LeasesDisjoint'
  <2> SUFFICES ASSUME NEW k \in Jobs, NEW u \in InFlight(k)', NEW v \in InFlight(k)', u # v
               PROVE  work'[u].token =< work'[v].since \/ work'[v].token =< work'[u].since
    BY DEF LeasesDisjoint
  <2>1. u \in Workers /\ v \in Workers
    BY DEF InFlight
  <2>2. CASE k # j
    <3>1. u # w /\ v # w
      BY <2>2, <1>7 DEF InFlight
    <3> QED BY <2>1, <2>2, <3>1, <1>6, <1>9 DEF LeaseInv, LeasesDisjoint
  <2>3. CASE k = j
    BY <2>1, <2>3, <1>4, <1>6, <1>7, <1>8 DEF LeaseInv, LeasesDisjoint
  <2> QED BY <2>2, <2>3
<1>12. \A k \in Jobs : \A v \in InFlight(k)' :
         /\ work'[v].since =< now
         /\ job'[k].state # "new"
         /\ \/ work'[v].token =< now
            \/ job'[k].next = work'[v].token /\ job'[k].sched # NoTime
  <2> SUFFICES ASSUME NEW k \in Jobs, NEW v \in InFlight(k)'
               PROVE  /\ work'[v].since =< now
                      /\ job'[k].state # "new"
                      /\ \/ work'[v].token =< now
                         \/ job'[k].next = work'[v].token /\ job'[k].sched # NoTime
    OBVIOUS
  <2>1. CASE v = w
    <3>1. k = j
      BY <2>1, <1>7 DEF InFlight
    <3> QED BY <2>1, <3>1, <1>1, <1>3, <1>5, <1>7
  <2>2. CASE v # w
    <3>1. v \in InFlight(k) /\ work'[v] = work[v]
      BY <2>2, <1>6, <1>8, <1>9 DEF InFlight
    <3> QED BY <3>1, <1>4, <1>5 DEF LeaseInv
  <2> QED BY <2>1, <2>2
<1>13. LeaseInv'
  BY <1>10, <1>11, <1>12 DEF LeaseInv, Idle
<1> QED BY <1>0, <1>4, <1>6, <1>7, <1>13

\* What a step does to the abstract leases: nothing, or one acquired or released.
LeaseStep == [Lease!Next]_<<now, Leases>>

LEMMA SameLeases ==
  ASSUME now' = now, \A j \in Jobs : InFlight(j)' = InFlight(j),
         \A j \in Jobs : \A w \in InFlight(j) :
            work'[w].since = work[w].since /\ work'[w].token = work[w].token
  PROVE  LeaseStep
<1> DEFINE Recs(k) == {[who |-> v, since |-> work[v].since, until |-> work[v].token] :
                         v \in InFlight(k)}
           Post(k) == {[who |-> v, since |-> work'[v].since, until |-> work'[v].token] :
                         v \in InFlight(k)'}
<1>1. \A k \in Jobs : Post(k) = Recs(k)
  OBVIOUS
<1>2. Leases = [k \in Jobs |-> Recs(k)] /\ Leases' = [k \in Jobs |-> Post(k)]
  BY DEF Leases
<1>3. Leases' = Leases
  BY <1>1, <1>2
<1> QED BY <1>3 DEF LeaseStep

\* One goroutine keeps its claim or gives it up; the others do not move.
LEMMA GoroutineStep ==
  ASSUME TypeOK, LeaseInv, NEW w \in Workers, now' = now,
         \A v \in Workers : v # w => work'[v] = work[v],
         \/ ~ Busy(work'[w])
         \/ /\ Busy(work[w]) /\ work'[w].job = work[w].job
            /\ work'[w].since = work[w].since /\ work'[w].token = work[w].token
            /\ Busy(work'[w])
  PROVE  LeaseStep
<1>1. CASE Busy(work'[w]) \/ ~ Busy(work[w])
  <2>1. \A v \in Workers : /\ Busy(work'[v]) <=> Busy(work[v])
                           /\ Busy(work[v]) => /\ work'[v].job = work[v].job
                                               /\ work'[v].since = work[v].since
                                               /\ work'[v].token = work[v].token
    BY <1>1
  <2>2. \A j \in Jobs : InFlight(j)' = InFlight(j)
    BY <2>1 DEF InFlight
  <2> QED BY <2>1, <2>2, SameLeases DEF InFlight
<1>2. CASE ~ Busy(work'[w]) /\ Busy(work[w])
  <2>1. PICK j \in Jobs : j = work[w].job
    BY <1>2 DEF TypeOK, Busy, Idle, Claim
  <2>2. InFlight(j)' = InFlight(j) \ {w} /\ w \in InFlight(j)
    BY <1>2, <2>1 DEF InFlight
  <2>3. \A k \in Jobs : k # j => InFlight(k)' = InFlight(k) /\ w \notin InFlight(k)
    BY <1>2, <2>1 DEF InFlight
  <2>4. \A k \in Jobs : \A v \in InFlight(k) : v # w => work'[v] = work[v]
    BY DEF InFlight
  <2> DEFINE Rec(v) == [who |-> v, since |-> work[v].since, until |-> work[v].token]
             Recs(k) == {Rec(v) : v \in InFlight(k)}
             Post(k) == {[who |-> v, since |-> work'[v].since, until |-> work'[v].token] :
                           v \in InFlight(k)'}
  <2>5. Post(j) = {l \in Recs(j) : l.who # w}
    BY <2>2, <2>4
  <2>6. \A k \in Jobs : k # j => Post(k) = Recs(k)
    BY <2>3, <2>4
  <2>7. Leases = [k \in Jobs |-> Recs(k)] /\ Leases' = [k \in Jobs |-> Post(k)]
    BY DEF Leases
  <2>8. Leases' = [Leases EXCEPT ![j] = {l \in @ : l.who # w}]
    BY <2>5, <2>6, <2>7
  <2>9. \E l \in Leases[j] : l.who = w
    <3>1. Rec(w) \in Recs(j) /\ Rec(w).who = w
      BY <2>2
    <3>2. Leases[j] = Recs(j)
      BY <2>7
    <3> QED BY <3>1, <3>2
  <2>10. Lease!Release(j, w)
    BY <2>8, <2>9 DEF Lease!Release
  <2> QED BY <2>10 DEF LeaseStep, Lease!Next
<1> QED BY <1>1, <1>2

\* A claim acquires an abstract lease.
LEMMA ClaimStep ==
  ASSUME TypeOK, LeaseInv, NEW i \in Instances, NEW w \in Workers, ScanClaim(i, w)
  PROVE  LeaseStep
<1>1. PICK j \in Jobs : j = scan[i].job
  BY ClaimLeaseInv
<1>2. /\ \A v \in InFlight(j) : v # w /\ work[v].token =< now
      /\ work' = [work EXCEPT ![w] = work'[w]]
      /\ Busy(work'[w]) /\ work'[w].job = j
      /\ work'[w].since = now /\ work'[w].token = Token(scan[i])
  BY <1>1, ClaimLeaseInv
<1>3. now' = now /\ scan[i] \in Snapshot /\ ~ Busy(work[w])
  BY DEF ScanClaim, TypeOK, Idle, Busy
<1>4. \A v \in Workers : v # w => work'[v] = work[v]
  BY <1>2 DEF TypeOK
<1>5. InFlight(j)' = InFlight(j) \cup {w} /\ w \notin InFlight(j)
  BY <1>2, <1>3, <1>4 DEF InFlight
<1>6. \A k \in Jobs : k # j => InFlight(k)' = InFlight(k) /\ w \notin InFlight(k)
  BY <1>2, <1>3, <1>4 DEF InFlight
<1>7. \A k \in Jobs : \A v \in InFlight(k) : v # w => work'[v] = work[v]
  BY <1>4 DEF InFlight
<1> DEFINE Recs(k) == {[who |-> v, since |-> work[v].since, until |-> work[v].token] :
                         v \in InFlight(k)}
           Post(k) == {[who |-> v, since |-> work'[v].since, until |-> work'[v].token] :
                         v \in InFlight(k)'}
<1>8. Post(j) = Recs(j) \cup {[who |-> w, since |-> now, until |-> Token(scan[i])]}
  BY <1>2, <1>5, <1>7
<1>9. \A k \in Jobs : k # j => Post(k) = Recs(k)
  BY <1>6, <1>7
<1>10. Leases = [k \in Jobs |-> Recs(k)] /\ Leases' = [k \in Jobs |-> Post(k)]
  BY DEF Leases
<1>11. Leases' = [Leases EXCEPT ![j] =
                    @ \cup {[who |-> w, since |-> now, until |-> Token(scan[i])]}]
  BY <1>8, <1>9, <1>10
<1>12. \A l \in Leases[j] : l.who # w /\ l.until =< now
  BY <1>2, <1>10
<1>13. Lease!Acquire(j, w, Token(scan[i]))
  BY <1>3, <1>11, <1>12 DEF Lease!Acquire
<1>14. Token(scan[i]) \in {t + c.lock : t \in 1 .. MaxTime, c \in Configs}
  BY <1>3 DEF Token, Snapshot, Row
<1> QED BY <1>13, <1>14 DEF LeaseStep, Lease!Next

\* A step of one goroutine that takes no claim.
LEMMA GoroutineLease ==
  ASSUME TypeOK, LeaseInv, NEW w \in Workers, now' = now, scan' = scan,
         \A v \in Workers : v # w => work'[v] = work[v],
         \/ ~ Busy(work'[w])
         \/ /\ Busy(work[w]) /\ work'[w].job = work[w].job
            /\ work'[w].since = work[w].since /\ work'[w].token = work[w].token
            /\ Busy(work'[w]),
         \A j \in Jobs : job[j].state # "new" => job'[j].state # "new",
         \A j \in Jobs :
            \/ job'[j].next = job[j].next /\ job'[j].sched = job[j].sched
            \/ \A v \in InFlight(j)' : work[v].token =< now
  PROVE  LeaseInv' /\ LeaseStep
<1>1. now \in Nat
  BY BoundsAssumption DEF TypeOK
<1>2. LeaseInv'
  BY <1>1, KeptLeaseInv
<1>3. LeaseStep
  BY GoroutineStep
<1> QED BY <1>2, <1>3

\* A step that leaves the goroutines alone.
LEMMA TableLease ==
  ASSUME TypeOK, LeaseInv, now' = now, work' = work,
         \A i \in Instances : scan'[i].pc = "selected" => scan'[i] = scan[i],
         \A j \in Jobs : job[j].state # "new" => job'[j].state # "new",
         \A j \in Jobs :
            \/ job'[j].next = job[j].next /\ job'[j].sched = job[j].sched
            \/ \A v \in InFlight(j) : work[v].token =< now
  PROVE  LeaseInv' /\ LeaseStep
<1>1. now \in Nat
  BY BoundsAssumption DEF TypeOK
<1>2. \A j \in Jobs : InFlight(j)' = InFlight(j)
  BY DEF InFlight
<1>3. LeaseInv'
  BY <1>1, <1>2, KeptLeaseInv
<1>4. LeaseStep
  BY <1>2, SameLeases
<1> QED BY <1>3, <1>4

\* The goroutine that completes a job leaves no unexpired lease behind: two
\* claims with the token of the row would be disjoint only if it has expired.
LEMMA CompleteLease ==
  ASSUME TypeOK, LeaseInv, NEW w \in Workers, CompleteOK(w)
  PROVE  LeaseInv' /\ LeaseStep
<1>1. PICK j \in Jobs : j = work[w].job
  BY DEF CompleteOK, Completes, TypeOK, Idle, Claim
<1>2. Busy(work[w]) /\ w \in InFlight(j) /\ job[j].next = work[w].token
  BY <1>1 DEF CompleteOK, Completes, Busy, InFlight
<1>3. now' = now /\ scan' = scan /\ work'[w] = Idle
      /\ \A v \in Workers : v # w => work'[v] = work[v]
  BY DEF CompleteOK, TypeOK
<1>4. ~ Busy(work'[w])
  BY <1>3 DEF Busy, Idle
<1>5. \A v \in InFlight(j)' : v \in InFlight(j) /\ v # w
  BY <1>3, <1>4 DEF InFlight
<1>6. \A v \in InFlight(j)' : work[v].token =< now
  <2> SUFFICES ASSUME NEW v \in InFlight(j)' PROVE work[v].token =< now
    OBVIOUS
  <2>1. v \in InFlight(j) /\ v # w
    BY <1>5
  <2>2. /\ work[v].since \in Nat /\ work[v].token \in Nat
        /\ work[w].since \in Nat /\ work[w].token \in Nat /\ now \in Nat
    BY <1>2, <2>1, BoundsAssumption DEF TypeOK, Claim, Busy, InFlight, Idle
  <2>3. work[v].token =< work[w].since \/ work[w].token =< work[v].since
    BY <1>2, <2>1 DEF LeaseInv, LeasesDisjoint
  <2>4. /\ work[v].since =< now /\ work[w].since =< now
        /\ work[v].token =< now \/ job[j].next = work[v].token
    BY <1>2, <2>1 DEF LeaseInv
  <2> QED BY <1>2, <2>2, <2>3, <2>4
<1>7. \A k \in Jobs : job'[k].state = job[k].state /\ (k # j => job'[k] = job[k])
  BY <1>1 DEF CompleteOK, TypeOK, Row
<1> QED BY <1>3, <1>4, <1>6, <1>7, GoroutineLease

\* The other steps of a goroutine move no row.
LEMMA WorkLease ==
  ASSUME TypeOK, LeaseInv, NEW w \in Workers,
         \/ StartTask(w) \/ HandlerSucceeds(w) \/ CompleteLost(w) \/ RunNowDone(w)
         \/ HandlerDeletes(w) \/ Abandon(w) \/ \E j \in Jobs : RunNow(w, j)
  PROVE  LeaseInv' /\ LeaseStep
<1>1. now' = now /\ scan' = scan /\ job' = job
      /\ \A v \in Workers : v # w => work'[v] = work[v]
  BY DEF StartTask, HandlerSucceeds, CompleteLost, RunNowDone, HandlerDeletes,
         Abandon, RunNow, TypeOK
<1>2. work[w] \in Claim \/ work[w] = Idle
  BY DEF TypeOK
<1>3. \/ ~ Busy(work'[w])
      \/ /\ Busy(work[w]) /\ work'[w].job = work[w].job
         /\ work'[w].since = work[w].since /\ work'[w].token = work[w].token
         /\ Busy(work'[w])
  <2>1. CASE StartTask(w)
    <3>1. \/ work' = [work EXCEPT ![w].pc = "finishing",
                                  ![w].next = ComputeNextRun(work[w].cfg, work[w].sched)]
          \/ work' = [work EXCEPT ![w].pc = "running"]
      BY <2>1 DEF StartTask
    <3>2. Busy(work[w]) /\ work[w] \in Claim
      BY <1>2, <2>1 DEF StartTask, Busy, Idle
    <3> QED BY <3>1, <3>2 DEF Busy, Claim, TypeOK
  <2>2. CASE HandlerSucceeds(w)
    <3>1. work' = [work EXCEPT ![w].pc = "finishing",
                               ![w].next = ComputeNextRun(work[w].cfg, work[w].sched)]
      BY <2>2 DEF HandlerSucceeds
    <3>2. Busy(work[w]) /\ work[w] \in Claim
      BY <1>2, <2>2 DEF HandlerSucceeds, Busy, Idle
    <3> QED BY <3>1, <3>2 DEF Busy, Claim, TypeOK
  <2>3. CASE CompleteLost(w) \/ RunNowDone(w) \/ Abandon(w)
    BY <2>3 DEF CompleteLost, RunNowDone, Abandon, Busy, Idle, TypeOK
  <2>4. CASE HandlerDeletes(w)
    <3>1. work[w] \in Claim
      BY <1>2, <2>4 DEF HandlerDeletes, Idle
    <3> QED BY <2>4, <3>1 DEF HandlerDeletes, Busy, Claim, TypeOK
  <2>5. CASE \E j \in Jobs : RunNow(w, j)
    BY <2>5 DEF RunNow, Busy, TypeOK
  <2> QED BY <2>1, <2>2, <2>3, <2>4, <2>5
<1> QED BY <1>1, <1>3, GoroutineLease

\* A deletion keeps the lease columns of the row.
LEMMA DeleteLease ==
  ASSUME TypeOK, LeaseInv,
         (\E w \in Workers : DeleteTask(w)) \/ (\E j \in Jobs : Delete(j) \/ Disable(j))
  PROVE  LeaseInv' /\ LeaseStep
<1>1. \A k \in Jobs : /\ job'[k].next = job[k].next /\ job'[k].sched = job[k].sched
                      /\ job[k].state # "new" => job'[k].state # "new"
  <2>1. CASE \E j \in Jobs : DeleteRow(j)
    <3>1. PICK j \in Jobs : job' = [job EXCEPT ![j].state = IF @ = "live" THEN "deleted" ELSE @]
      BY <2>1 DEF DeleteRow
    <3> QED BY <3>1 DEF TypeOK, Row
  <2>2. CASE \E j \in Jobs : Disable(j)
    <3>1. PICK j \in Jobs : job' = [job EXCEPT ![j].on = FALSE]
      BY <2>2 DEF Disable
    <3> QED BY <3>1 DEF TypeOK, Row
  <2>3. ASSUME NEW w \in Workers, DeleteTask(w) PROVE work[w].job \in Jobs
    BY <2>3 DEF DeleteTask, TypeOK, Idle, Claim
  <2> QED BY <2>1, <2>2, <2>3 DEF DeleteTask, Delete
<1>2. CASE \E w \in Workers : DeleteTask(w)
  <2>1. PICK w \in Workers : DeleteTask(w)
    BY <1>2
  <2>2. now' = now /\ scan' = scan /\ ~ Busy(work'[w])
        /\ \A v \in Workers : v # w => work'[v] = work[v]
    BY <2>1 DEF DeleteTask, TypeOK, Busy, Idle
  <2> QED BY <1>1, <2>2, GoroutineLease
<1>3. CASE \E j \in Jobs : Delete(j) \/ Disable(j)
  <2>1. now' = now /\ scan' = scan /\ work' = work
    BY <1>3 DEF Delete, Disable
  <2> QED BY <1>1, <2>1, TableLease
<1> QED BY <1>2, <1>3

\* A management call moves a row only when no lease on it is unexpired.
LEMMA OperatorLease ==
  ASSUME TypeOK, LeaseInv,
         \/ \E j \in Jobs, c \in Configs, b \in BOOLEAN : Create(j, c, b)
         \/ \E a \in Admins, j \in Jobs, c \in Configs, b \in BOOLEAN : UpdateRead(a, j, c, b)
         \/ \E a \in Admins, j \in Jobs : EnableRead(a, j)
         \/ \E a \in Admins : UpdateStore(a) \/ QuietEnable(a)
  PROVE  LeaseInv' /\ LeaseStep
<1>1. now' = now /\ scan' = scan /\ work' = work
  BY DEF Create, UpdateRead, EnableRead, UpdateStore, QuietEnable, SetEnabled
<1>2. /\ \A k \in Jobs : job[k].state # "new" => job'[k].state # "new"
      /\ \A k \in Jobs : \/ job'[k].next = job[k].next /\ job'[k].sched = job[k].sched
                         \/ \A v \in InFlight(k) : work[v].token =< now
  <2>1. CASE \E j \in Jobs, c \in Configs, b \in BOOLEAN : Create(j, c, b)
    <3>1. PICK j \in Jobs : /\ job[j].state = "new" /\ job'[j].state = "live"
                            /\ \A k \in Jobs : k # j => job'[k] = job[k]
      BY <2>1 DEF Create, TypeOK
    <3>2. InFlight(j) = {}
      BY <3>1 DEF LeaseInv
    <3> QED BY <3>1, <3>2
  <2>2. CASE \/ \E a \in Admins, j \in Jobs, c \in Configs, b \in BOOLEAN : UpdateRead(a, j, c, b)
             \/ \E a \in Admins, j \in Jobs : EnableRead(a, j)
    BY <2>2 DEF UpdateRead, EnableRead
  <2>3. CASE \E a \in Admins : UpdateStore(a)
    <3>1. PICK a \in Admins : UpdateStore(a)
      BY <2>3
    <3>2. PICK j \in Jobs : j = admin[a].job
      BY <3>1 DEF UpdateStore, TypeOK, Request, Idle
    <3>3. CASE job' = job
      BY <3>3
    <3>4. CASE job' # job
      <4>1. job[j].sched = NoTime
        BY <3>1, <3>2, <3>4 DEF UpdateStore
      <4>2. \A v \in InFlight(j) : work[v].token =< now
        BY <4>1 DEF LeaseInv
      <4>3. job' = [job EXCEPT ![j].cfg = admin[a].cfg, ![j].next = admin[a].next]
        BY <3>1, <3>2, <3>4 DEF UpdateStore
      <4>4. \A k \in Jobs : job'[k].state = job[k].state /\ (k # j => job'[k] = job[k])
        BY <4>3 DEF TypeOK, Row
      <4>5. ASSUME NEW k \in Jobs
            PROVE  \/ job'[k].next = job[k].next /\ job'[k].sched = job[k].sched
                   \/ \A v \in InFlight(k) : work[v].token =< now
        <5>1. CASE k = j
          BY <5>1, <4>2
        <5>2. CASE k # j
          BY <5>2, <4>4
        <5> QED BY <5>1, <5>2
      <4>6. \A k \in Jobs : job[k].state # "new" => job'[k].state # "new"
        BY <4>4
      <4> QED BY <4>5, <4>6
    <3> QED BY <3>3, <3>4
  <2>4. CASE \E a \in Admins : QuietEnable(a)
    <3>1. PICK a \in Admins : QuietEnable(a)
      BY <2>4
    <3>0. admin[a].pc = "enabling"
      BY <3>1 DEF QuietEnable, SetEnabled
    <3>2. PICK j \in Jobs : j = admin[a].job
      BY <3>0 DEF TypeOK, Request, Idle
    <3>3. InFlight(j) = {}
      BY <3>1, <3>2 DEF QuietEnable
    <3>4. \A k \in Jobs : job'[k].state = job[k].state /\ (k # j => job'[k] = job[k])
      <4>1. CASE job' = job
        BY <4>1
      <4>2. CASE job' # job
        <5>1. job' = [job EXCEPT ![j] = [@ EXCEPT !.on = TRUE, !.next = admin[a].next,
                                                  !.sched = NoTime]]
          BY <3>1, <3>2, <4>2 DEF QuietEnable, SetEnabled
        <5> QED BY <5>1 DEF TypeOK, Row
      <4> QED BY <4>1, <4>2
    <3> QED BY <3>3, <3>4
  <2> QED BY <2>1, <2>2, <2>3, <2>4
<1> QED BY <1>1, <1>2, TableLease

\* The clock only makes leases expire.
LEMMA TickLease ==
  ASSUME TypeOK, LeaseInv, Tick
  PROVE  LeaseInv' /\ LeaseStep
<1>1. now \in Nat /\ now' = now + 1 /\ job' = job /\ scan' = scan /\ work' = work
  BY BoundsAssumption DEF TypeOK, Tick
<1>2. LeaseInv'
  BY <1>1, KeptLeaseInv
<1>3. Leases' = Leases
  BY <1>1 DEF Leases, InFlight
<1> QED BY <1>1, <1>2, <1>3 DEF LeaseStep, Lease!Next, Lease!Tick

\* A scan reads a due row.
LEMMA ScanLease ==
  ASSUME TypeOK, LeaseInv, \E i \in Instances : ScanSelect(i) \/ ScanLost(i)
  PROVE  LeaseInv' /\ LeaseStep
<1>1. now' = now /\ job' = job /\ work' = work /\ now \in Nat
  BY BoundsAssumption DEF ScanSelect, ScanLost, TypeOK
<1>2. CASE \E i \in Instances : ScanSelect(i)
  <2>1. PICK i \in Instances : ScanSelect(i)
    BY <1>2
  <2>2. PICK j \in Jobs : /\ Due(j)
                         /\ scan' = [scan EXCEPT ![i] = [pc |-> "selected", job |-> j,
                                                         at |-> now, row |-> job[j]]]
    BY <2>1 DEF ScanSelect
  <2>3. \A h \in Instances : scan'[h].pc = "selected" =>
          /\ scan'[h].at =< now
          /\ scan'[h].row.next # NoTime /\ scan'[h].row.next =< scan'[h].at
    BY <1>1, <2>2 DEF Due, LeaseInv, TypeOK
  <2>4. \A k \in Jobs : InFlight(k)' = InFlight(k)
    BY <1>1 DEF InFlight
  <2>5. LeasesDisjoint'
    BY <1>1, <2>4 DEF LeaseInv, LeasesDisjoint
  <2>6. LeaseInv'
    BY <1>1, <2>3, <2>4, <2>5 DEF LeaseInv
  <2>7. LeaseStep
    BY <1>1, <2>4, SameLeases
  <2> QED BY <2>6, <2>7
<1>3. CASE \E i \in Instances : ScanLost(i)
  BY <1>1, <1>3, TableLease DEF ScanLost, TypeOK, Idle
<1> QED BY <1>2, <1>3

\* Every quiet step keeps the invariant and is a step of the abstract leases.
LEMMA QuietStep ==
  ASSUME TypeOK, LeaseInv, [QuietNext]_vars
  PROVE  LeaseInv' /\ LeaseStep
<1>1. CASE \E i \in Instances, w \in Workers : ScanClaim(i, w)
  BY <1>1, ClaimLeaseInv, ClaimStep
<1>2. CASE \E i \in Instances : ScanSelect(i) \/ ScanLost(i)
  BY <1>2, ScanLease
<1>3. CASE \E w \in Workers : CompleteOK(w)
  BY <1>3, CompleteLease
<1>4. CASE \E w \in Workers :
             \/ StartTask(w) \/ HandlerSucceeds(w) \/ CompleteLost(w) \/ RunNowDone(w)
             \/ HandlerDeletes(w) \/ Abandon(w) \/ \E j \in Jobs : RunNow(w, j)
  BY <1>4, WorkLease
<1>5. CASE \/ \E w \in Workers : DeleteTask(w)
           \/ \E j \in Jobs : Delete(j) \/ Disable(j)
  BY <1>5, DeleteLease
<1>6. CASE \/ \E j \in Jobs, c \in Configs, b \in BOOLEAN : Create(j, c, b)
           \/ \E a \in Admins, j \in Jobs, c \in Configs, b \in BOOLEAN : UpdateRead(a, j, c, b)
           \/ \E a \in Admins, j \in Jobs : EnableRead(a, j)
           \/ \E a \in Admins : UpdateStore(a) \/ QuietEnable(a)
  BY <1>6, OperatorLease
<1>7. CASE Tick
  BY <1>7, TickLease
<1>8. CASE UNCHANGED vars
  <2>1. now' = now /\ work' = work /\ scan' = scan /\ job' = job
    BY <1>8 DEF vars
  <2> QED BY <2>1, TableLease
<1> QED
  BY <1>1, <1>2, <1>3, <1>4, <1>5, <1>6, <1>7, <1>8
     DEF QuietNext, Base, Goroutine, Operator

\* A quiet step is a step of the code.
LEMMA QuietIsNext == [QuietNext]_vars => [Next]_vars
BY DEF QuietNext, QuietEnable, Next

LEMMA QuietInvariant == QuietSpec => [](TypeOK /\ LeaseInv)
<1>1. Init => TypeOK /\ LeaseInv
  BY InitTypeOK, InitLeaseInv
<1>2. TypeOK /\ LeaseInv /\ [QuietNext]_vars => (TypeOK /\ LeaseInv)'
  BY NextTypeOK, QuietStep, QuietIsNext
<1> QED BY <1>1, <1>2, PTL DEF QuietSpec

\* While no job is re-enabled under a run in flight, the leases of one job
\* never overlap: whatever the scans, crashes, updates and delays.
THEOREM LeasesNeverOverlap == QuietSpec => []LeasesDisjoint
<1>1. TypeOK /\ LeaseInv => LeasesDisjoint
  BY DEF LeaseInv
<1> QED BY <1>1, QuietInvariant, PTL

\* And the table implements the abstract leases: each claim takes a lease only
\* when all those held on the job have expired.
THEOREM LeaseRefinement == QuietSpec => LeaseImplemented
<1>1. Init => Lease!Init
  <2>1. Init => \A j \in Jobs : InFlight(j) = {}
    BY DEF Init, InFlight, Busy, Idle
  <2> QED BY <2>1 DEF Init, Lease!Init, Leases
<1>2. TypeOK /\ LeaseInv /\ [QuietNext]_vars => [Lease!Next]_<<now, Leases>>
  BY QuietStep DEF LeaseStep
<1> QED BY <1>1, <1>2, QuietInvariant, PTL DEF QuietSpec, LeaseImplemented, Lease!Spec

-----------------------------------------------------------------------------
(* Planned points, when operators are quiet, claims timely, and no lease     *)
(* token is a planned point (DisciplinedSpec).                               *)

OnPlan(n) == n \in PlanPoints \cup {NoTime}

\* Then the row itself tells which of its two meanings next_run has.
RowOnPlan(row) == OnPlan(row.sched) /\ (row.sched = NoTime <=> OnPlan(row.next))

RowsInv == \A j \in Jobs : RowOnPlan(job[j])

\* A scan whose next_run is that of the table has read the point of the table.
ScansInv ==
  \A i \in Instances : scan[i].pc = "selected" =>
    /\ RowOnPlan(scan[i].row)
    /\ job[scan[i].job].next = scan[i].row.next
         => PlanPoint(job[scan[i].job]) = PlanPoint(scan[i].row)

RequestsInv == \A a \in Admins : admin[a].pc # "idle" => OnPlan(admin[a].next)

\* A run whose token is in the row is the last that claimed the job, runs for
\* the point of the row, and has served it when it is about to complete.
RunsInv ==
  \A j \in Jobs : \A w \in InFlight(j) :
    /\ ~OnPlan(work[w].token)
    /\ work[w].pc = "finishing" =>
         OnPlan(work[w].next) /\ (work[w].next = NoTime \/ work[w].next > work[w].sched)
    /\ job[j].next = work[w].token =>
         /\ holder[j] = {w} /\ job[j].sched = work[w].sched
         /\ work[w].pc = "finishing" => work[w].sched \in served[j]

PlanInv == RowsInv /\ ScansInv /\ RequestsInv /\ RunsInv

\* What the schedule helpers return is on the plan, and the next run is later.
LEMMA NextAfterOnPlan ==
  ASSUME NEW c \in Configs, NEW t \in Nat
  PROVE  OnPlan(NextAfter(c, t)) /\ (NextAfter(c, t) = NoTime \/ NextAfter(c, t) > t)
<1> DEFINE S == {p \in c.occ : p > t}
<1>1. Earliest(S) \in S \cup {NoTime}
  BY DEF Earliest, Least
<1>2. c.occ \subseteq PlanPoints
  BY DEF PlanPoints
<1> QED BY <1>1, <1>2 DEF NextAfter, OnPlan

LEMMA FirstRunOnPlan ==
  ASSUME NEW c \in Configs, NEW t \in Nat, NEW b \in BOOLEAN
  PROVE  OnPlan(FirstRun(c, t, b))
<1> DEFINE S == {p \in c.occ : p >= t}
           R == {p \in c.occ : p =< t}
<1>1. Earliest(S) \in S \cup {NoTime} /\ Latest(R) \in R \cup {NoTime}
  BY DEF Earliest, Least, Latest, Greatest
<1>2. c.occ \subseteq PlanPoints
  BY DEF PlanPoints
<1> QED BY <1>1, <1>2 DEF FirstRun, OnPlan

LEMMA NextRunOnPlan ==
  ASSUME NEW c \in Configs, NEW p \in Nat, now \in Nat
  PROVE  OnPlan(ComputeNextRun(c, p)) /\ (ComputeNextRun(c, p) = NoTime \/ ComputeNextRun(c, p) > p)
<1> DEFINE t == IF p > now THEN p ELSE now
<1>1. t \in Nat /\ t >= p
  OBVIOUS
<1>2. OnPlan(NextAfter(c, t)) /\ (NextAfter(c, t) = NoTime \/ NextAfter(c, t) > t)
  BY <1>1, NextAfterOnPlan
<1>3. NextAfter(c, t) \in Nat
  BY <1>1, NextAfterType
<1> QED BY <1>1, <1>2, <1>3 DEF ComputeNextRun

\* The columns that matter of rows that are written.
LEMMA UpdatedFields ==
  ASSUME NEW r \in Row, NEW n \in Nat, NEW c \in Configs
  PROVE  /\ [r EXCEPT !.cfg = c, !.next = n].next = n
         /\ [r EXCEPT !.cfg = c, !.next = n].sched = r.sched
BY DEF Row

LEMMA EnabledFields ==
  ASSUME NEW r \in Row, NEW n
  PROVE  /\ [r EXCEPT !.on = TRUE, !.next = n, !.sched = NoTime].next = n
         /\ [r EXCEPT !.on = TRUE, !.next = n, !.sched = NoTime].sched = NoTime
BY DEF Row

\* What a step may do to a row, and to a run, other than a claim.
RowKept(j) == /\ job'[j].next = job[j].next /\ job'[j].sched = job[j].sched
              /\ holder'[j] = holder[j] /\ served[j] \subseteq served'[j]
RowReplanned(j) == job'[j].sched = NoTime /\ OnPlan(job'[j].next)

RunKept(w) ==
  Busy(work'[w]) =>
    /\ Busy(work[w]) /\ work'[w].job = work[w].job
    /\ work'[w].token = work[w].token /\ work'[w].sched = work[w].sched
    /\ work'[w].pc = "finishing" =>
         \/ work[w].pc = "finishing" /\ work'[w].next = work[w].next
         \/ /\ OnPlan(work'[w].next)
            /\ work'[w].next = NoTime \/ work'[w].next > work'[w].sched
            /\ work'[w].sched \in served'[work'[w].job]

\* Every step but a scan and a claim.
LEMMA PlanKept ==
  ASSUME TypeOK, PlanInv,
         \A j \in Jobs : RowKept(j) \/ RowReplanned(j),
         \A i \in Instances : scan'[i] = scan[i] \/ scan'[i] = Idle,
         \A a \in Admins : \/ admin'[a] = admin[a] \/ admin'[a] = Idle
                           \/ OnPlan(admin'[a].next),
         \A w \in Workers : RunKept(w)
  PROVE  PlanInv'
<1>1. RowsInv'
  BY DEF RowKept, RowReplanned, PlanInv, RowsInv, RowOnPlan, OnPlan, PlanPoints
<1>2. ScansInv'
  <2> SUFFICES ASSUME NEW i \in Instances, scan'[i].pc = "selected"
               PROVE  /\ RowOnPlan(scan'[i].row)
                      /\ job'[scan'[i].job].next = scan'[i].row.next
                           => PlanPoint(job'[scan'[i].job]) = PlanPoint(scan'[i].row)
    BY DEF ScansInv, RowOnPlan, OnPlan, PlanPoint, PlanPoints
  <2>1. scan'[i] = scan[i] /\ scan[i].pc = "selected"
    BY DEF Idle
  <2>2. PICK j \in Jobs : j = scan[i].job
    BY <2>1 DEF TypeOK, Snapshot, Idle
  <2>3. /\ RowOnPlan(scan[i].row)
        /\ job[j].next = scan[i].row.next => PlanPoint(job[j]) = PlanPoint(scan[i].row)
    BY <2>1, <2>2 DEF PlanInv, ScansInv
  <2>4. CASE RowKept(j)
    BY <2>1, <2>2, <2>3, <2>4 DEF RowKept, PlanPoint
  <2>5. CASE RowReplanned(j)
    BY <2>1, <2>2, <2>3, <2>5 DEF RowReplanned, RowOnPlan, PlanPoint
  <2> QED BY <2>4, <2>5
<1>3. RequestsInv'
  BY DEF PlanInv, RequestsInv, Idle, OnPlan, PlanPoints
<1>4. RunsInv'
  <2> SUFFICES ASSUME NEW j \in Jobs, NEW w \in InFlight(j)'
               PROVE  /\ ~OnPlan(work'[w].token)
                      /\ work'[w].pc = "finishing" =>
                           /\ OnPlan(work'[w].next)
                           /\ work'[w].next = NoTime \/ work'[w].next > work'[w].sched
                      /\ job'[j].next = work'[w].token =>
                           /\ holder'[j] = {w} /\ job'[j].sched = work'[w].sched
                           /\ work'[w].pc = "finishing" => work'[w].sched \in served'[j]
    BY DEF RunsInv, OnPlan, PlanPoints
  <2>1. w \in Workers /\ Busy(work'[w]) /\ work'[w].job = j
    BY DEF InFlight, Busy
  <2>2. w \in InFlight(j)
    BY <2>1 DEF RunKept, InFlight
  <2>3. /\ ~OnPlan(work[w].token)
        /\ work[w].pc = "finishing" =>
             OnPlan(work[w].next) /\ (work[w].next = NoTime \/ work[w].next > work[w].sched)
        /\ job[j].next = work[w].token =>
             /\ holder[j] = {w} /\ job[j].sched = work[w].sched
             /\ work[w].pc = "finishing" => work[w].sched \in served[j]
    BY <2>2 DEF PlanInv, RunsInv
  <2>4. CASE RowKept(j)
    BY <2>1, <2>3, <2>4 DEF RunKept, RowKept
  <2>5. CASE RowReplanned(j)
    BY <2>1, <2>3, <2>5 DEF RunKept, RowReplanned
  <2> QED BY <2>4, <2>5
<1> QED BY <1>1, <1>2, <1>3, <1>4 DEF PlanInv

LEMMA SelectPlan ==
  ASSUME TypeOK, PlanInv, NEW i \in Instances, ScanSelect(i)
  PROVE  PlanInv'
<1>1. PICK j \in Jobs : scan' = [scan EXCEPT ![i] = [pc |-> "selected", job |-> j,
                                                    at |-> now, row |-> job[j]]]
  BY DEF ScanSelect
<1>2. UNCHANGED <<job, work, admin, holder, served>>
  BY DEF ScanSelect
<1>3. /\ scan'[i].job = j /\ scan'[i].row = job[j]
      /\ \A h \in Instances : h # i => scan'[h] = scan[h]
  BY <1>1 DEF TypeOK
<1>4. RowsInv' /\ RequestsInv'
  BY <1>2 DEF PlanInv, RowsInv, RequestsInv, RowOnPlan, OnPlan, PlanPoints
<1>5. RunsInv'
  BY <1>2 DEF PlanInv, RunsInv, OnPlan, InFlight, Busy, PlanPoints
<1>6. ScansInv'
  <2> SUFFICES ASSUME NEW h \in Instances, scan'[h].pc = "selected"
               PROVE  /\ RowOnPlan(scan'[h].row)
                      /\ job[scan'[h].job].next = scan'[h].row.next
                           => PlanPoint(job[scan'[h].job]) = PlanPoint(scan'[h].row)
    BY <1>2 DEF ScansInv, RowOnPlan, OnPlan, PlanPoint, PlanPoints
  <2>1. CASE h = i
    BY <1>3, <2>1 DEF PlanInv, RowsInv
  <2>2. CASE h # i
    BY <1>3, <2>2 DEF PlanInv, ScansInv
  <2> QED BY <2>1, <2>2
<1> QED BY <1>4, <1>5, <1>6 DEF PlanInv

\* A row that was read may be claimed: what is known of both then.
LEMMA ClaimFacts ==
  ASSUME TypeOK, LeaseInv, PlanInv, NEW i \in Instances, NEW w \in Workers, OffPlanClaim(i, w),
         NEW j, j = scan[i].job
  PROVE  /\ j \in Jobs /\ scan[i].pc = "selected" /\ scan[i].row \in Row
         /\ PlanPoint(scan[i].row) = PlanPoint(job[j])
         /\ OnPlan(PlanPoint(scan[i].row)) /\ PlanPoint(scan[i].row) # NoTime
         /\ ~OnPlan(Token(scan[i])) /\ now < Token(scan[i])
         /\ \A v \in InFlight(j) : v # w /\ work[v].token =< now
<1>1. ScanClaim(i, w) /\ now < Token(scan[i]) /\ Token(scan[i]) \notin PlanPoints
  BY DEF OffPlanClaim, TimelyClaim
<1>2. scan[i] \in Snapshot /\ scan[i].row \in Row /\ j \in Jobs /\ scan[i].pc = "selected"
  BY <1>1 DEF ScanClaim, TypeOK, Snapshot, Idle
<1>3. /\ scan[i].row.next # NoTime /\ RowOnPlan(scan[i].row)
      /\ PlanPoint(scan[i].row) = PlanPoint(job[j])
  BY <1>1, <1>2 DEF ScanClaim, Claimable, LeaseInv, PlanInv, ScansInv
<1>4. OnPlan(PlanPoint(scan[i].row)) /\ PlanPoint(scan[i].row) # NoTime
  BY <1>3 DEF RowOnPlan, PlanPoint
<1>5. ~OnPlan(Token(scan[i]))
  BY <1>1, <1>2, TokenType, BoundsAssumption DEF OnPlan, NoTime, TypeOK
<1>6. \A v \in InFlight(j) : v # w /\ work[v].token =< now
  BY <1>1, ClaimLeaseInv
<1> QED BY <1>1, <1>2, <1>3, <1>4, <1>5, <1>6

\* The claim moves the point from one column to the other, and whoever has read
\* the row before will not find it again: the token is later than every row read.
LEMMA ClaimPlan ==
  ASSUME TypeOK, LeaseInv, PlanInv, NEW i \in Instances, NEW w \in Workers, OffPlanClaim(i, w)
  PROVE  PlanInv' /\ \A k \in Jobs : PlanPoint(job'[k]) = PlanPoint(job[k])
<1> DEFINE s == scan[i]
<1>1. PICK j \in Jobs : j = s.job
  BY ClaimFacts
<1>2. /\ s.pc = "selected" /\ s.row \in Row
      /\ PlanPoint(s.row) = PlanPoint(job[j])
      /\ OnPlan(PlanPoint(s.row)) /\ PlanPoint(s.row) # NoTime
      /\ ~OnPlan(Token(s)) /\ now < Token(s)
      /\ \A v \in InFlight(j) : v # w /\ work[v].token =< now
  BY <1>1, ClaimFacts
<1>3. ScanClaim(i, w)
  BY DEF OffPlanClaim, TimelyClaim
<1>4. /\ job'[j].next = Token(s) /\ job'[j].sched = PlanPoint(s.row)
      /\ \A k \in Jobs : k # j => job'[k] = job[k]
  BY <1>1, <1>3 DEF ScanClaim, TypeOK, Row
<1>5. /\ work'[w] = [pc |-> "claimed", job |-> j, cfg |-> s.row.cfg,
                     sched |-> PlanPoint(s.row), token |-> Token(s),
                     since |-> now, next |-> NoTime]
      /\ \A v \in Workers : v # w => work'[v] = work[v]
  BY <1>1, <1>3 DEF ScanClaim, TypeOK
<1>6. /\ holder'[j] = {w} /\ \A k \in Jobs : k # j => holder'[k] = holder[k]
      /\ UNCHANGED <<admin, served>>
      /\ \A h \in Instances : scan'[h] = scan[h] \/ scan'[h] = Idle
  BY <1>1, <1>3 DEF ScanClaim, TypeOK
<1>7. RowsInv'
  BY <1>2, <1>4 DEF PlanInv, RowsInv, RowOnPlan, OnPlan, PlanPoints
<1>8. RequestsInv'
  BY <1>6 DEF PlanInv, RequestsInv, OnPlan, PlanPoints
<1>9. ScansInv'
  <2> SUFFICES ASSUME NEW h \in Instances, scan'[h].pc = "selected"
               PROVE  /\ RowOnPlan(scan'[h].row)
                      /\ job'[scan'[h].job].next = scan'[h].row.next
                           => PlanPoint(job'[scan'[h].job]) = PlanPoint(scan'[h].row)
    BY DEF ScansInv, RowOnPlan, OnPlan, PlanPoint, PlanPoints
  <2>1. scan'[h] = scan[h] /\ scan[h].pc = "selected"
    BY <1>6 DEF Idle
  <2>2. /\ RowOnPlan(scan[h].row)
        /\ job[scan[h].job].next = scan[h].row.next
             => PlanPoint(job[scan[h].job]) = PlanPoint(scan[h].row)
    BY <2>1 DEF PlanInv, ScansInv
  <2>3. scan[h].job \in Jobs /\ scan[h] \in Snapshot /\ scan[h].row \in Row
    BY <2>1 DEF TypeOK, Snapshot, Idle
  <2>4. CASE scan[h].job = j
    <3>1. scan[h].row.next =< scan[h].at /\ scan[h].at =< now
      BY <2>1 DEF LeaseInv
    <3>2. scan[h].row.next # Token(s)
      BY <1>2, <2>3, <3>1, TokenType, BoundsAssumption DEF Row, Snapshot, TypeOK
    <3> QED BY <1>4, <2>1, <2>2, <2>4, <3>2
  <2>5. CASE scan[h].job # j
    BY <1>4, <2>1, <2>2, <2>3, <2>5
  <2> QED BY <2>4, <2>5
<1>10. RunsInv'
  <2> SUFFICES ASSUME NEW k \in Jobs, NEW v \in InFlight(k)'
               PROVE  /\ ~OnPlan(work'[v].token)
                      /\ work'[v].pc = "finishing" =>
                           /\ OnPlan(work'[v].next)
                           /\ work'[v].next = NoTime \/ work'[v].next > work'[v].sched
                      /\ job'[k].next = work'[v].token =>
                           /\ holder'[k] = {v} /\ job'[k].sched = work'[v].sched
                           /\ work'[v].pc = "finishing" => work'[v].sched \in served'[k]
    BY DEF RunsInv, OnPlan, PlanPoints
  <2>1. v \in Workers /\ Busy(work'[v]) /\ work'[v].job = k
    BY DEF InFlight, Busy
  <2>2. CASE v = w
    BY <1>2, <1>4, <1>5, <1>6, <2>1, <2>2
  <2>3. CASE v # w
    <3>1. v \in InFlight(k) /\ work'[v] = work[v]
      BY <1>5, <2>1, <2>3 DEF InFlight
    <3>2. /\ ~OnPlan(work[v].token)
          /\ work[v].pc = "finishing" =>
               OnPlan(work[v].next) /\ (work[v].next = NoTime \/ work[v].next > work[v].sched)
          /\ job[k].next = work[v].token =>
               /\ holder[k] = {v} /\ job[k].sched = work[v].sched
               /\ work[v].pc = "finishing" => work[v].sched \in served[k]
      BY <3>1 DEF PlanInv, RunsInv
    <3>3. CASE k = j
      <4>1. work[v].token =< now /\ work[v].token \in Nat /\ now \in Nat /\ Token(s) \in Nat
        BY <1>2, <3>1, <3>3, TokenType, BoundsAssumption
           DEF TypeOK, InFlight, Busy, Claim, Idle, Snapshot
      <4>2. job'[k].next # work[v].token
        BY <1>2, <1>4, <3>3, <4>1
      <4> QED BY <3>1, <3>2, <4>2
    <3>4. CASE k # j
      BY <1>4, <1>6, <3>1, <3>2, <3>4
    <3> QED BY <3>3, <3>4
  <2> QED BY <2>2, <2>3
<1>11. \A k \in Jobs : PlanPoint(job'[k]) = PlanPoint(job[k])
  BY <1>2, <1>4 DEF PlanPoint
<1> QED BY <1>7, <1>8, <1>9, <1>10, <1>11 DEF PlanInv

\* A step that changes neither rows nor what is read from them.
LEMMA RunsPlan ==
  ASSUME TypeOK, PlanInv, NEW w \in Workers,
         UNCHANGED <<job, scan, admin, holder>>,
         \A j \in Jobs : served[j] \subseteq served'[j],
         \A v \in Workers : v # w => work'[v] = work[v],
         RunKept(w)
  PROVE  PlanInv' /\ job' = job
<1>1. \A v \in Workers : RunKept(v)
  BY DEF RunKept
<1>2. \A j \in Jobs : RowKept(j)
  BY DEF RowKept
<1> QED BY <1>1, <1>2, PlanKept

LEMMA WorkPlan ==
  ASSUME TypeOK, PlanInv, NEW w \in Workers,
         \/ StartTask(w) \/ HandlerSucceeds(w) \/ CompleteLost(w) \/ RunNowDone(w)
         \/ HandlerDeletes(w) \/ Abandon(w) \/ \E j \in Jobs : RunNow(w, j)
  PROVE  PlanInv' /\ job' = job
<1> DEFINE c == work[w]
<1>1. UNCHANGED <<job, scan, admin, holder>> /\ \A v \in Workers : v # w => work'[v] = work[v]
  BY DEF StartTask, HandlerSucceeds, CompleteLost, RunNowDone, HandlerDeletes, Abandon, RunNow, TypeOK
<1>2. c \in Claim \cup {Idle} /\ now \in Nat
  BY BoundsAssumption DEF TypeOK
<1>3. ASSUME c.pc \in {"claimed", "running"},
             work' = [work EXCEPT ![w].pc = "finishing", ![w].next = ComputeNextRun(c.cfg, c.sched)],
             Serve(c.job, c.sched)
      PROVE  RunKept(w) /\ \A j \in Jobs : served[j] \subseteq served'[j]
  <2>0. c \in Claim
    BY <1>2, <1>3 DEF Idle
  <2>1. c \in Claim /\ c.job \in Jobs /\ c.sched \in Nat /\ c.cfg \in Configs
    BY <2>0 DEF Claim
  <2>2. /\ OnPlan(ComputeNextRun(c.cfg, c.sched))
        /\ ComputeNextRun(c.cfg, c.sched) = NoTime \/ ComputeNextRun(c.cfg, c.sched) > c.sched
    BY <1>2, <2>1, NextRunOnPlan
  <2>3. work'[w] = [c EXCEPT !.pc = "finishing", !.next = ComputeNextRun(c.cfg, c.sched)]
    BY <1>3 DEF TypeOK
  <2>4. /\ work'[w].job = c.job /\ work'[w].token = c.token /\ work'[w].sched = c.sched
        /\ work'[w].next = ComputeNextRun(c.cfg, c.sched)
    BY <2>1, <2>3 DEF Claim
  <2>5. c.sched \in served'[c.job] /\ \A j \in Jobs : served[j] \subseteq served'[j]
    BY <1>3, <2>1 DEF Serve, TypeOK
  <2> QED BY <1>3, <2>2, <2>4, <2>5 DEF RunKept, Busy
<1>4. CASE StartTask(w)
  <2>1. CASE Misfired(c)
    <3>1. /\ c.pc \in {"claimed", "running"} /\ Serve(c.job, c.sched)
          /\ work' = [work EXCEPT ![w].pc = "finishing", ![w].next = ComputeNextRun(c.cfg, c.sched)]
      BY <1>4, <2>1 DEF StartTask
    <3> QED BY <1>1, <1>3, <3>1, RunsPlan
  <2>2. CASE ~Misfired(c)
    <3>1. /\ c.pc = "claimed" /\ served' = served /\ work' = [work EXCEPT ![w].pc = "running"]
      BY <1>4, <2>2 DEF StartTask
    <3>2. work'[w] = [c EXCEPT !.pc = "running"] /\ c \in Claim
      BY <1>2, <3>1 DEF TypeOK, Idle
    <3>3. RunKept(w)
      BY <3>1, <3>2 DEF RunKept, Busy, Claim
    <3> QED BY <1>1, <3>1, <3>3, RunsPlan
  <2> QED BY <2>1, <2>2
<1>5. CASE HandlerSucceeds(w)
  <2>1. /\ c.pc \in {"claimed", "running"} /\ Serve(c.job, c.sched)
        /\ work' = [work EXCEPT ![w].pc = "finishing", ![w].next = ComputeNextRun(c.cfg, c.sched)]
    BY <1>5 DEF HandlerSucceeds
  <2> QED BY <1>1, <1>3, <2>1, RunsPlan
<1>6. CASE CompleteLost(w) \/ RunNowDone(w) \/ HandlerDeletes(w) \/ Abandon(w) \/ \E j \in Jobs : RunNow(w, j)
  <2>1. served' = served /\ work'[w].pc \in {"idle", "deleting", "manual"}
    BY <1>6, <1>2 DEF CompleteLost, RunNowDone, HandlerDeletes, Abandon, RunNow, TypeOK, Idle, Claim
  <2>2. RunKept(w)
    BY <2>1 DEF RunKept, Busy
  <2> QED BY <1>1, <2>1, <2>2, RunsPlan
<1> QED BY <1>4, <1>5, <1>6

\* Steps that leave next_run and the claim of every row alone.
LEMMA StatePlan ==
  ASSUME TypeOK, PlanInv,
         \/ \E w \in Workers : DeleteTask(w)
         \/ \E j \in Jobs : Delete(j) \/ Disable(j)
  PROVE  PlanInv' /\ \A j \in Jobs : PlanPoint(job'[j]) = PlanPoint(job[j])
<1>1. \A j \in Jobs : job'[j].next = job[j].next /\ job'[j].sched = job[j].sched
  <2>1. CASE \E j : DeleteRow(j)
    <3>1. PICK j : DeleteRow(j)
      BY <2>1
    <3> DEFINE st == IF job[j].state = "live" THEN "deleted" ELSE job[j].state
    <3>2. job' = [job EXCEPT ![j] = [job[j] EXCEPT !.state = st]]
      BY <3>1 DEF DeleteRow
    <3>3. ASSUME NEW k \in Jobs PROVE job'[k].next = job[k].next /\ job'[k].sched = job[k].sched
      <4>1. job[k] \in Row
        BY DEF TypeOK
      <4>2. job'[k] = job[k] \/ job'[k] = [job[k] EXCEPT !.state = st]
        BY <3>2 DEF TypeOK
      <4> HIDE DEF st
      <4> QED BY <4>1, <4>2 DEF Row
    <3> QED BY <3>3
  <2>2. CASE \E j \in Jobs : Disable(j)
    <3>1. PICK j \in Jobs : Disable(j)
      BY <2>2
    <3>2. \A k \in Jobs : job'[k] = job[k] \/ job'[k] = [job[k] EXCEPT !.on = FALSE]
      BY <3>1 DEF Disable, TypeOK
    <3> QED BY <3>2 DEF TypeOK, Row
  <2> QED BY <2>1, <2>2 DEF DeleteTask, Delete
<1>2. UNCHANGED <<scan, admin, holder, served>>
  BY DEF DeleteTask, Delete, Disable
<1>3. \A w \in Workers : work'[w] = work[w] \/ work'[w] = Idle
  BY DEF DeleteTask, Delete, Disable, TypeOK
<1>4. \A w \in Workers : RunKept(w)
  BY <1>3 DEF RunKept, Busy, Idle
<1>5. \A j \in Jobs : RowKept(j)
  BY <1>1, <1>2 DEF RowKept
<1>6. PlanInv'
  BY <1>2, <1>4, <1>5, PlanKept
<1> QED BY <1>1, <1>6 DEF PlanPoint

\* Completion, by the holder: the point was served, and the next one is later.
LEMMA CompletePlan ==
  ASSUME TypeOK, PlanInv, NEW w \in Workers, CompleteOK(w), NEW j, j = work[w].job
  PROVE  /\ PlanInv'
         /\ holder[j] = {w}
         /\ PlanPoint(job[j]) \in served[j]
         /\ PlanPoint(job'[j]) = NoTime \/ PlanPoint(job'[j]) > PlanPoint(job[j])
         /\ \A k \in Jobs : k # j => job'[k] = job[k]
<1> DEFINE c == work[w]
<1>1. c \in Claim /\ c.pc = "finishing" /\ j \in Jobs /\ job[j].next = c.token
  BY DEF CompleteOK, Completes, TypeOK, Idle, Claim
<1>2. w \in InFlight(j)
  BY <1>1 DEF InFlight, Busy
<1>3. /\ ~OnPlan(c.token) /\ OnPlan(c.next) /\ (c.next = NoTime \/ c.next > c.sched)
      /\ holder[j] = {w} /\ job[j].sched = c.sched /\ c.sched \in served[j]
  BY <1>1, <1>2 DEF PlanInv, RunsInv
<1>4. PlanPoint(job[j]) = c.sched
  BY <1>1, <1>3 DEF PlanInv, RowsInv, RowOnPlan, PlanPoint
<1>5. /\ job'[j].next = c.next /\ job'[j].sched = NoTime
      /\ \A k \in Jobs : k # j => job'[k] = job[k]
  BY <1>1 DEF CompleteOK, TypeOK, Row
<1>6. /\ \A k \in Jobs : k # j => holder'[k] = holder[k] /\ served'[k] = served[k]
      /\ UNCHANGED <<scan, admin>>
      /\ work' = [work EXCEPT ![w] = Idle]
  BY <1>1 DEF CompleteOK, TypeOK
<1>7. \A v \in Workers : RunKept(v)
  BY <1>6 DEF RunKept, Busy, Idle, TypeOK
<1>8. \A k \in Jobs : RowKept(k) \/ RowReplanned(k)
  BY <1>3, <1>5, <1>6 DEF RowKept, RowReplanned
<1>9. PlanInv'
  BY <1>6, <1>7, <1>8, PlanKept
<1> QED BY <1>3, <1>4, <1>5, <1>9 DEF PlanPoint

\* Operators: what they have compiled is on the plan, and they write it only to
\* rows that are new, unclaimed, or without a run.
LEMMA OperatorPlan ==
  ASSUME TypeOK, PlanInv,
         \/ \E j \in Jobs, c \in Configs, b \in BOOLEAN : Create(j, c, b)
         \/ \E a \in Admins, j \in Jobs, c \in Configs, b \in BOOLEAN : UpdateRead(a, j, c, b)
         \/ \E a \in Admins, j \in Jobs : EnableRead(a, j)
         \/ \E a \in Admins : UpdateStore(a) \/ SetEnabled(a)
  PROVE  /\ PlanInv'
         /\ \A j \in Jobs : \/ job'[j] = job[j] \/ job[j].state = "new"
                            \/ \E a \in Admins : UpdateStore(a) \/ SetEnabled(a)
<1>n. now \in Nat
  BY BoundsAssumption DEF TypeOK
<1>s. UNCHANGED <<scan, work>>
  <2>1. ASSUME NEW a \in Admins, SetEnabled(a) PROVE UNCHANGED <<scan, work>>
    BY <2>1 DEF SetEnabled
  <2>2. ASSUME NEW a \in Admins, UpdateStore(a) PROVE UNCHANGED <<scan, work>>
    BY <2>2 DEF UpdateStore
  <2> QED BY <2>1, <2>2 DEF Create, UpdateRead, EnableRead
<1>w. \A w \in Workers : RunKept(w)
  BY <1>s DEF RunKept
<1>1. ASSUME NEW j \in Jobs, NEW c \in Configs, NEW b \in BOOLEAN, Create(j, c, b)
      PROVE  PlanInv' /\ \A k \in Jobs : job'[k] = job[k] \/ job[k].state = "new"
  <2>1. /\ job[j].state = "new" /\ UNCHANGED <<admin, holder, served>>
        /\ job'[j].next = FirstRun(c, now, b) /\ job'[j].sched = NoTime
        /\ \A k \in Jobs : k # j => job'[k] = job[k]
    BY <1>1 DEF Create, TypeOK
  <2>2. \A k \in Jobs : RowKept(k) \/ RowReplanned(k)
    BY <1>n, <2>1, FirstRunOnPlan DEF RowKept, RowReplanned
  <2>3. PlanInv'
    BY <1>s, <1>w, <2>1, <2>2, PlanKept
  <2> QED BY <2>1, <2>3
<1>2. ASSUME NEW a \in Admins, NEW n, OnPlan(n), admin'[a].next = n,
             \A e \in Admins : e # a => admin'[e] = admin[e],
             UNCHANGED <<job, holder, served>>
      PROVE  PlanInv' /\ \A k \in Jobs : job'[k] = job[k]
  <2>1. \A k \in Jobs : RowKept(k)
    BY <1>2 DEF RowKept
  <2> QED BY <1>s, <1>w, <1>2, <2>1, PlanKept
<1>3. ASSUME NEW a \in Admins, NEW j \in Jobs, NEW c \in Configs, NEW b \in BOOLEAN,
             UpdateRead(a, j, c, b)
      PROVE  PlanInv' /\ \A k \in Jobs : job'[k] = job[k]
  <2>1. /\ admin'[a].next = FirstRun(c, now, b) /\ UNCHANGED <<job, holder, served>>
        /\ \A e \in Admins : e # a => admin'[e] = admin[e]
    BY <1>3 DEF UpdateRead, TypeOK
  <2>2. OnPlan(FirstRun(c, now, b))
    BY <1>n, FirstRunOnPlan
  <2> QED BY <1>2, <2>1, <2>2
<1>4. ASSUME NEW a \in Admins, NEW j \in Jobs, EnableRead(a, j)
      PROVE  PlanInv' /\ \A k \in Jobs : job'[k] = job[k]
  <2> DEFINE n == IF job[j].cfg.rrule THEN NextAfter(job[j].cfg, now) ELSE PlanPoint(job[j])
  <2>1. /\ admin'[a].next = n /\ UNCHANGED <<job, holder, served>>
        /\ \A e \in Admins : e # a => admin'[e] = admin[e]
    BY <1>4 DEF EnableRead, TypeOK
  <2>2. OnPlan(NextAfter(job[j].cfg, now))
    BY <1>n, NextAfterOnPlan DEF TypeOK, Row
  <2>3. OnPlan(PlanPoint(job[j]))
    BY DEF PlanInv, RowsInv, RowOnPlan, PlanPoint
  <2> QED BY <1>2, <2>1, <2>2, <2>3
<1>5. ASSUME NEW a \in Admins, NEW k \in Jobs, k = admin[a].job,
             admin[a].pc # "idle",
             admin' = [admin EXCEPT ![a] = Idle],
             \A j \in Jobs : j # k => /\ job'[j] = job[j] /\ holder'[j] = holder[j]
                                     /\ served'[j] = served[j],
             \/ UNCHANGED <<job, holder, served>>
             \/ job'[k].sched = NoTime /\ job'[k].next = admin[a].next
      PROVE  PlanInv'
  <2>1. OnPlan(admin[a].next)
    BY <1>5 DEF PlanInv, RequestsInv
  <2>2. \A j \in Jobs : RowKept(j) \/ RowReplanned(j)
    BY <1>5, <2>1 DEF RowKept, RowReplanned
  <2>3. \A e \in Admins : admin'[e] = admin[e] \/ admin'[e] = Idle
    BY <1>5 DEF TypeOK
  <2> QED BY <1>s, <1>w, <2>2, <2>3, PlanKept
<1>6. ASSUME NEW a \in Admins, UpdateStore(a) PROVE PlanInv'
  <2> DEFINE r == admin[a]
  <2>1. r.pc = "updating" /\ admin' = [admin EXCEPT ![a] = Idle] /\ holder' = holder
    BY <1>6 DEF UpdateStore
  <2>2. PICK k \in Jobs : k = r.job
    BY <2>1 DEF TypeOK, Request, Idle
  <2>3. \/ UNCHANGED <<job, served>>
        \/ /\ job[k].sched = NoTime /\ served' = [served EXCEPT ![k] = {}]
           /\ job' = [job EXCEPT ![k].cfg = r.cfg, ![k].next = r.next]
    BY <1>6, <2>2 DEF UpdateStore
  <2>4. CASE UNCHANGED <<job, served>>
    BY <1>5, <2>1, <2>2, <2>4
  <2>5. CASE /\ job[k].sched = NoTime /\ served' = [served EXCEPT ![k] = {}]
             /\ job' = [job EXCEPT ![k].cfg = r.cfg, ![k].next = r.next]
    <3>1. \A j \in Jobs : j # k => job'[j] = job[j] /\ served'[j] = served[j]
      BY <2>5 DEF TypeOK
    <3>2. r.next \in Nat /\ r.cfg \in Configs
      BY <2>1 DEF TypeOK, Request, Idle
    <3>3. job'[k].sched = NoTime /\ job'[k].next = r.next
      <4>1. PICK c \in Configs, n \in Nat, row \in Row : c = r.cfg /\ n = r.next /\ row = job[k]
        BY <3>2 DEF TypeOK
      <4>2. job'[k] = [row EXCEPT !.cfg = c, !.next = n]
        BY <2>5, <4>1 DEF TypeOK
      <4>3. job'[k].sched = row.sched /\ job'[k].next = n
        BY <4>2 DEF Row
      <4> QED BY <2>5, <4>1, <4>3
    <3> QED BY <1>5, <2>1, <2>2, <3>1, <3>3
  <2> QED BY <2>3, <2>4, <2>5
<1>7. ASSUME NEW a \in Admins, SetEnabled(a) PROVE PlanInv'
  <2> DEFINE r == admin[a]
  <2>1. r.pc = "enabling" /\ admin' = [admin EXCEPT ![a] = Idle]
    BY <1>7 DEF SetEnabled
  <2>2. PICK k \in Jobs : k = r.job
    BY <2>1 DEF TypeOK, Request, Idle
  <2>3. \/ UNCHANGED <<job, holder, served>>
        \/ /\ served' = [served EXCEPT ![k] = {}] /\ holder' = [holder EXCEPT ![k] = {}]
           /\ job' = [job EXCEPT ![k] = [@ EXCEPT !.on = TRUE, !.next = r.next, !.sched = NoTime]]
    BY <1>7, <2>2 DEF SetEnabled
  <2>4. CASE UNCHANGED <<job, holder, served>>
    BY <1>5, <2>1, <2>2, <2>4
  <2>5. CASE /\ served' = [served EXCEPT ![k] = {}] /\ holder' = [holder EXCEPT ![k] = {}]
             /\ job' = [job EXCEPT ![k] = [@ EXCEPT !.on = TRUE, !.next = r.next, !.sched = NoTime]]
    <3>1. \A j \in Jobs : j # k => /\ job'[j] = job[j] /\ holder'[j] = holder[j]
                                   /\ served'[j] = served[j]
      BY <2>5 DEF TypeOK
    <3>2. job'[k].sched = NoTime /\ job'[k].next = r.next
      <4>1. /\ job'[k] = [job[k] EXCEPT !.on = TRUE, !.next = r.next, !.sched = NoTime]
            /\ job[k] \in Row
        BY <2>5 DEF TypeOK
      <4> QED BY <4>1, EnabledFields
    <3> QED BY <1>5, <2>1, <2>2, <3>1, <3>2
  <2> QED BY <2>3, <2>4, <2>5
<1> QED BY <1>1, <1>3, <1>4, <1>6, <1>7

LEMMA RestPlan ==
  ASSUME TypeOK, PlanInv, UNCHANGED vars \/ Tick \/ \E i \in Instances : ScanLost(i)
  PROVE  PlanInv' /\ job' = job
<1>1. /\ UNCHANGED <<job, admin, work, holder, served>>
      /\ \A h \in Instances : scan'[h] = scan[h] \/ scan'[h] = Idle
  BY DEF vars, Tick, ScanLost, TypeOK
<1>2. \A w \in Workers : RunKept(w)
  BY <1>1 DEF RunKept
<1>3. \A j \in Jobs : RowKept(j)
  BY <1>1 DEF RowKept
<1> QED BY <1>1, <1>2, <1>3, PlanKept

\* A disciplined step keeps the invariant, moves a point only as it should, and
\* completes only by the holder.
PointsInOrder ==
  \A j \in Jobs :
    \/ PlanPoint(job'[j]) = PlanPoint(job[j])
    \/ /\ PlanPoint(job[j]) \in served[j]
       /\ \/ PlanPoint(job'[j]) = NoTime
          \/ PlanPoint(job'[j]) > PlanPoint(job[j])
    \/ job[j].state = "new"
    \/ \E a \in Admins : UpdateStore(a) \/ SetEnabled(a)

LEMMA DisciplinedStep ==
  ASSUME TypeOK, LeaseInv, PlanInv, [DisciplinedNext]_vars
  PROVE  PlanInv' /\ PointsInOrder
<1>1. CASE \E i \in Instances, w \in Workers : OffPlanClaim(i, w)
  BY <1>1, ClaimPlan DEF PointsInOrder
<1>2. CASE \E i \in Instances : ScanSelect(i)
  <2>1. job' = job
    BY <1>2 DEF ScanSelect
  <2> QED BY <1>2, <2>1, SelectPlan DEF PointsInOrder
<1>3. CASE UNCHANGED vars \/ Tick \/ \E i \in Instances : ScanLost(i)
  BY <1>3, RestPlan DEF PointsInOrder
<1>4. CASE \E w \in Workers : CompleteOK(w)
  <2>1. PICK w \in Workers : CompleteOK(w)
    BY <1>4
  <2>2. PICK j : j = work[w].job
    OBVIOUS
  <2>3. /\ PlanInv' /\ PlanPoint(job[j]) \in served[j]
        /\ PlanPoint(job'[j]) = NoTime \/ PlanPoint(job'[j]) > PlanPoint(job[j])
        /\ \A k \in Jobs : k # j => job'[k] = job[k]
    BY <2>1, <2>2, CompletePlan
  <2> QED BY <2>3 DEF PointsInOrder
<1>5. CASE \E w \in Workers :
             \/ StartTask(w) \/ HandlerSucceeds(w) \/ CompleteLost(w) \/ RunNowDone(w)
             \/ HandlerDeletes(w) \/ Abandon(w) \/ \E j \in Jobs : RunNow(w, j)
  BY <1>5, WorkPlan DEF PointsInOrder
<1>6. CASE \/ \E w \in Workers : DeleteTask(w)
           \/ \E j \in Jobs : Delete(j) \/ Disable(j)
  BY <1>6, StatePlan DEF PointsInOrder
<1>7. CASE \/ \E j \in Jobs, c \in Configs, b \in BOOLEAN : Create(j, c, b)
           \/ \E a \in Admins, j \in Jobs, c \in Configs, b \in BOOLEAN : UpdateRead(a, j, c, b)
           \/ \E a \in Admins, j \in Jobs : EnableRead(a, j)
           \/ \E a \in Admins : UpdateStore(a) \/ SetEnabled(a)
  BY <1>7, OperatorPlan DEF PointsInOrder
<1> QED
  BY <1>1, <1>2, <1>3, <1>4, <1>5, <1>6, <1>7
     DEF DisciplinedNext, QuietEnable, Base, Goroutine, Operator

\* A disciplined step is a quiet one.
LEMMA DisciplinedIsQuiet == [DisciplinedNext]_vars => [QuietNext]_vars
BY DEF DisciplinedNext, OffPlanClaim, TimelyClaim, QuietNext

LEMMA InitPlanInv == Init => PlanInv
BY DEF Init, PlanInv, RowsInv, ScansInv, RequestsInv, RunsInv, RowOnPlan, OnPlan, NoTime,
       InFlight, Busy, Idle

LEMMA DisciplinedInvariant == DisciplinedSpec => [](TypeOK /\ LeaseInv /\ PlanInv)
<1>1. Init => TypeOK /\ LeaseInv /\ PlanInv
  BY InitTypeOK, InitLeaseInv, InitPlanInv
<1>2. TypeOK /\ LeaseInv /\ PlanInv /\ [DisciplinedNext]_vars => (TypeOK /\ LeaseInv /\ PlanInv)'
  BY NextTypeOK, QuietStep, QuietIsNext, DisciplinedIsQuiet, DisciplinedStep
<1> QED BY <1>1, <1>2, PTL DEF DisciplinedSpec

\* The run that completes is the last one that claimed the job, and nobody has
\* cleared its claim: between the two compare-and-sets on next_run nothing that
\* other schedulers, operators and crashes do goes unnoticed.  It rests on all
\* of DisciplinedSpec: no job is re-enabled under a run in flight, the UPDATE of
\* a claim arrives before the lease it takes expires, no token is on the plan.
THEOREM HolderCompletes == DisciplinedSpec => OnlyHolderCompletes
<1>1. TypeOK /\ PlanInv => \A w \in Workers : CompleteOK(w) => holder[work[w].job] = {w}
  BY CompletePlan
<1> QED BY <1>1, DisciplinedInvariant, PTL DEF OnlyHolderCompletes

\* A planned point is left only when it was served, and only forwards, unless an
\* operator has replanned the job.  Under DisciplinedSpec, as above.
THEOREM PointsServedInOrder == DisciplinedSpec => PlanPointsServedInOrder
<1>1. TypeOK /\ LeaseInv /\ PlanInv /\ [DisciplinedNext]_vars => [PointsInOrder]_vars
  BY DisciplinedStep
<1> QED BY <1>1, DisciplinedInvariant, PTL DEF DisciplinedSpec, PlanPointsServedInOrder, PointsInOrder

\* A claim whose comparison succeeds takes up the point the row has, provided
\* that it comes in time and its token is off the plan (DisciplinedSpec): within
\* its own lease a scan does not bring back a point served in the meantime.
THEOREM ClaimTakesCurrentPoint == DisciplinedSpec => ClaimSeesCurrentPoint
<1>1. TypeOK /\ PlanInv =>
        \A i \in Instances, w \in Workers :
          ScanClaim(i, w) => PlanPoint(scan[i].row) = PlanPoint(job[scan[i].job])
  BY DEF ScanClaim, Claimable, PlanInv, ScansInv
<1> QED BY <1>1, DisciplinedInvariant, PTL DEF ClaimSeesCurrentPoint
=============================================================================
