--------------------------- MODULE ReplyPoolProofs ---------------------------
(***************************************************************************)
(* Proofs about ReplyPool, whoever uses it: if a request is only inserted  *)
(* once, every operation of the pool is a step of PendingReplies or leaves *)
(* that what its users see as it is.  And what follows from PendingReplies *)
(* itself: who waits holds one key, and an outcome is final.               *)
(***************************************************************************)
EXTENDS ReplyPool, TLAPS

\* What a promise is settled with tells the reply of a request from everything else.
PoolNames == Requests \cap ({None, "waiting", "closed"} \cup Errors) = {} /\ None # "waiting"

\* A request whose promise waits is at one place: under one key, or taken out by
\* one, or in the copy of Close; a pool that is being closed has no entries.
PlacedInv ==
  /\ \A k, l \in Keys : pending[k] # None /\ pending[k] = pending[l] => k = l
  /\ \A k \in Keys : pending[k] # None =>
       promise[pending[k]] = "waiting" /\ \A t \in taken : t.req # pending[k]
  /\ \A t \in taken : promise[t.req] = "waiting" /\ t.req \notin snapshot
  /\ \A s, t \in taken : s.req = t.req => s = t
  /\ \A r \in snapshot : promise[r] = "waiting"
  /\ pool # "open" => \A k \in Keys : pending[k] = None
  /\ pool = "open" => snapshot = {}

\* What the users of the pool do to it: they put in a request that was never in
\* it, or they go on with those that are.
PoolWorks ==
  \/ \E k \in Keys : \/ SetTimer(k) \/ Fire(k)
                     \/ \E how \in Requests \cup Errors :
                          TakeOut(k, how) /\ UNCHANGED <<promise, closing>>
  \/ \E t \in taken : Settle(t)
  \/ CloseMark \/ CloseStop \/ CloseReject
  \/ UNCHANGED poolVars

PoolMoves ==
  \/ \E r \in Requests, k \in Keys : promise[r] = None /\ Insert(r, k)
  \/ PoolWorks

-----------------------------------------------------------------------------
(* What Outcome says. *)

\* The outcome of a request, place by place.
OutcomeByPlace ==
  /\ \A r \in Requests : promise[r] # "waiting" => Outcome(r) = promise[r]
  /\ \A t \in taken : Outcome(t.req) = t.how
  /\ \A r \in snapshot : Outcome(r) = "closed"
  /\ \A r \in Requests : promise[r] = "waiting" /\ r \notin snapshot
                         /\ (\A t \in taken : t.req # r) => Outcome(r) = "waiting"
  /\ \A k \in Keys : pending[k] # None => Outcome(pending[k]) = "waiting"

LEMMA OutcomeOf == PoolTypeOK /\ PlacedInv => OutcomeByPlace
<1> SUFFICES ASSUME PoolTypeOK, PlacedInv PROVE OutcomeByPlace
  OBVIOUS
<1>1. ASSUME NEW r \in Requests, promise[r] # "waiting" PROVE Outcome(r) = promise[r]
  BY <1>1 DEF Outcome
<1>2. ASSUME NEW t \in taken PROVE Outcome(t.req) = t.how
  <2> DEFINE P(how) == \E u \in taken : u.req = t.req /\ u.how = how
  <2>1. t.how \in Requests \cup Errors /\ promise[t.req] = "waiting"
    BY DEF PoolTypeOK, PlacedInv
  <2>2. Outcome(t.req) = CHOOSE how \in Requests \cup Errors : P(how)
    BY <2>1 DEF Outcome
  <2>3. P(t.how)
    OBVIOUS
  <2> HIDE DEF P
  <2>4. P(Outcome(t.req))
    BY <2>1, <2>2, <2>3
  <2>5. \A how : P(how) => how = t.how
    BY DEF P, PlacedInv
  <2> QED BY <2>4, <2>5
<1>3. ASSUME NEW r \in snapshot PROVE Outcome(r) = "closed"
  <2>1. promise[r] = "waiting" /\ \A t \in taken : t.req # r
    BY DEF PlacedInv
  <2> QED BY <2>1 DEF Outcome
<1>4. ASSUME NEW r \in Requests, promise[r] = "waiting", r \notin snapshot,
             \A t \in taken : t.req # r
      PROVE  Outcome(r) = "waiting"
  BY <1>4 DEF Outcome
<1>5. ASSUME NEW k \in Keys, pending[k] # None PROVE Outcome(pending[k]) = "waiting"
  <2>1. pending[k] \in Requests
    BY <1>5 DEF PoolTypeOK
  <2>2. snapshot = {} /\ promise[pending[k]] = "waiting" /\ \A t \in taken : t.req # pending[k]
    BY <1>5 DEF PlacedInv
  <2> QED BY <1>4, <2>1, <2>2
<1> QED BY <1>1, <1>2, <1>3, <1>4, <1>5 DEF OutcomeByPlace

LEMMA OutcomeAfter == ASSUME PoolTypeOK', PlacedInv' PROVE OutcomeByPlace'
<1>1. (PoolTypeOK /\ PlacedInv => OutcomeByPlace)'
  BY OutcomeOf, PTL
<1> QED BY <1>1

-----------------------------------------------------------------------------
(* What the operations do.  The wheel is nobody's place: *)

LEMMA WheelOnly ==
  ASSUME PoolTypeOK, PlacedInv, NEW k \in Keys, SetTimer(k) \/ Fire(k)
  PROVE  UNCHANGED <<pending, taken, promise, pool, snapshot>>
<1>1. CASE Fire(k)
  BY <1>1 DEF Fire, entries, closing
<1>2. CASE SetTimer(k) /\ WheelRuns
  BY <1>2 DEF SetTimer, closing
<1>3. CASE SetTimer(k) /\ ~WheelRuns
  <2>1. pool # "open"
    BY <1>3 DEF WheelRuns
  <2>2. pending[k] = None
    BY <2>1 DEF PlacedInv
  <2>3. pending' = pending
    BY <1>3, <2>2 DEF SetTimer, PoolTypeOK
  <2> QED BY <1>3, <2>3 DEF SetTimer, closing
<1> QED BY <1>1, <1>2, <1>3

LEMMA InsertPlaced ==
  ASSUME PoolNames, PoolTypeOK, PlacedInv, NEW r \in Requests, NEW k \in Keys,
         promise[r] = None, Insert(r, k)
  PROVE  /\ PlacedInv'
         /\ pending' = [pending EXCEPT ![k] = r] /\ pending[k] = None /\ r # None
         /\ promise'[r] = "waiting" /\ \A q \in Requests \ {r} : promise'[q] = promise[q]
         /\ UNCHANGED <<taken, pool, snapshot>> /\ pool = "open"
<1>1. /\ pending' = [pending EXCEPT ![k] = r] /\ pending[k] = None
      /\ promise'[r] = "waiting" /\ \A q \in Requests \ {r} : promise'[q] = promise[q]
      /\ UNCHANGED <<taken, pool, snapshot>> /\ pool = "open"
  BY DEF Insert, Accepts, Duplicate, closing, PoolTypeOK
<1>2. r # None /\ promise[r] # "waiting"
  BY DEF PoolNames
<1>3. /\ pending'[k] = r /\ \A l \in Keys \ {k} : pending'[l] = pending[l]
      /\ \A l \in Keys : pending[l] # None => pending[l] \in Requests /\ pending[l] # r
      /\ \A t \in taken : t.req \in Requests /\ t.req # r
      /\ snapshot = {}
  BY <1>1, <1>2 DEF PoolTypeOK, PlacedInv
<1>4. /\ \A l, m \in Keys : pending'[l] # None /\ pending'[l] = pending'[m] => l = m
      /\ \A l \in Keys : pending'[l] # None =>
           promise'[pending'[l]] = "waiting" /\ \A t \in taken' : t.req # pending'[l]
  BY <1>1, <1>3 DEF PlacedInv
<1>5. /\ \A t \in taken' : promise'[t.req] = "waiting" /\ t.req \notin snapshot'
      /\ \A s, t \in taken' : s.req = t.req => s = t
      /\ \A q \in snapshot' : promise'[q] = "waiting"
      /\ pool' # "open" => \A l \in Keys : pending'[l] = None
      /\ pool' = "open" => snapshot' = {}
  BY <1>1, <1>3 DEF PlacedInv
<1>6. PlacedInv'
  BY <1>4, <1>5 DEF PlacedInv
<1> QED BY <1>1, <1>2, <1>6

LEMMA TakeOutPlaced ==
  ASSUME PoolTypeOK, PlacedInv, NEW k \in Keys, NEW how \in Requests \cup Errors,
         TakeOut(k, how), UNCHANGED <<promise, closing>>
  PROVE  /\ PlacedInv' /\ UNCHANGED <<promise, pool, snapshot>>
         /\ pending' = [pending EXCEPT ![k] = None]
         /\ taken' = IF pending[k] = None THEN taken
                     ELSE taken \cup {[req |-> pending[k], key |-> k, how |-> how]}
<1>1. /\ pending' = [pending EXCEPT ![k] = None] /\ UNCHANGED <<promise, pool, snapshot>>
      /\ taken' = IF pending[k] = None THEN taken
                  ELSE taken \cup {[req |-> pending[k], key |-> k, how |-> how]}
  BY DEF TakeOut, closing
<1>2. pending'[k] = None /\ \A l \in Keys \ {k} : pending'[l] = pending[l]
  BY <1>1 DEF PoolTypeOK
<1>3. CASE pending[k] = None
  BY <1>1, <1>2, <1>3 DEF PlacedInv
<1>4. CASE pending[k] # None
  <2> DEFINE u == [req |-> pending[k], key |-> k, how |-> how]
  <2>1. taken' = taken \cup {u} /\ u.req = pending[k]
    BY <1>1, <1>4
  <2> HIDE DEF u
  <2>2. promise[u.req] = "waiting" /\ u.req \notin snapshot /\ \A t \in taken : t.req # u.req
    BY <1>4, <2>1 DEF PlacedInv
  <2>3. \A l \in Keys : pending'[l] # None =>
          /\ promise'[pending'[l]] = "waiting" /\ pending'[l] # u.req
          /\ \A t \in taken : t.req # pending'[l]
    BY <1>1, <1>2, <2>1 DEF PlacedInv
  <2>4. \A l, m \in Keys : pending'[l] # None /\ pending'[l] = pending'[m] => l = m
    BY <1>2 DEF PlacedInv
  <2>5. /\ \A t \in taken' : promise'[t.req] = "waiting" /\ t.req \notin snapshot'
        /\ \A s, t \in taken' : s.req = t.req => s = t
    BY <1>1, <2>1, <2>2 DEF PlacedInv
  <2>6. /\ \A q \in snapshot' : promise'[q] = "waiting"
        /\ pool' # "open" => \A l \in Keys : pending'[l] = None
        /\ pool' = "open" => snapshot' = {}
    BY <1>1, <1>2 DEF PlacedInv
  <2> QED BY <1>1, <2>1, <2>3, <2>4, <2>5, <2>6 DEF PlacedInv
<1> QED BY <1>1, <1>3, <1>4

LEMMA SettlePlaced ==
  ASSUME PoolNames, PoolTypeOK, PlacedInv, NEW t \in taken, Settle(t)
  PROVE  /\ PlacedInv' /\ UNCHANGED <<pending, pool, snapshot>>
         /\ taken' = taken \ {t} /\ promise'[t.req] = t.how /\ t.how # "waiting"
         /\ \A q \in Requests \ {t.req} : promise'[q] = promise[q]
<1>1. t.req \in Requests /\ t.how \in Requests \cup Errors /\ promise[t.req] = "waiting"
  BY DEF PoolTypeOK, PlacedInv
<1>2. /\ UNCHANGED <<pending, pool, snapshot>> /\ taken' = taken \ {t}
      /\ promise'[t.req] = t.how /\ \A q \in Requests \ {t.req} : promise'[q] = promise[q]
  BY <1>1 DEF Settle, closing, PoolTypeOK
<1>3. t.how # "waiting"
  BY <1>1 DEF PoolNames, Errors
<1>4. /\ \A k \in Keys : pending[k] # None => pending[k] \in Requests \ {t.req}
      /\ \A u \in taken' : u \in taken /\ u.req \in Requests \ {t.req}
      /\ \A r \in snapshot : r \in Requests \ {t.req}
  BY <1>2 DEF PoolTypeOK, PlacedInv
<1>5. PlacedInv'
  BY <1>2, <1>4 DEF PlacedInv
<1> QED BY <1>2, <1>3, <1>5

LEMMA CloseMarkPlaced ==
  ASSUME PoolTypeOK, PlacedInv, CloseMark
  PROVE  /\ PlacedInv' /\ UNCHANGED <<taken, promise>> /\ pool = "open" /\ pool' = "marked"
         /\ snapshot' = {pending[k] : k \in Keys} \ {None}
         /\ pending' = [k \in Keys |-> None]
<1>1. /\ UNCHANGED <<taken, promise>> /\ pool = "open" /\ pool' = "marked"
      /\ snapshot' = {pending[k] : k \in Keys} \ {None}
      /\ pending' = [k \in Keys |-> None]
  BY DEF CloseMark
<1>2. \A r \in snapshot' : promise[r] = "waiting" /\ \A t \in taken : t.req # r
  BY <1>1 DEF PlacedInv
<1>3. PlacedInv'
  BY <1>1, <1>2 DEF PlacedInv
<1> QED BY <1>1, <1>3

LEMMA CloseRejectPlaced ==
  ASSUME PoolTypeOK, PlacedInv, CloseReject
  PROVE  /\ PlacedInv' /\ UNCHANGED <<pending, taken>>
         /\ pool = "stopped" /\ pool' = "closed" /\ snapshot' = {}
         /\ \A r \in Requests : promise'[r] = IF r \in snapshot THEN "closed" ELSE promise[r]
<1>1. /\ UNCHANGED <<pending, taken>> /\ pool = "stopped" /\ pool' = "closed" /\ snapshot' = {}
      /\ \A r \in Requests : promise'[r] = IF r \in snapshot THEN "closed" ELSE promise[r]
  BY DEF CloseReject, PlacedInv
<1>2. /\ \A k \in Keys : pending[k] = None
      /\ \A t \in taken : t.req \in Requests /\ t.req \notin snapshot
  BY <1>1 DEF PlacedInv, PoolTypeOK
<1>3. PlacedInv'
  BY <1>1, <1>2 DEF PlacedInv
<1> QED BY <1>1, <1>3

-----------------------------------------------------------------------------
(* Every move is a step of PendingReplies or shows nothing. *)

\* What the users of the pool see.
Shown == <<pending, [r \in Requests |-> Outcome(r)], pool = "open">>

LEMMA PoolStarts ==
  ASSUME PoolNames, PoolInit
  PROVE  PoolTypeOK /\ PlacedInv /\ Replies!PendingInit
<1>1. PoolTypeOK /\ PlacedInv
  BY DEF PoolInit, PoolTypeOK, PlacedInv
<1>2. \A r \in Requests : Outcome(r) = None
  BY DEF PoolNames, PoolInit, Outcome
<1> QED BY <1>1, <1>2 DEF PoolInit, Replies!PendingInit

\* A step that moves nobody from one place to another shows nothing.
LEMMA NothingShown ==
  ASSUME PoolTypeOK, PlacedInv, PoolTypeOK', PlacedInv',
         UNCHANGED <<pending, taken, promise, snapshot>>, (pool' = "open") = (pool = "open")
  PROVE  UNCHANGED Shown
<1>1. \A r \in Requests : Outcome(r)' = Outcome(r)
  BY DEF Outcome
<1> QED BY <1>1 DEF Shown

\* Who stays at its place keeps its outcome.
LEMMA SameOutcome ==
  ASSUME OutcomeByPlace, OutcomeByPlace', NEW r \in Requests, promise'[r] = promise[r],
         snapshot' = snapshot, \A u : u.req = r => (u \in taken' <=> u \in taken)
  PROVE  Outcome(r)' = Outcome(r)
<1>1. CASE \E u \in taken : u.req = r
  <2>1. PICK u \in taken : u.req = r
    BY <1>1
  <2>2. u \in taken'
    BY <2>1
  <2> QED BY <2>1, <2>2 DEF OutcomeByPlace
<1>2. CASE ~\E u \in taken : u.req = r
  BY <1>2 DEF Outcome
<1> QED BY <1>1, <1>2

LEMMA InsertShown ==
  ASSUME PoolNames, PoolTypeOK, PlacedInv, PoolTypeOK', NEW r \in Requests, NEW k \in Keys,
         promise[r] = None, Insert(r, k)
  PROVE  PlacedInv' /\ Replies!Begin(r, k)
<1>1. /\ PlacedInv'
      /\ pending' = [pending EXCEPT ![k] = r] /\ pending[k] = None /\ r # None
      /\ promise'[r] = "waiting" /\ \A q \in Requests \ {r} : promise'[q] = promise[q]
      /\ UNCHANGED <<taken, pool, snapshot>> /\ pool = "open"
  BY InsertPlaced
<1>2. OutcomeByPlace /\ OutcomeByPlace'
  BY <1>1, OutcomeOf, OutcomeAfter
<1>3. Outcome(r) = None
  BY <1>2 DEF OutcomeByPlace, PoolNames
<1>4. Outcome(r)' = "waiting"
  <2>1. pending'[k] = r /\ pending'[k] # None
    BY <1>1 DEF PoolTypeOK
  <2> QED BY <1>2, <2>1 DEF OutcomeByPlace
<1>5. \A q \in Requests \ {r} : Outcome(q)' = Outcome(q)
  BY <1>1 DEF Outcome
<1>6. [q \in Requests |-> Outcome(q)]' = [[q \in Requests |-> Outcome(q)] EXCEPT ![r] = "waiting"]
  BY <1>4, <1>5
<1> QED BY <1>1, <1>3, <1>6 DEF Replies!Begin

LEMMA TakeOutShown ==
  ASSUME PoolNames, PoolTypeOK, PlacedInv, PoolTypeOK', NEW k \in Keys,
         NEW how \in Requests \cup Errors, TakeOut(k, how), UNCHANGED <<promise, closing>>
  PROVE  PlacedInv' /\ (Replies!Finish(k, how) \/ UNCHANGED Shown)
<1>1. /\ PlacedInv' /\ UNCHANGED <<promise, pool, snapshot>>
      /\ pending' = [pending EXCEPT ![k] = None]
      /\ taken' = IF pending[k] = None THEN taken
                  ELSE taken \cup {[req |-> pending[k], key |-> k, how |-> how]}
  BY TakeOutPlaced
<1>2. CASE pending[k] = None
  <2>1. UNCHANGED <<pending, taken, promise, snapshot>> /\ (pool' = "open") = (pool = "open")
    BY <1>1, <1>2 DEF PoolTypeOK
  <2> QED BY <1>1, <2>1, NothingShown
<1>3. CASE pending[k] # None
  <2>q. PICK q \in Requests : q = pending[k]
    BY <1>3 DEF PoolTypeOK
  <2>1. PICK u : taken' = taken \cup {u} /\ u.req = q /\ u.how = how
    <3>1. [req |-> q, key |-> k, how |-> how].req = q /\ [req |-> q, key |-> k, how |-> how].how = how
      OBVIOUS
    <3> QED BY <1>1, <1>3, <2>q, <3>1
  <2>2. u \in taken' /\ Outcome(u.req)' = u.how
    BY <1>1, <2>1, OutcomeAfter DEF OutcomeByPlace
  <2>3. Outcome(q)' = how
    BY <2>1, <2>2
  <2>4. ASSUME NEW r \in Requests \ {q} PROVE Outcome(r)' = Outcome(r)
    <3>1. \A v : v.req = r => (v \in taken' <=> v \in taken)
      BY <2>1
    <3>2. OutcomeByPlace /\ OutcomeByPlace'
      BY <1>1, OutcomeOf, OutcomeAfter
    <3> QED BY <1>1, <3>1, <3>2, SameOutcome
  <2>5. [r \in Requests |-> Outcome(r)]' = [[r \in Requests |-> Outcome(r)] EXCEPT ![q] = how]
    BY <2>3, <2>4
  <2>6. [r \in Requests |-> Outcome(r)]'
          = [[r \in Requests |-> Outcome(r)] EXCEPT ![pending[k]] = how]
    BY <2>q, <2>5
  <2>7. (pool = "open")' = (pool = "open")
    BY <1>1
  <2> QED BY <1>1, <1>3, <2>6, <2>7 DEF Replies!Finish
<1> QED BY <1>2, <1>3

LEMMA SettleShown ==
  ASSUME PoolNames, PoolTypeOK, PlacedInv, PoolTypeOK', NEW t \in taken, Settle(t)
  PROVE  PlacedInv' /\ UNCHANGED Shown
<1>1. /\ PlacedInv' /\ UNCHANGED <<pending, pool, snapshot>>
      /\ taken' = taken \ {t} /\ promise'[t.req] = t.how /\ t.how # "waiting"
      /\ \A q \in Requests \ {t.req} : promise'[q] = promise[q]
  BY SettlePlaced
<1>2. OutcomeByPlace /\ OutcomeByPlace'
  BY <1>1, OutcomeOf, OutcomeAfter
<1>3. t.req \in Requests /\ Outcome(t.req)' = Outcome(t.req)
  BY <1>1, <1>2 DEF OutcomeByPlace, PoolTypeOK
<1>4. \A q \in Requests \ {t.req} : Outcome(q)' = Outcome(q)
  <2> SUFFICES ASSUME NEW q \in Requests \ {t.req} PROVE Outcome(q)' = Outcome(q)
    OBVIOUS
  <2>1. \A u : u.req = q => (u \in taken' <=> u \in taken)
    BY <1>1
  <2> QED BY <1>1, <1>2, <2>1, SameOutcome
<1>5. [q \in Requests |-> Outcome(q)]' = [q \in Requests |-> Outcome(q)]
  BY <1>3, <1>4
<1> QED BY <1>1, <1>5 DEF Shown

LEMMA CloseMarkShown ==
  ASSUME PoolNames, PoolTypeOK, PlacedInv, PoolTypeOK', CloseMark
  PROVE  PlacedInv' /\ Replies!CloseAll
<1>1. /\ PlacedInv' /\ UNCHANGED <<taken, promise>> /\ pool = "open" /\ pool' = "marked"
      /\ snapshot' = {pending[k] : k \in Keys} \ {None}
      /\ pending' = [k \in Keys |-> None]
  BY CloseMarkPlaced
<1>2. OutcomeByPlace'
  BY <1>1, OutcomeAfter
<1>3. snapshot = {}
  BY <1>1 DEF PlacedInv
<1>4. ASSUME NEW r \in Requests
      PROVE  Outcome(r)' = IF \E k \in Keys : pending[k] = r THEN "closed" ELSE Outcome(r)
  <2>1. CASE \E k \in Keys : pending[k] = r
    <3>1. r \in snapshot'
      BY <1>1, <2>1 DEF PoolNames
    <3> QED BY <1>2, <2>1, <3>1 DEF OutcomeByPlace
  <2>2. CASE ~\E k \in Keys : pending[k] = r
    <3>1. r \notin snapshot'
      BY <1>1, <2>2
    <3> QED BY <1>1, <1>3, <2>2, <3>1 DEF Outcome
  <2> QED BY <2>1, <2>2
<1>5. [r \in Requests |-> Outcome(r)]' =
        [r \in Requests |-> IF \E k \in Keys : pending[k] = r THEN "closed"
                            ELSE [q \in Requests |-> Outcome(q)][r]]
  BY <1>4
<1>6. pool = "open" /\ (pool = "open")' = FALSE
  BY <1>1
<1> QED BY <1>1, <1>5, <1>6, Zenon DEF Replies!CloseAll

LEMMA CloseRejectShown ==
  ASSUME PoolTypeOK, PlacedInv, PoolTypeOK', CloseReject
  PROVE  PlacedInv' /\ UNCHANGED Shown
<1>1. /\ PlacedInv' /\ UNCHANGED <<pending, taken>>
      /\ pool = "stopped" /\ pool' = "closed" /\ snapshot' = {}
      /\ \A r \in Requests : promise'[r] = IF r \in snapshot THEN "closed" ELSE promise[r]
  BY CloseRejectPlaced
<1>2. OutcomeByPlace /\ OutcomeByPlace'
  BY <1>1, OutcomeOf, OutcomeAfter
<1>3. ASSUME NEW r \in Requests PROVE Outcome(r)' = Outcome(r)
  <2>1. CASE r \in snapshot
    <3>1. promise'[r] = "closed"
      BY <1>1, <2>1
    <3> QED BY <1>2, <2>1, <3>1 DEF OutcomeByPlace
  <2>2. CASE r \notin snapshot
    BY <1>1, <2>2 DEF Outcome
  <2> QED BY <2>1, <2>2
<1>4. [r \in Requests |-> Outcome(r)]' = [r \in Requests |-> Outcome(r)]
  BY <1>3
<1> QED BY <1>1, <1>4 DEF Shown

\* One step of the pool: a request stays at its place or moves to another, and
\* what the users see moves as PendingReplies says.
LEMMA PoolMoveShown ==
  ASSUME PoolNames, PoolTypeOK, PlacedInv, PoolTypeOK', PoolMoves
  PROVE  PlacedInv' /\ [Replies!PendingNext]_(Replies!pendingReplies)
<1>s. UNCHANGED Shown => UNCHANGED Replies!pendingReplies
  BY DEF Shown, Replies!pendingReplies
<1>1. ASSUME NEW r \in Requests, NEW k \in Keys, promise[r] = None, Insert(r, k)
      PROVE  PlacedInv' /\ Replies!PendingNext
  BY <1>1, InsertShown DEF Replies!PendingNext
<1>2. ASSUME NEW k \in Keys, NEW how \in Requests \cup Errors,
             TakeOut(k, how), UNCHANGED <<promise, closing>>
      PROVE  PlacedInv' /\ (Replies!PendingNext \/ UNCHANGED Shown)
  BY <1>2, TakeOutShown DEF Replies!PendingNext
<1>3. ASSUME NEW k \in Keys, SetTimer(k) \/ Fire(k) PROVE PlacedInv' /\ UNCHANGED Shown
  <2>1. UNCHANGED <<pending, taken, promise, pool, snapshot>>
    BY <1>3, WheelOnly
  <2>2. PlacedInv'
    BY <2>1 DEF PlacedInv
  <2> QED BY <2>1, <2>2, NothingShown
<1>4. ASSUME NEW t \in taken, Settle(t) PROVE PlacedInv' /\ UNCHANGED Shown
  BY <1>4, SettleShown
<1>5. CASE CloseMark
  BY <1>5, CloseMarkShown DEF Replies!PendingNext
<1>6. ASSUME CloseStop PROVE PlacedInv' /\ UNCHANGED Shown
  <2>1. UNCHANGED <<pending, taken, promise, snapshot>> /\ pool = "marked" /\ pool' = "stopped"
    BY <1>6 DEF CloseStop, entries
  <2>2. PlacedInv'
    BY <2>1 DEF PlacedInv
  <2>3. (pool' = "open") = (pool = "open")
    BY <2>1
  <2> QED BY <2>1, <2>2, <2>3, NothingShown
<1>7. ASSUME CloseReject PROVE PlacedInv' /\ UNCHANGED Shown
  BY <1>7, CloseRejectShown
<1>8. ASSUME UNCHANGED poolVars PROVE PlacedInv' /\ UNCHANGED Shown
  <2>1. UNCHANGED <<pending, taken, promise, pool, snapshot>>
    BY <1>8 DEF poolVars
  <2>2. PlacedInv'
    BY <2>1 DEF PlacedInv
  <2> QED BY <2>1, <2>2, NothingShown
<1> QED BY <1>s, <1>1, <1>2, <1>3, <1>4, <1>5, <1>6, <1>7, <1>8 DEF PoolMoves, PoolWorks

\* Only a request that is put in comes to wait.
LEMMA NobodyEnters ==
  ASSUME PoolNames, PoolTypeOK, PlacedInv, PoolWorks, NEW r \in Requests, promise[r] = None
  PROVE  promise'[r] = None
<1>n. None # "waiting"
  BY DEF PoolNames
<1>1. ASSUME NEW t \in taken, Settle(t) PROVE promise'[r] = None
  <2>1. r # t.req
    BY <1>n DEF PlacedInv
  <2> QED BY <1>1, <2>1, SettlePlaced
<1>2. ASSUME CloseReject PROVE promise'[r] = None
  <2>1. r \notin snapshot
    BY <1>n DEF PlacedInv
  <2> QED BY <1>2, <2>1, CloseRejectPlaced
<1>3. ASSUME NEW k \in Keys, \/ SetTimer(k) \/ Fire(k)
                            \/ \E how : TakeOut(k, how) /\ UNCHANGED promise
      PROVE  promise'[r] = None
  BY <1>3 DEF SetTimer, Fire, entries
<1>4. CASE CloseMark \/ CloseStop \/ UNCHANGED poolVars
  BY <1>4 DEF CloseMark, CloseStop, entries, poolVars
<1> QED BY <1>1, <1>2, <1>3, <1>4 DEF PoolWorks

-----------------------------------------------------------------------------
(* What the promise to the users is worth. *)

\* Who waits, waits under exactly one key, nobody waits in a closed pool, and how a
\* request has ended never changes: what follows from PendingReplies, and so holds of
\* every user of the pool that implements it (the comments of Resolve, Reject, Close).
THEOREM RepliesDecidedOnce ==
  ASSUME PoolNames
  PROVE  Replies!PendingSpec => []Replies!HeldOnce /\ Replies!DecidedOnce
<1> DEFINE Typed == pending \in [Keys -> Requests \cup {None}]
<1>1. Replies!PendingInit => Typed /\ Replies!HeldOnce
  BY DEF PoolNames, Replies!PendingInit, Replies!HeldOnce
<1>2. ASSUME Typed, Replies!HeldOnce, [Replies!PendingNext]_(Replies!pendingReplies)
      PROVE  /\ Typed' /\ Replies!HeldOnce'
             /\ \A r \in Requests : Outcome(r) \notin {None, "waiting"} => Outcome(r)' = Outcome(r)
  <2>h. /\ \A r \in Requests : Outcome(r) = "waiting" <=> \E k \in Keys : pending[k] = r
        /\ \A k, l \in Keys : pending[k] = pending[l] /\ pending[k] # None => k = l
        /\ pool # "open" => \A k \in Keys : pending[k] = None
    BY <1>2 DEF Replies!HeldOnce
  <2>g. ASSUME /\ \A r \in Requests : Outcome(r)' = "waiting" <=> \E k \in Keys : pending'[k] = r
               /\ \A k, l \in Keys : pending'[k] = pending'[l] /\ pending'[k] # None => k = l
               /\ pool' # "open" => \A k \in Keys : pending'[k] = None
        PROVE  Replies!HeldOnce'
    BY <2>g DEF Replies!HeldOnce
  <2>1. ASSUME NEW q \in Requests, NEW l \in Keys, Replies!Begin(q, l)
        PROVE  /\ Typed' /\ Replies!HeldOnce'
               /\ \A r \in Requests : Outcome(r) \notin {None, "waiting"} => Outcome(r)' = Outcome(r)
    <3>1. /\ pool = "open" /\ pending[l] = None /\ Outcome(q) = None
          /\ pending' = [pending EXCEPT ![l] = q]
          /\ \A r \in Requests : Outcome(r)' = IF r = q THEN "waiting" ELSE Outcome(r)
          /\ (pool' = "open") = (pool = "open")
      BY <2>1 DEF Replies!Begin
    <3>2. q # None /\ None # "waiting"
      BY DEF PoolNames
    <3>3. pending'[l] = q /\ \A k \in Keys \ {l} : pending'[k] = pending[k] /\ pending[k] # q
      BY <1>2, <2>h, <3>1, <3>2
    <3>4. Typed'
      BY <1>2, <3>1
    <3>5. ASSUME NEW r \in Requests
          PROVE  Outcome(r)' = "waiting" <=> \E k \in Keys : pending'[k] = r
      <4>1. CASE r = q
        BY <3>1, <3>3, <4>1
      <4>2. CASE r # q
        <5>1. Outcome(r)' = Outcome(r)
          BY <3>1, <4>2
        <5>2. \A k \in Keys : pending'[k] = r <=> pending[k] = r
          <6>1. pending'[l] # r /\ pending[l] # r
            BY <3>1, <3>3, <4>2 DEF PoolNames
          <6> QED BY <3>3, <6>1
        <5> QED BY <2>h, <5>1, <5>2
      <4> QED BY <4>1, <4>2
    <3>6. \A k, m \in Keys : pending'[k] = pending'[m] /\ pending'[k] # None => k = m
      BY <2>h, <3>3
    <3> QED BY <2>g, <3>1, <3>4, <3>5, <3>6
  <2>2. ASSUME NEW l \in Keys, NEW how \in Requests \cup Errors, Replies!Finish(l, how)
        PROVE  /\ Typed' /\ Replies!HeldOnce'
               /\ \A r \in Requests : Outcome(r) \notin {None, "waiting"} => Outcome(r)' = Outcome(r)
    <3>1. PICK q \in Requests : q = pending[l] /\ q # None
      BY <1>2, <2>2 DEF Replies!Finish
    <3>2. /\ pending' = [pending EXCEPT ![l] = None]
          /\ \A r \in Requests : Outcome(r)' = IF r = q THEN how ELSE Outcome(r)
          /\ (pool' = "open") = (pool = "open")
      BY <2>2, <3>1 DEF Replies!Finish
    <3>3. how # "waiting" /\ Outcome(q) = "waiting"
      BY <2>h, <3>1 DEF PoolNames, Errors
    <3>4. /\ pending'[l] = None
          /\ \A k \in Keys \ {l} : pending'[k] = pending[k] /\ pending[k] # q
      BY <1>2, <2>h, <3>1, <3>2
    <3>5. Typed'
      BY <1>2, <3>2
    <3>6. \A r \in Requests : Outcome(r)' = "waiting" <=> \E k \in Keys : pending'[k] = r
      <4> SUFFICES ASSUME NEW r \in Requests
                   PROVE  Outcome(r)' = "waiting" <=> \E k \in Keys : pending'[k] = r
        OBVIOUS
      <4>0. r # None
        BY DEF PoolNames
      <4>1. CASE r = q
        BY <3>1, <3>2, <3>3, <3>4, <4>1
      <4>2. CASE r # q
        BY <2>h, <3>1, <3>2, <3>4, <4>0, <4>2
      <4> QED BY <4>1, <4>2
    <3>7. /\ \A k, m \in Keys : pending'[k] = pending'[m] /\ pending'[k] # None => k = m
          /\ pool' # "open" => \A k \in Keys : pending'[k] = None
      BY <2>h, <3>2, <3>4
    <3> QED BY <2>g, <3>2, <3>3, <3>5, <3>6, <3>7
  <2>3. ASSUME Replies!CloseAll
        PROVE  /\ Typed' /\ Replies!HeldOnce'
               /\ \A r \in Requests : Outcome(r) \notin {None, "waiting"} => Outcome(r)' = Outcome(r)
    <3>1. /\ pending' = [k \in Keys |-> None]
          /\ \A r \in Requests :
               Outcome(r)' = IF \E k \in Keys : pending[k] = r THEN "closed" ELSE Outcome(r)
      BY <2>3 DEF Replies!CloseAll
    <3>2. \A r \in Requests : r # None
      BY DEF PoolNames
    <3>3. Typed' /\ \A r \in Requests : Outcome(r)' # "waiting"
      BY <2>h, <3>1
    <3> QED BY <2>g, <2>h, <3>1, <3>2, <3>3
  <2>4. ASSUME UNCHANGED Replies!pendingReplies
        PROVE  /\ Typed' /\ Replies!HeldOnce'
               /\ \A r \in Requests : Outcome(r) \notin {None, "waiting"} => Outcome(r)' = Outcome(r)
    <3>1. /\ pending' = pending /\ (pool' = "open") = (pool = "open")
          /\ \A r \in Requests : Outcome(r)' = Outcome(r)
      BY <2>4 DEF Replies!pendingReplies
    <3> QED BY <1>2, <2>g, <2>h, <3>1
  <2> QED BY <1>2, <2>1, <2>2, <2>3, <2>4 DEF Replies!PendingNext
<1>3. Typed /\ Replies!HeldOnce /\ [Replies!PendingNext]_(Replies!pendingReplies)
        => Typed' /\ Replies!HeldOnce'
  BY <1>2
<1>4. Typed /\ Replies!HeldOnce /\ [Replies!PendingNext]_(Replies!pendingReplies)
        => [Replies!KeepsDecided]_(Replies!pendingReplies)
  BY <1>2 DEF Replies!KeepsDecided
<1> QED BY <1>1, <1>3, <1>4, PTL DEF Replies!PendingSpec, Replies!DecidedOnce
=============================================================================
