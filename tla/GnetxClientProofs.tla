-------------------------- MODULE GnetxClientProofs --------------------------
(***************************************************************************)
(* Proofs about GnetxClient, for any number of connections and requests:   *)
(* type correctness, replies reach the request they answer and no other,   *)
(* nobody waits on a promise that is not looked after, there is one        *)
(* connection at a time, and nothing is left after Shutdown.               *)
(***************************************************************************)
EXTENDS GnetxClient, ReplyPoolProofs, TLAPS

\* The steps of the connection, the reconnect goroutine and Shutdown, but for
\* the closing of the pool: they leave requests, ids and pool alone.
LifeStep ==
  \/ \E c \in Conns : FirstDialOK(c) \/ ConnLost(c) \/ OnClose(c)
  \/ FirstDialFails \/ ReconnectGoes \/ DialFails
  \/ Shutdown \/ ShutdownSession \/ StopEngine \/ EngineStopped

LEMMA InitTypeOK == Init => TypeOK
<1> SUFFICES ASSUME Init PROVE TypeOK
  OBVIOUS
<1>1. PoolTypeOK
  BY DEF Init, PoolInit, PoolTypeOK
<1>2. req \in [Requests -> ReqType]
  BY DEF Init, ReqType
<1>3. faults \in 0 .. MaxFaults
  BY BoundsAssumption DEF Init
<1> QED BY <1>1, <1>2, <1>3 DEF Init, TypeOK

\* The variables of the connections and their goroutines keep their types.
LinkTypeOK ==
  /\ conn \in [Conns -> {"new", "open", "lost", "closed"}]
  /\ shut \in [Conns -> BOOLEAN]
  /\ seq \in [Conns -> Nat]
  /\ sess \in Conns \cup {None}

LifeTypeOK ==
  /\ rec \in {"none", "waiting", "dialing", "dialed", "leaving"}
  /\ boot \in BOOLEAN /\ closed \in BOOLEAN
  /\ down \in {"no", "marked", "swapped", "stopping", "pool", "done"}

CallTypeOK ==
  /\ req \in [Requests -> ReqType]
  /\ wire \subseteq Requests

LEMMA TypeParts ==
  /\ TypeOK <=> LinkTypeOK /\ LifeTypeOK /\ CallTypeOK /\ faults \in 0 .. MaxFaults /\ PoolTypeOK
  /\ TypeOK' <=> /\ LinkTypeOK' /\ LifeTypeOK' /\ CallTypeOK'
                 /\ faults' \in 0 .. MaxFaults /\ PoolTypeOK'
BY DEF TypeOK, LinkTypeOK, LifeTypeOK, CallTypeOK

LEMMA FaultType ==
  ASSUME faults \in 0 .. MaxFaults, Fault
  PROVE  faults' \in 0 .. MaxFaults
BY BoundsAssumption DEF Fault

LEMMA OpenType ==
  ASSUME LinkTypeOK, NEW c \in Conns, Open(c)
  PROVE  LinkTypeOK'
BY DEF LinkTypeOK, Open

LEMMA DropType ==
  ASSUME LinkTypeOK, DropSession
  PROVE  LinkTypeOK'
BY DEF LinkTypeOK, DropSession

LEMMA LifeType ==
  ASSUME TypeOK, LifeStep
  PROVE  TypeOK' /\ UNCHANGED <<seq, req, wire, poolVars>>
<1> USE TypeParts
<1>u. ASSUME UNCHANGED <<req, wire, poolVars>>
      PROVE  CallTypeOK' /\ PoolTypeOK'
  BY <1>u DEF CallTypeOK, PoolTypeOK, poolVars
<1>1. ASSUME NEW c \in Conns, FirstDialOK(c) PROVE TypeOK' /\ UNCHANGED <<seq, req, wire, poolVars>>
  <2>1. LinkTypeOK' /\ UNCHANGED seq
    BY <1>1, OpenType DEF FirstDialOK, Open
  <2> QED BY <1>1, <1>u, <2>1 DEF FirstDialOK, LifeTypeOK
<1>2. ASSUME NEW c \in Conns, ConnLost(c) PROVE TypeOK' /\ UNCHANGED <<seq, req, wire, poolVars>>
  <2>1. LinkTypeOK' /\ LifeTypeOK' /\ UNCHANGED seq
    BY <1>2 DEF ConnLost, life, LinkTypeOK, LifeTypeOK
  <2> QED BY <1>2, <1>u, <2>1, FaultType DEF ConnLost
<1>3. ASSUME NEW c \in Conns, OnClose(c) PROVE TypeOK' /\ UNCHANGED <<seq, req, wire, poolVars>>
  <2>1. LinkTypeOK' /\ LifeTypeOK'
    BY <1>3 DEF OnClose, StartReconnect, LinkTypeOK, LifeTypeOK
  <2> QED BY <1>3, <1>u, <2>1 DEF OnClose
<1>4. CASE FirstDialFails
  <2>1. LinkTypeOK' /\ LifeTypeOK' /\ UNCHANGED seq
    BY <1>4 DEF FirstDialFails, link, StartReconnect, LinkTypeOK, LifeTypeOK
  <2> QED BY <1>4, <1>u, <2>1, FaultType DEF FirstDialFails
<1>5. CASE Tick \/ Leave
  <2>1. LinkTypeOK' /\ LifeTypeOK' /\ UNCHANGED seq
    BY <1>5 DEF Tick, Leave, link, LinkTypeOK, LifeTypeOK
  <2> QED BY <1>5, <1>u, <2>1 DEF Tick, Leave
<1>6. ASSUME NEW c \in Conns, DialOK(c) PROVE TypeOK' /\ UNCHANGED <<seq, req, wire, poolVars>>
  <2>1. LinkTypeOK' /\ UNCHANGED seq
    BY <1>6, OpenType DEF DialOK, Open
  <2> QED BY <1>6, <1>u, <2>1 DEF DialOK, LifeTypeOK
<1>7. CASE AfterDial
  <2>1. LinkTypeOK' /\ UNCHANGED seq
    <3>1. CASE closed
      BY <3>1, <1>7, DropType DEF AfterDial, DropSession
    <3>2. CASE ~closed
      BY <3>2, <1>7 DEF AfterDial, link, LinkTypeOK
    <3> QED BY <3>1, <3>2
  <2> QED BY <1>7, <1>u, <2>1 DEF AfterDial, LifeTypeOK
<1>8. CASE DialFails
  <2>1. LinkTypeOK' /\ LifeTypeOK' /\ UNCHANGED seq
    BY <1>8 DEF DialFails, link, LinkTypeOK, LifeTypeOK
  <2> QED BY <1>8, <1>u, <2>1, FaultType DEF DialFails
<1>9. CASE Shutdown \/ EngineStopped
  <2>1. LinkTypeOK' /\ LifeTypeOK' /\ UNCHANGED seq
    BY <1>9 DEF Shutdown, EngineStopped, link, LinkTypeOK, LifeTypeOK
  <2> QED BY <1>9, <1>u, <2>1 DEF Shutdown, EngineStopped
<1>10. CASE ShutdownSession
  <2>1. LinkTypeOK' /\ UNCHANGED seq
    BY <1>10, DropType DEF ShutdownSession, DropSession
  <2> QED BY <1>10, <1>u, <2>1 DEF ShutdownSession, LifeTypeOK
<1>11. CASE StopEngine
  <2>1. LinkTypeOK' /\ LifeTypeOK' /\ UNCHANGED seq
    BY <1>11 DEF StopEngine, LinkTypeOK, LifeTypeOK
  <2> QED BY <1>11, <1>u, <2>1 DEF StopEngine
<1> QED BY <1>1, <1>2, <1>3, <1>4, <1>5, <1>6, <1>7, <1>8, <1>9, <1>10, <1>11
        DEF LifeStep, ReconnectGoes

-----------------------------------------------------------------------------
(* Requests and the pool. *)

\* A request that has an id keeps it, whatever becomes of the request.
LEMMA GotoType ==
  ASSUME CallTypeOK, NEW r \in Requests, Keyed(r), NEW pc, Goto(r, pc),
         pc \in {"drawn", "entered", "inserted", "sending", "rejecting",
                 "waiting", "done", "refused", "duplicate"}
  PROVE  /\ req' \in [Requests -> ReqType]
         /\ req'[r].pc = pc
         /\ \A q \in Requests : q # r => req'[q] = req[q]
         /\ \A q \in Requests : Keyed(q)' = Keyed(q) /\ (Keyed(q) => KeyOf(q)' = KeyOf(q))
<1>1. req \in [Requests -> ReqType] /\ req[r] \in ReqType /\ Keyed(r)
  BY DEF CallTypeOK
<1>2. req[r] \in [pc : {"drawn", "entered", "inserted", "sending", "rejecting", "waiting",
                        "done", "refused", "duplicate"}, conn : Conns, tid : Tids]
  BY <1>1 DEF ReqType, NewReq, Offline, Keyed
<1>3. req' = [req EXCEPT ![r] = [req[r] EXCEPT !.pc = pc]]
  BY DEF Goto
<1>4. [req[r] EXCEPT !.pc = pc] \in ReqType
  BY <1>2 DEF ReqType
<1>5. /\ [req[r] EXCEPT !.pc = pc].pc = pc
      /\ [req[r] EXCEPT !.pc = pc].conn = req[r].conn
      /\ [req[r] EXCEPT !.pc = pc].tid = req[r].tid
  BY <1>2
<1>6. req' \in [Requests -> ReqType] /\ req'[r] = [req[r] EXCEPT !.pc = pc]
      /\ \A q \in Requests : q # r => req'[q] = req[q]
  BY <1>1, <1>3, <1>4
<1>7. \A q \in Requests : Keyed(q)' = Keyed(q) /\ (Keyed(q) => KeyOf(q)' = KeyOf(q))
  <2> TAKE q \in Requests
  <2>1. CASE q = r
    BY <2>1, <1>5, <1>6 DEF Keyed, KeyOf, Key
  <2>2. CASE q # r
    BY <2>2, <1>6 DEF Keyed, KeyOf, Key
  <2> QED BY <2>1, <2>2
<1> QED BY <1>5, <1>6, <1>7

\* The id of a request is a key of the pool.
LEMMA KeyType ==
  ASSUME CallTypeOK, NEW r \in Requests, Keyed(r)
  PROVE  KeyOf(r) \in Keys /\ req[r].conn \in Conns /\ req[r].tid \in Tids
<1>1. req[r] \in [pc : {"drawn", "entered", "inserted", "sending", "rejecting", "waiting",
                        "done", "refused", "duplicate"}, conn : Conns, tid : Tids]
  BY DEF CallTypeOK, ReqType, NewReq, Offline, Keyed
<1> QED BY <1>1, KeysAssumption DEF KeyOf, Key

LEMMA TakeOutType ==
  ASSUME PoolTypeOK, NEW k \in Keys, NEW how \in Requests \cup Errors, TakeOut(k, how)
  PROVE  /\ pending' \in [Keys -> Requests \cup {None}]
         /\ taken' \subseteq [req : Requests, key : Keys, how : Requests \cup Errors]
BY DEF PoolTypeOK, TakeOut

LEMMA InsertType ==
  ASSUME PoolTypeOK, NEW r \in Requests, NEW k \in Keys, Insert(r, k)
  PROVE  PoolTypeOK'
BY DEF PoolTypeOK, Insert, wheel, closing

LEMMA SetTimerType ==
  ASSUME PoolTypeOK, NEW k \in Keys, SetTimer(k)
  PROVE  PoolTypeOK'
BY DEF PoolTypeOK, SetTimer, closing

LEMMA SettleType ==
  ASSUME PoolTypeOK, NEW t, Settle(t)
  PROVE  PoolTypeOK'
BY DEF PoolTypeOK, Settle, closing

LEMMA FireType ==
  ASSUME PoolTypeOK, NEW k, Fire(k)
  PROVE  PoolTypeOK'
BY DEF PoolTypeOK, Fire, entries, closing

LEMMA HandleTimeoutType ==
  ASSUME PoolTypeOK, NEW k \in Keys, HandleTimeout(k)
  PROVE  PoolTypeOK'
BY TakeOutType DEF PoolTypeOK, HandleTimeout, closing, Errors

LEMMA CloseType ==
  ASSUME PoolTypeOK, CloseMark \/ CloseStop \/ CloseReject
  PROVE  PoolTypeOK'
BY DEF PoolTypeOK, CloseMark, CloseStop, CloseReject, wheel, entries

LEMMA DrawType ==
  ASSUME TypeOK, NEW r \in Requests, Draw(r)
  PROVE  TypeOK'
<1>1. CASE sess = None \/ (sess # None /\ shut[sess])
  <2>1. req' = [req EXCEPT ![r] = Offline] /\ UNCHANGED seq
    BY <1>1 DEF Draw
  <2>2. req' \in [Requests -> ReqType]
    BY <2>1 DEF TypeOK, ReqType
  <2> QED BY <2>1, <2>2 DEF Draw, TypeOK, life, poolVars, PoolTypeOK
<1>2. CASE sess # None /\ ~shut[sess]
  <2>1. /\ seq[sess] \in Tids
        /\ seq' = [seq EXCEPT ![sess] = @ + 1]
        /\ req' = [req EXCEPT ![r] = [pc |-> "drawn", conn |-> sess, tid |-> seq[sess]]]
    BY <1>2 DEF Draw
  <2>2. [pc |-> "drawn", conn |-> sess, tid |-> seq[sess]] \in ReqType
    BY <1>2, <2>1 DEF TypeOK, ReqType
  <2>3. req' \in [Requests -> ReqType]
    BY <2>1, <2>2 DEF TypeOK
  <2>4. seq' \in [Conns -> Nat]
    BY <1>2, <2>1 DEF TypeOK
  <2>5. UNCHANGED <<conn, shut, sess, life, wire, faults, poolVars>>
    BY DEF Draw
  <2>6. PoolTypeOK'
    BY <2>5 DEF TypeOK, poolVars, PoolTypeOK
  <2> QED BY <2>3, <2>4, <2>5, <2>6 DEF TypeOK, life
<1> QED BY <1>1, <1>2

\* What every step of a request does to requests: it has an id and keeps it.
LEMMA RequestType ==
  ASSUME TypeOK, NEW r \in Requests, RequestStep(r) \/ Cancel(r)
  PROVE  TypeOK'
<1> DEFINE PCs == {"entered", "inserted", "sending", "rejecting",
                   "waiting", "done", "refused", "duplicate"}
<1>k. CallTypeOK /\ PoolTypeOK /\ Keyed(r) /\ UNCHANGED <<link, life>>
      /\ \E pc \in PCs : Goto(r, pc)
  BY TypeParts DEF RequestStep, Cancel, Enter, Register, StartTimer, Send, SendFails,
                   RejectOwn, Await, At, Keyed
<1>1. req' \in [Requests -> ReqType]
  BY <1>k, GotoType
<1>2. wire' \subseteq Requests /\ faults' \in 0 .. MaxFaults
  BY TypeParts, FaultType DEF CallTypeOK, RequestStep, Cancel, Enter, Register, StartTimer,
                   Send, SendFails, RejectOwn, Await
<1>3. KeyOf(r) \in Keys
  BY <1>k, KeyType
<1>4. PoolTypeOK'
  <2>1. CASE Register(r)
    <3>1. CASE UNCHANGED poolVars
      BY <3>1, <1>k DEF poolVars, PoolTypeOK
    <3>2. CASE Insert(r, KeyOf(r))
      BY <3>2, <1>k, <1>3, InsertType
    <3> QED BY <2>1, <3>1, <3>2 DEF Register
  <2>2. CASE StartTimer(r)
    BY <2>2, <1>k, <1>3, SetTimerType DEF StartTimer
  <2>3. CASE RejectOwn(r)
    <3>1. TakeOut(KeyOf(r), "failed") /\ UNCHANGED <<promise, wheel, closing>>
      BY <2>3 DEF RejectOwn
    <3> QED BY <3>1, <1>k, <1>3, TakeOutType DEF PoolTypeOK, Errors, wheel, closing
  <2>4. CASE Enter(r) \/ Send(r) \/ SendFails(r) \/ Await(r) \/ Cancel(r)
    <3>1. UNCHANGED poolVars
      BY <2>4 DEF Enter, Send, SendFails, Await, Cancel
    <3> QED BY <3>1, <1>k DEF poolVars, PoolTypeOK
  <2> QED BY <2>1, <2>2, <2>3, <2>4 DEF RequestStep
<1> QED BY <1>k, <1>1, <1>2, <1>4 DEF TypeOK, link, life

LEMMA RespondType ==
  ASSUME TypeOK, NEW r \in Requests, Respond(r), Keyed(r)
  PROVE  TypeOK'
<1>1. KeyOf(r) \in Keys
  BY KeyType, TypeParts
<1>2. /\ TakeOut(KeyOf(r), r) /\ wire' = wire \ {r}
      /\ UNCHANGED <<link, life, req, faults, promise, wheel, closing>>
  BY DEF Respond
<1>3. PoolTypeOK'
  BY <1>1, <1>2, TakeOutType DEF TypeOK, PoolTypeOK, wheel, closing
<1> QED BY <1>2, <1>3 DEF TypeOK, link, life

LEMMA PoolStepType ==
  ASSUME TypeOK, NEW k \in Keys, PoolStep(k)
  PROVE  TypeOK'
<1>1. PoolTypeOK'
  BY FireType, HandleTimeoutType, SettleType DEF PoolStep, TypeOK
<1> QED BY <1>1 DEF PoolStep, TypeOK, link, life

LEMMA ClosePoolType ==
  ASSUME TypeOK, ClosePool
  PROVE  TypeOK'
<1>1. PoolTypeOK'
  BY CloseType DEF ClosePool, TypeOK
<1>2. down' \in {"no", "marked", "swapped", "stopping", "pool", "done"}
  BY DEF ClosePool, TypeOK
<1> QED BY <1>1, <1>2 DEF ClosePool, TypeOK, link

-----------------------------------------------------------------------------
(* The invariant of requests and pool. *)

\* No step but Draw gives or takes an id, and none goes back.
ReqKept ==
  \A q \in Requests :
    /\ Keyed(q)' = Keyed(q) /\ (Keyed(q) => KeyOf(q)' = KeyOf(q))
    /\ Keyed(q) /\ req[q].pc \notin {"drawn", "entered"} => req'[q].pc \notin {"drawn", "entered"}
    /\ req'[q].pc = "duplicate" => req[q].pc = "duplicate"

LEMMA SameReqKept ==
  ASSUME UNCHANGED req
  PROVE  ReqKept
BY DEF ReqKept, Keyed, KeyOf, Key

\* An id that was just drawn is not in use.
LEMMA NoDuplicate ==
  ASSUME TypeOK, PoolInv, NEW r \in Requests, At(r, "entered")
  PROVE  Keyed(r) /\ ~Duplicate(KeyOf(r))
<1>1. Keyed(r) /\ KeyOf(r) \in Keys
  BY KeyType, TypeParts DEF At, Keyed
<1>2. ASSUME pending[KeyOf(r)] # None PROVE FALSE
  <2>1. pending[KeyOf(r)] \in Requests
    BY <1>1, <1>2 DEF TypeOK, PoolTypeOK
  <2>2. /\ Keyed(pending[KeyOf(r)]) /\ req[pending[KeyOf(r)]].pc # "entered"
        /\ KeyOf(pending[KeyOf(r)]) = KeyOf(r)
    BY <1>1, <1>2 DEF PoolInv, EntriesKeyed
  <2>3. pending[KeyOf(r)] = r
    BY <1>1, <2>1, <2>2 DEF PoolInv, IdsAlone
  <2> QED BY <2>2, <2>3 DEF At
<1> QED BY <1>1, <1>2 DEF Duplicate

LEMMA RequestKept ==
  ASSUME TypeOK, PoolInv, NEW r \in Requests, RequestStep(r) \/ Cancel(r)
  PROVE  Keyed(r) /\ ReqKept /\ UNCHANGED seq /\ wire' \subseteq wire \cup {r}
<1>1. PICK pc \in {"entered", "inserted", "sending", "rejecting", "waiting", "done", "refused"} :
        Goto(r, pc) /\ (pc = "entered" => At(r, "drawn"))
  BY NoDuplicate DEF RequestStep, Cancel, Enter, Register, StartTimer, Send, SendFails,
                     RejectOwn, Await
<1>2. CallTypeOK /\ Keyed(r)
  BY TypeParts DEF RequestStep, Cancel, Enter, Register, StartTimer, Send, SendFails,
                   RejectOwn, Await, At, Keyed
<1>3. /\ req'[r].pc = pc
      /\ \A q \in Requests : q # r => req'[q] = req[q]
      /\ \A q \in Requests : Keyed(q)' = Keyed(q) /\ (Keyed(q) => KeyOf(q)' = KeyOf(q))
  BY <1>1, <1>2, GotoType
<1>4. ReqKept
  BY <1>1, <1>3 DEF ReqKept, At
<1>5. UNCHANGED seq /\ wire' \subseteq wire \cup {r}
  BY DEF RequestStep, Cancel, Enter, Register, StartTimer, Send, SendFails, RejectOwn, Await, link
<1> QED BY <1>2, <1>4, <1>5

LEMMA IdsKept ==
  ASSUME TypeOK, IdsAlone, ReqKept, UNCHANGED seq,
         \A r \in wire' : r \in Requests /\ (r \in wire \/ Keyed(r))
  PROVE  IdsAlone'
<1>1. ASSUME NEW r \in Requests, Keyed(r)' PROVE req'[r].tid < seq'[req'[r].conn]
  <2>1. Keyed(r) /\ KeyOf(r)' = KeyOf(r)
    BY <1>1 DEF ReqKept
  <2>2. req'[r].conn = req[r].conn /\ req'[r].tid = req[r].tid
    BY <2>1 DEF KeyOf, Key
  <2> QED BY <2>1, <2>2 DEF IdsAlone
<1>2. ASSUME NEW q \in Requests, NEW r \in Requests, Keyed(q)', Keyed(r)', KeyOf(q)' = KeyOf(r)'
      PROVE  q = r
  BY <1>2 DEF ReqKept, IdsAlone
<1>3. \A r \in wire' : Keyed(r)'
  BY DEF ReqKept, IdsAlone
<1> QED BY <1>1, <1>2, <1>3 DEF IdsAlone

\* The next id of a session is above all it has given out.
LEMMA DrawInv ==
  ASSUME TypeOK, PoolInv, NEW r \in Requests, Draw(r)
  PROVE  PoolInv'
<1>p. /\ UNCHANGED poolVars /\ UNCHANGED wire /\ At(r, "new") /\ ~Keyed(r)
      /\ req \in [Requests -> ReqType]
  BY DEF Draw, At, Keyed, TypeOK
<1>1. CASE sess = None \/ (sess # None /\ shut[sess])
  <2>1. req' = [req EXCEPT ![r] = Offline] /\ UNCHANGED seq
    BY <1>1 DEF Draw
  <2>2. req'[r] = Offline /\ \A q \in Requests : q # r => req'[q] = req[q]
    BY <1>p, <2>1
  <2>3. ReqKept
    BY <1>p, <2>2 DEF ReqKept, Keyed, KeyOf, Key, Offline
  <2>4. IdsAlone'
    BY <1>p, <2>1, <2>3, IdsKept DEF PoolInv, IdsAlone, TypeOK
  <2>5. EntriesKeyed'
    BY <1>p, <2>3 DEF PoolInv, EntriesKeyed, poolVars, ReqKept, TypeOK, PoolTypeOK
  <2>6. OwnAnswer'
    BY <1>p, <2>3 DEF PoolInv, OwnAnswer, poolVars, ReqKept
  <2>7. WaitersTended'
    BY <1>p, <2>2 DEF PoolInv, WaitersTended, poolVars, At
  <2> QED BY <2>4, <2>5, <2>6, <2>7 DEF PoolInv
<1>2. CASE sess # None /\ ~shut[sess]
  <2> DEFINE new == [pc |-> "drawn", conn |-> sess, tid |-> seq[sess]]
  <2>1. /\ seq[sess] \in Tids
        /\ seq' = [seq EXCEPT ![sess] = @ + 1]
        /\ req' = [req EXCEPT ![r] = new]
        /\ sess \in Conns /\ seq \in [Conns -> Nat]
    BY <1>2 DEF Draw, TypeOK
  <2>2. req'[r] = new /\ \A q \in Requests : q # r => req'[q] = req[q]
    BY <1>p, <2>1
  <2>3. \A q \in Requests : q # r => Keyed(q)' = Keyed(q) /\ KeyOf(q)' = KeyOf(q)
    BY <2>2 DEF Keyed, KeyOf, Key
  <2>4. \A c \in Conns : seq'[c] >= seq[c] /\ seq[c] \in Nat /\ seq'[c] \in Nat
    BY <2>1
  <2>5. seq'[sess] = seq[sess] + 1
    BY <2>1
  <2>6. ASSUME NEW q \in Requests, Keyed(q)' PROVE req'[q].tid < seq'[req'[q].conn]
    <3>1. CASE q = r
      BY <2>2, <2>4, <2>5, <2>1, <3>1
    <3>2. CASE q # r
      <4>1. Keyed(q) /\ req'[q] = req[q]
        BY <2>2, <2>3, <2>6, <3>2
      <4>2. PICK c \in Conns, n \in Nat : req[q].conn = c /\ req[q].tid = n /\ n < seq[c]
        BY <4>1, KeyType, TypeParts, BoundsAssumption DEF PoolInv, IdsAlone
      <4>3. n < seq'[c]
        BY <4>2, <2>4
      <4> QED BY <4>1, <4>2, <4>3
    <3> QED BY <3>1, <3>2
  <2>7. ASSUME NEW q \in Requests, Keyed(q), q # r PROVE KeyOf(q)' # KeyOf(r)'
    <3>1. req[q].conn \in Conns /\ req[q].tid \in Tids /\ req[q].tid < seq[req[q].conn]
      BY <2>7, KeyType, TypeParts DEF PoolInv, IdsAlone
    <3>2. KeyOf(r)' = <<sess, seq[sess]>> /\ KeyOf(q)' = <<req[q].conn, req[q].tid>>
      BY <2>2, <2>7 DEF KeyOf, Key
    <3> QED BY <3>1, <3>2, <2>4, <2>1, BoundsAssumption
  <2>8. IdsAlone'
    <3>1. \A q1, q2 \in Requests : Keyed(q1)' /\ Keyed(q2)' /\ KeyOf(q1)' = KeyOf(q2)' => q1 = q2
      BY <2>3, <2>7 DEF PoolInv, IdsAlone
    <3>2. \A q \in wire' : Keyed(q)'
      BY <1>p, <2>3 DEF PoolInv, IdsAlone, TypeOK
    <3> QED BY <2>6, <3>1, <3>2 DEF IdsAlone
  <2>9. EntriesKeyed'
    <3>1. \A k \in Keys : pending[k] # None => pending[k] \in Requests /\ pending[k] # r
      BY <1>p DEF PoolInv, EntriesKeyed, TypeOK, PoolTypeOK
    <3>2. \A t \in taken : t \in [req : Requests, key : Keys, how : Requests \cup Errors]
      BY DEF TypeOK, PoolTypeOK
    <3>3. \A t \in taken : t.req # r
      BY <1>p DEF PoolInv, EntriesKeyed
    <3> QED BY <1>p, <2>2, <2>3, <3>1, <3>2, <3>3 DEF PoolInv, EntriesKeyed, poolVars
  <2>10. OwnAnswer'
    BY <1>p, <2>2 DEF PoolInv, OwnAnswer, poolVars
  <2>11. WaitersTended'
    BY <1>p, <2>2 DEF PoolInv, WaitersTended, poolVars, At
  <2> QED BY <2>8, <2>9, <2>10, <2>11 DEF PoolInv
<1> QED BY <1>1, <1>2

\* An entry that is taken out goes on to the promise of its own request.
LEMMA TakeOutInv ==
  ASSUME TypeOK, PoolInv, ReqKept, NEW k \in Keys, NEW how, TakeOut(k, how),
         \/ how \in Errors
         \/ how \in Requests /\ Keyed(how) /\ KeyOf(how) = k,
         UNCHANGED <<promise, closing>>,
         \A q \in Requests : At(q, "inserted") => At(q, "inserted")',
         \A l \in Keys : l # k /\ l \in timers \cup fired => l \in timers' \cup fired'
  PROVE  EntriesKeyed' /\ OwnAnswer' /\ WaitersTended'
<1>1. /\ pending \in [Keys -> Requests \cup {None}]
      /\ taken \subseteq [req : Requests, key : Keys, how : Requests \cup Errors]
      /\ pending' = [pending EXCEPT ![k] = None]
      /\ taken' = IF pending[k] = None THEN taken
                  ELSE taken \cup {[req |-> pending[k], key |-> k, how |-> how]}
  BY DEF TypeOK, PoolTypeOK, TakeOut
<1>2. ASSUME NEW t \in taken'
      PROVE  Keyed(t.req)' /\ KeyOf(t.req)' = t.key /\ (t.how \in Requests => t.how = t.req)
  <2>1. CASE t \in taken
    <3>1. t \in [req : Requests, key : Keys, how : Requests \cup Errors]
      BY <1>1, <2>1
    <3>2. Keyed(t.req) /\ KeyOf(t.req) = t.key /\ (t.how \in Requests => t.how = t.req)
      BY <2>1 DEF PoolInv, EntriesKeyed
    <3> QED BY <3>1, <3>2 DEF ReqKept
  <2>2. CASE t \notin taken
    <3>1. pending[k] \in Requests /\ t = [req |-> pending[k], key |-> k, how |-> how]
      BY <1>1, <2>2, <1>2
    <3>2. Keyed(pending[k]) /\ KeyOf(pending[k]) = k
      BY <1>1, <2>2, <1>2 DEF PoolInv, EntriesKeyed
    <3>3. how \in Requests => how = pending[k]
      BY <3>1, <3>2, NamesAssumption DEF PoolInv, IdsAlone
    <3> QED BY <3>1, <3>2, <3>3 DEF ReqKept
  <2> QED BY <2>1, <2>2
<1>3. EntriesKeyed'
  <2>1. \A l \in Keys : pending'[l] # None => pending'[l] = pending[l] /\ pending[l] \in Requests
    BY <1>1
  <2>2. pool' = pool /\ snapshot' = snapshot
    BY DEF closing
  <2> QED BY <2>1, <2>2, <1>2 DEF PoolInv, EntriesKeyed, ReqKept
<1>4. OwnAnswer'
  BY DEF PoolInv, OwnAnswer, ReqKept
<1>5. ASSUME NEW r \in Requests, promise[r] = "waiting"
      PROVE  \/ \E l \in Keys : pending'[l] = r /\ (l \in timers' \cup fired' \/ At(r, "inserted")')
             \/ \E t \in taken' : t.req = r
             \/ r \in snapshot
  <2>1. CASE pending[k] = r
    <3>1. [req |-> pending[k], key |-> k, how |-> how] \in taken'
      BY <1>1, <2>1, NamesAssumption
    <3> QED BY <2>1, <3>1
  <2>2. CASE pending[k] # r
    BY <1>1, <1>5, <2>2 DEF PoolInv, WaitersTended
  <2> QED BY <2>1, <2>2
<1>6. WaitersTended'
  BY <1>5 DEF WaitersTended, closing
<1> QED BY <1>3, <1>4, <1>6

\* An entry is put in: the pool is open and the request becomes a waiter.
LEMMA InsertInv ==
  ASSUME TypeOK, PoolInv, ReqKept, NEW r \in Requests, Keyed(r),
         Insert(r, KeyOf(r)), At(r, "inserted")', UNCHANGED snapshot,
         \A q \in Requests : q # r => req'[q] = req[q]
  PROVE  EntriesKeyed' /\ OwnAnswer' /\ WaitersTended'
<1>1. /\ pool = "open" /\ pending[KeyOf(r)] = None /\ KeyOf(r) \in Keys
      /\ pending \in [Keys -> Requests \cup {None}]
      /\ pending' = [pending EXCEPT ![KeyOf(r)] = r]
      /\ promise' = [promise EXCEPT ![r] = "waiting"]
      /\ UNCHANGED <<taken, timers, fired, pool, snapshot>>
  BY KeyType, TypeParts DEF Insert, Accepts, Duplicate, wheel, closing, TypeOK, PoolTypeOK
<1>2. EntriesKeyed'
  <2>1. ASSUME NEW k \in Keys, NEW q \in Requests, pending'[k] = q
        PROVE  Keyed(q)' /\ req'[q].pc \notin {"drawn", "entered"} /\ KeyOf(q)' = k
    <3>1. CASE k = KeyOf(r)
      <4>1. q = r
        BY <1>1, <2>1, <3>1
      <4> QED BY <4>1, <3>1 DEF ReqKept, At
    <3>2. CASE k # KeyOf(r)
      <4>1. pending[k] = q
        BY <1>1, <2>1, <3>2
      <4>2. Keyed(q) /\ req[q].pc \notin {"drawn", "entered"} /\ KeyOf(q) = k
        BY <4>1, NamesAssumption DEF PoolInv, EntriesKeyed
      <4> QED BY <4>2 DEF ReqKept
    <3> QED BY <3>1, <3>2
  <2>2. ASSUME NEW t \in taken'
        PROVE  Keyed(t.req)' /\ KeyOf(t.req)' = t.key /\ (t.how \in Requests => t.how = t.req)
    <3>1. t \in taken /\ t \in [req : Requests, key : Keys, how : Requests \cup Errors]
      BY <1>1, <2>2 DEF TypeOK, PoolTypeOK
    <3> QED BY <3>1 DEF PoolInv, EntriesKeyed, ReqKept
  <2>3. \A k \in Keys : pending'[k] # None => pending'[k] \in Requests
    BY <1>1
  <2>4. pool' = "open" /\ snapshot' = {}
    BY <1>1 DEF PoolInv, EntriesKeyed
  <2> QED BY <2>1, <2>2, <2>3, <2>4 DEF EntriesKeyed
<1>3. OwnAnswer'
  <2>1. \A q \in Requests : promise'[q] \in Requests => promise'[q] = q
    BY <1>1, NamesAssumption DEF PoolInv, OwnAnswer, TypeOK, PoolTypeOK
  <2> QED BY <2>1 DEF PoolInv, OwnAnswer, ReqKept
<1>4. ASSUME NEW q \in Requests, promise'[q] = "waiting"
      PROVE  \/ \E k \in Keys : pending'[k] = q /\ (k \in timers \cup fired \/ At(q, "inserted")')
             \/ \E t \in taken : t.req = q
             \/ q \in snapshot
  <2>1. CASE q = r
    BY <1>1, <2>1
  <2>2. CASE q # r
    <3>1. promise[q] = "waiting" /\ req'[q] = req[q]
      BY <1>1, <1>4, <2>2 DEF TypeOK, PoolTypeOK
    <3>2. \A k \in Keys : pending[k] = q => pending'[k] = q
      BY <1>1, NamesAssumption
    <3> QED BY <3>1, <3>2 DEF PoolInv, WaitersTended, At
  <2> QED BY <2>1, <2>2
<1>5. WaitersTended'
  BY <1>1, <1>4 DEF WaitersTended
<1> QED BY <1>2, <1>3, <1>5

\* The timer starts; when the wheel has stopped there is no entry to lose.
LEMMA StartTimerInv ==
  ASSUME TypeOK, PoolInv, ReqKept, NEW r \in Requests, Keyed(r), StartTimer(r)
  PROVE  EntriesKeyed' /\ OwnAnswer' /\ WaitersTended'
<1>1. /\ SetTimer(KeyOf(r)) /\ KeyOf(r) \in Keys /\ CallTypeOK /\ At(r, "inserted")
      /\ \E pc \in {"sending", "refused"} : Goto(r, pc)
      /\ pending \in [Keys -> Requests \cup {None}]
      /\ UNCHANGED <<fired, taken, promise, pool, snapshot>>
  BY KeyType, TypeParts DEF StartTimer, SetTimer, closing, PoolTypeOK
<1>2. \A q \in Requests : q # r => req'[q] = req[q]
  BY <1>1, GotoType
<1>3. pending' = pending
  <2>1. CASE WheelRuns
    BY <1>1, <2>1 DEF SetTimer
  <2>2. CASE ~WheelRuns
    <3>1. \A k \in Keys : pending[k] = None
      BY <2>2 DEF WheelRuns, PoolInv, EntriesKeyed
    <3> QED BY <1>1, <2>2, <3>1 DEF SetTimer
  <2> QED BY <2>1, <2>2
<1>4. EntriesKeyed'
  <2>1. \A k \in Keys : pending[k] # None => pending[k] \in Requests
    BY <1>1
  <2>2. \A t \in taken : t \in [req : Requests, key : Keys, how : Requests \cup Errors]
    BY DEF TypeOK, PoolTypeOK
  <2> QED BY <1>1, <1>3, <2>1, <2>2 DEF PoolInv, EntriesKeyed, ReqKept
<1>5. OwnAnswer'
  BY <1>1 DEF PoolInv, OwnAnswer, ReqKept
<1>6. \A k \in Keys : k \in timers => k \in timers'
  BY <1>1 DEF SetTimer
<1>7. \A k \in Keys : pending[k] = r => k = KeyOf(r) /\ (k \in timers')
  BY <1>1, NamesAssumption DEF PoolInv, EntriesKeyed, SetTimer, WheelRuns
<1>8. WaitersTended'
  BY <1>1, <1>2, <1>3, <1>6, <1>7 DEF PoolInv, WaitersTended, At
<1> QED BY <1>4, <1>5, <1>8

\* Settling removes a timer by key: it is never the timer of another entry,
\* because no two requests have the same key.
LEMMA SettleInv ==
  ASSUME TypeOK, PoolInv, UNCHANGED req, NEW t \in taken, Settle(t)
  PROVE  EntriesKeyed' /\ OwnAnswer' /\ WaitersTended'
<1>1. /\ t \in [req : Requests, key : Keys, how : Requests \cup Errors]
      /\ taken' = taken \ {t} /\ promise \in [Requests ->
                {None, "waiting", "closed"} \cup Requests \cup Errors]
      /\ promise' = [promise EXCEPT ![t.req] = IF @ = "waiting" THEN t.how ELSE @]
      /\ \A k \in Keys : k # t.key /\ k \in timers => k \in timers'
      /\ UNCHANGED <<pending, fired, pool, snapshot>>
  BY DEF Settle, TypeOK, PoolTypeOK, closing
<1>2. Keyed(t.req) /\ KeyOf(t.req) = t.key /\ (t.how \in Requests => t.how = t.req)
  BY DEF PoolInv, EntriesKeyed
<1>k. ReqKept
  BY SameReqKept
<1>3. EntriesKeyed'
  <2>1. \A k \in Keys : pending[k] # None => pending[k] \in Requests
    BY DEF TypeOK, PoolTypeOK
  <2>2. \A u \in taken : u \in [req : Requests, key : Keys, how : Requests \cup Errors]
    BY DEF TypeOK, PoolTypeOK
  <2> QED BY <1>1, <1>k, <2>1, <2>2 DEF PoolInv, EntriesKeyed, ReqKept
<1>4. OwnAnswer'
  <2>1. \A q \in Requests : promise'[q] \in Requests => promise'[q] = q
    BY <1>1, <1>2 DEF PoolInv, OwnAnswer
  <2> QED BY <2>1, <1>k DEF PoolInv, OwnAnswer, ReqKept
<1>5. ASSUME NEW r \in Requests, promise'[r] = "waiting"
      PROVE  \/ \E k \in Keys : pending[k] = r /\ (k \in timers' \cup fired \/ At(r, "inserted"))
             \/ \E u \in taken' : u.req = r
             \/ r \in snapshot
  <2>1. r # t.req
    BY <1>1, <1>5, NamesAssumption DEF Errors
  <2>2. promise[r] = "waiting"
    BY <1>1, <1>5, <2>1
  <2>3. CASE \E k \in Keys : pending[k] = r /\ (k \in timers \cup fired \/ At(r, "inserted"))
    <3>1. PICK k \in Keys : pending[k] = r /\ (k \in timers \cup fired \/ At(r, "inserted"))
      BY <2>3
    <3>2. Keyed(r) /\ KeyOf(r) = k
      BY <3>1, NamesAssumption DEF PoolInv, EntriesKeyed
    <3>3. k # t.key
      BY <3>2, <1>1, <1>2, <2>1 DEF PoolInv, IdsAlone
    <3> QED BY <1>1, <3>1, <3>3
  <2>4. CASE \E u \in taken : u.req = r
    BY <1>1, <2>1, <2>4
  <2> QED BY <2>2, <2>3, <2>4 DEF PoolInv, WaitersTended
<1>6. WaitersTended'
  BY <1>1, <1>5 DEF WaitersTended, At
<1> QED BY <1>3, <1>4, <1>6

\* A timer goes from the wheel to the goroutine that will take the mutex.
LEMMA FireInv ==
  ASSUME TypeOK, PoolInv, UNCHANGED req, NEW k \in Keys, Fire(k)
  PROVE  EntriesKeyed' /\ OwnAnswer' /\ WaitersTended'
<1>1. /\ timers' \cup fired' = timers \cup fired
      /\ UNCHANGED <<pending, taken, promise, pool, snapshot>>
  BY DEF Fire, entries, closing
<1> QED BY <1>1 DEF PoolInv, EntriesKeyed, OwnAnswer, WaitersTended, Keyed, KeyOf, Key, At

\* Close copies every waiting entry before it stops the wheel.
LEMMA CloseInv ==
  ASSUME TypeOK, PoolInv, UNCHANGED req, CloseMark \/ CloseStop \/ CloseReject
  PROVE  EntriesKeyed' /\ OwnAnswer' /\ WaitersTended'
<1>k. ReqKept
  BY SameReqKept
<1>1. CASE CloseMark
  <2>1. /\ pending' = [l \in Keys |-> None] /\ snapshot' = {pending[l] : l \in Keys} \ {None}
        /\ pool' = "marked" /\ pool = "open" /\ UNCHANGED <<taken, promise, timers, fired>>
    BY <1>1 DEF CloseMark, wheel
  <2>2. EntriesKeyed'
    BY <2>1 DEF PoolInv, EntriesKeyed, Keyed, KeyOf, Key
  <2>3. \A r \in Requests : (\E k \in Keys : pending[k] = r) => r \in snapshot'
    BY <2>1, NamesAssumption
  <2>4. \A r \in Requests : r \in snapshot => \E k \in Keys : pending[k] = r
    <3>1. snapshot = {}
      BY <2>1 DEF PoolInv, EntriesKeyed
    <3> QED BY <3>1
  <2>5. WaitersTended'
    BY <2>1, <2>3, <2>4 DEF PoolInv, WaitersTended
  <2>6. OwnAnswer'
    BY <2>1 DEF PoolInv, OwnAnswer
  <2> QED BY <2>2, <2>5, <2>6
<1>2. CASE CloseStop
  <2>1. /\ \A k \in Keys : pending[k] = None
        /\ pool = "marked" /\ pool' = "stopped"
        /\ UNCHANGED <<pending, taken, promise, fired, snapshot>>
    BY <1>2 DEF CloseStop, PoolInv, EntriesKeyed, entries
  <2>2. EntriesKeyed' /\ OwnAnswer'
    BY <2>1 DEF PoolInv, EntriesKeyed, OwnAnswer, Keyed, KeyOf, Key
  <2>3. WaitersTended'
    BY <2>1, NamesAssumption DEF PoolInv, WaitersTended
  <2> QED BY <2>2, <2>3
<1>3. CASE CloseReject
  <2>1. /\ pool = "stopped" /\ pool' = "closed" /\ UNCHANGED <<pending, taken, timers, fired>>
        /\ promise' = [r \in Requests |-> IF r \in snapshot /\ promise[r] = "waiting"
                                          THEN "closed" ELSE promise[r]]
    BY <1>3 DEF CloseReject, wheel
  <2>2. EntriesKeyed'
    BY <2>1 DEF PoolInv, EntriesKeyed, Keyed, KeyOf, Key
  <2>3. OwnAnswer'
    BY <2>1, NamesAssumption DEF PoolInv, OwnAnswer
  <2>4. \A r \in Requests : promise'[r] = "waiting" => promise[r] = "waiting" /\ r \notin snapshot
    BY <2>1
  <2>5. WaitersTended'
    BY <2>1, <2>4 DEF PoolInv, WaitersTended, At
  <2> QED BY <2>2, <2>3, <2>5
<1> QED BY <1>1, <1>2, <1>3

-----------------------------------------------------------------------------
(* Every step, and the theorems. *)

LEMMA InitPoolInv == Init => PoolInv
<1> SUFFICES ASSUME Init PROVE PoolInv
  OBVIOUS
<1>1. /\ \A r \in Requests : ~Keyed(r) /\ promise[r] = None /\ req[r].pc = "new"
      /\ \A k \in Keys : pending[k] = None
      /\ taken = {} /\ wire = {} /\ pool = "open" /\ snapshot = {}
  BY DEF Init, PoolInit, NewReq, Keyed
<1> QED BY <1>1, NamesAssumption DEF PoolInv, IdsAlone, EntriesKeyed, OwnAnswer, WaitersTended

LEMMA RequestInv ==
  ASSUME TypeOK, PoolInv, NEW r \in Requests, RequestStep(r) \/ Cancel(r)
  PROVE  PoolInv'
<1>1. /\ Keyed(r) /\ ReqKept /\ UNCHANGED seq /\ wire' \subseteq wire \cup {r}
      /\ KeyOf(r) \in Keys /\ CallTypeOK
  BY RequestKept, KeyType, TypeParts
<1>2. IdsAlone'
  BY <1>1, IdsKept DEF TypeOK, PoolInv
<1>3. CASE StartTimer(r)
  BY <1>1, <1>2, <1>3, StartTimerInv DEF PoolInv
<1>4. CASE Register(r) /\ Accepts
  <2>1. ~Duplicate(KeyOf(r))
    BY <1>4, NoDuplicate DEF Register
  <2>2. Goto(r, "inserted") /\ Insert(r, KeyOf(r))
    BY <1>4, <2>1 DEF Register
  <2>3. /\ req'[r].pc = "inserted"
        /\ \A q \in Requests : q # r => req'[q] = req[q]
    BY <1>1, <2>2, GotoType
  <2>4. At(r, "inserted")' /\ UNCHANGED snapshot
    BY <2>2, <2>3 DEF At, Insert, closing
  <2> QED BY <1>1, <1>2, <2>2, <2>3, <2>4, InsertInv DEF PoolInv
<1>5. CASE RejectOwn(r)
  <2>1. /\ TakeOut(KeyOf(r), "failed") /\ At(r, "rejecting") /\ Goto(r, "done")
        /\ UNCHANGED <<promise, wheel, closing>>
    BY <1>5 DEF RejectOwn
  <2>2. \A q \in Requests : At(q, "inserted") => At(q, "inserted")'
    BY <1>1, <2>1, GotoType DEF At
  <2> QED BY <1>1, <1>2, <2>1, <2>2, TakeOutInv DEF PoolInv, Errors, wheel
<1>6. CASE \/ Register(r) /\ ~Accepts
           \/ Enter(r) \/ Send(r) \/ SendFails(r) \/ Await(r) \/ Cancel(r)
  <2>1. UNCHANGED poolVars /\ ~At(r, "inserted")
        /\ \E pc \in {"entered", "rejecting", "waiting", "done", "refused"} : Goto(r, pc)
    BY <1>6 DEF Register, Enter, Send, SendFails, Await, Cancel, At
  <2>2. \A q \in Requests : At(q, "inserted") => At(q, "inserted")'
    BY <1>1, <2>1, GotoType DEF At
  <2>3. EntriesKeyed'
    <3>1. \A k \in Keys : pending[k] # None => pending[k] \in Requests
      BY DEF TypeOK, PoolTypeOK
    <3>2. \A t \in taken : t \in [req : Requests, key : Keys, how : Requests \cup Errors]
      BY DEF TypeOK, PoolTypeOK
    <3> QED BY <1>1, <2>1, <3>1, <3>2 DEF PoolInv, EntriesKeyed, ReqKept, poolVars
  <2>4. OwnAnswer'
    BY <1>1, <2>1 DEF PoolInv, OwnAnswer, ReqKept, poolVars
  <2>5. WaitersTended'
    BY <2>1, <2>2 DEF PoolInv, WaitersTended, poolVars
  <2> QED BY <1>2, <2>3, <2>4, <2>5 DEF PoolInv
<1> QED BY <1>3, <1>4, <1>5, <1>6 DEF RequestStep

\* A reply is resolved under the key of the request it answers.
LEMMA RespondInv ==
  ASSUME TypeOK, PoolInv, NEW r \in Requests, Respond(r)
  PROVE  PoolInv' /\ Keyed(r)
<1>1. /\ Keyed(r) /\ CallTypeOK
      /\ TakeOut(KeyOf(r), r) /\ wire' = wire \ {r} /\ UNCHANGED seq
      /\ UNCHANGED <<req, promise, wheel, closing>>
  BY TypeParts DEF Respond, PoolInv, IdsAlone, link
<1>2. ReqKept /\ KeyOf(r) \in Keys
  BY <1>1, SameReqKept, KeyType
<1>3. IdsAlone'
  BY <1>1, <1>2, IdsKept DEF TypeOK, PoolInv
<1>4. \A q \in Requests : At(q, "inserted") => At(q, "inserted")'
  BY <1>1 DEF At
<1> QED BY <1>1, <1>2, <1>3, <1>4, TakeOutInv DEF PoolInv, wheel

LEMMA PoolStepInv ==
  ASSUME TypeOK, PoolInv, NEW k \in Keys, PoolStep(k)
  PROVE  PoolInv'
<1>1. UNCHANGED <<req, seq, wire>> /\ ReqKept
  BY SameReqKept DEF PoolStep, link
<1>2. IdsAlone'
  BY <1>1, IdsKept DEF TypeOK, PoolInv
<1>3. CASE Fire(k)
  BY <1>1, <1>2, <1>3, FireInv DEF PoolInv
<1>4. CASE HandleTimeout(k)
  <2>1. /\ TakeOut(k, "expired") /\ fired' = fired \ {k}
        /\ UNCHANGED <<timers, promise, closing>>
    BY <1>4 DEF HandleTimeout
  <2>2. \A q \in Requests : At(q, "inserted") => At(q, "inserted")'
    BY <1>1 DEF At
  <2> QED BY <1>1, <1>2, <2>1, <2>2, TakeOutInv DEF PoolInv, Errors
<1>5. ASSUME NEW t \in taken, Settle(t) PROVE PoolInv'
  BY <1>1, <1>2, <1>5, SettleInv DEF PoolInv
<1> QED BY <1>3, <1>4, <1>5 DEF PoolStep

LEMMA ClosePoolInv ==
  ASSUME TypeOK, PoolInv, ClosePool
  PROVE  PoolInv'
<1>1. UNCHANGED <<req, seq, wire>> /\ ReqKept
  BY SameReqKept DEF ClosePool, link
<1>2. IdsAlone'
  BY <1>1, IdsKept DEF TypeOK, PoolInv
<1> QED BY <1>1, <1>2, CloseInv DEF ClosePool, PoolInv

LEMMA StillInv ==
  ASSUME TypeOK, PoolInv, UNCHANGED <<seq, req, wire, poolVars>>
  PROVE  PoolInv'
BY DEF PoolInv, IdsAlone, EntriesKeyed, OwnAnswer, WaitersTended, Keyed, KeyOf, Key, At, poolVars

LEMMA NextInv == TypeOK /\ PoolInv /\ [Next]_vars => TypeOK' /\ PoolInv'
<1> SUFFICES ASSUME TypeOK, PoolInv, [Next]_vars PROVE TypeOK' /\ PoolInv'
  OBVIOUS
<1>1. CASE LifeStep
  BY <1>1, LifeType, StillInv
<1>2. CASE ClosePool
  BY <1>2, ClosePoolType, ClosePoolInv
<1>3. ASSUME NEW r \in Requests, Draw(r) PROVE TypeOK' /\ PoolInv'
  BY <1>3, DrawType, DrawInv
<1>4. ASSUME NEW r \in Requests, RequestStep(r) \/ Cancel(r) PROVE TypeOK' /\ PoolInv'
  BY <1>4, RequestType, RequestInv
<1>5. ASSUME NEW r \in Requests, Respond(r) PROVE TypeOK' /\ PoolInv'
  BY <1>5, RespondInv, RespondType
<1>6. ASSUME NEW k \in Keys, PoolStep(k) PROVE TypeOK' /\ PoolInv'
  BY <1>6, PoolStepType, PoolStepInv
<1>7. CASE UNCHANGED vars
  <2>1. TypeOK'
    BY <1>7 DEF TypeOK, PoolTypeOK, vars, link, life, poolVars
  <2>2. PoolInv'
    BY <1>7, StillInv DEF vars, link
  <2> QED BY <2>1, <2>2
<1> QED BY <1>1, <1>2, <1>3, <1>4, <1>5, <1>6, <1>7 DEF Next, LifeStep, ShutdownStep

LEMMA PoolInvariant == Spec => [](TypeOK /\ PoolInv)
<1>1. Init => TypeOK /\ PoolInv
  BY InitTypeOK, InitPoolInv
<1> QED BY <1>1, NextInv, PTL DEF Spec

\* Types of all the variables, whatever the peer, the timers and Shutdown do.
THEOREM TypeCorrect == Spec => []TypeOK
<1>1. TypeOK /\ PoolInv => TypeOK
  OBVIOUS
<1> QED BY <1>1, PoolInvariant, PTL

\* A request is answered by its own reply or by none, and its id is never in
\* use already (session.Request keys the pool by session and transaction id).
THEOREM RepliesReachTheirRequest == Spec => []OwnAnswer
<1>1. TypeOK /\ PoolInv => OwnAnswer
  BY DEF PoolInv
<1> QED BY <1>1, PoolInvariant, PTL

\* Nobody waits on a promise without a timer, a callback, a resolver or Close
\* that is going to settle it (ReplyPool, between its unlocks and the wheel).
THEOREM NobodyForgotten == Spec => []WaitersTended
<1>1. TypeOK /\ PoolInv => WaitersTended
  BY DEF PoolInv
<1> QED BY <1>1, PoolInvariant, PTL

-----------------------------------------------------------------------------
(* The connections: the client never has two, an open one is its session,   *)
(* and Shutdown leaves nothing behind.                                       *)

\* gnet has the connection, whether or not it is already going down.
Live(c) == conn[c] \in {"open", "lost"}

\* Why there is never a second connection: only the first dial and the
\* reconnect goroutine dial, and while one of them may, nothing is live.  The
\* goroutine is started by OnClose alone, after the last connection is gone.
LinkInv ==
  /\ \A c, d \in Conns : Live(c) /\ Live(d) => c = d
  /\ \A c \in Conns : Live(c) /\ ~closed => sess = c
  /\ sess # None => Live(sess)
  /\ boot => rec = "none" /\ \A c \in Conns : conn[c] = "new"
  /\ rec \in {"waiting", "dialing"} => \A c \in Conns : ~Live(c)

\* How far Shutdown is, against the connections and the pool.
DownInv ==
  /\ down # "no" => closed
  /\ ~Engine => \A c \in Conns : conn[c] # "open"
  /\ down \in {"pool", "done"} => \A c \in Conns : ~Live(c)
  /\ down = "done" => pool = "closed"
  /\ pool = "closed" => snapshot = {}

ClientInv == LinkInv /\ DownInv

LEMMA InitClientInv == Init => ClientInv
BY DEF Init, PoolInit, ClientInv, LinkInv, DownInv, Live, Engine

\* A dial succeeds while the engine runs and nothing is live.
LEMMA OpenInv ==
  ASSUME TypeOK, ClientInv, NEW c \in Conns, Open(c), \A d \in Conns : ~Live(d),
         boot' = FALSE, rec' \notin {"waiting", "dialing"},
         UNCHANGED <<closed, down, pool, snapshot>>
  PROVE  ClientInv'
<1>1. /\ conn' = [conn EXCEPT ![c] = "open"] /\ sess' = c /\ Engine
      /\ conn \in [Conns -> {"new", "open", "lost", "closed"}]
  BY DEF Open, TypeOK
<1>2. \A d \in Conns : Live(d)' <=> d = c
  BY <1>1 DEF Live
<1>3. LinkInv'
  BY <1>1, <1>2 DEF LinkInv
<1>4. Engine' /\ down' \notin {"pool", "done"}
  BY <1>1 DEF Engine
<1>5. DownInv'
  BY <1>4 DEF ClientInv, DownInv
<1> QED BY <1>3, <1>5 DEF ClientInv

\* No connection becomes live or open, and the session stays a live one.
LEMMA LessInv ==
  ASSUME TypeOK, ClientInv,
         \A c \in Conns : (Live(c)' => Live(c)) /\ (conn'[c] = "open" => conn[c] = "open")
                          /\ (conn[c] = "new" => conn'[c] = "new"),
         sess' # None => sess' = sess /\ Live(sess)',
         \A c \in Conns : Live(c)' /\ ~closed' => sess' = sess /\ ~closed,
         boot' => boot /\ rec' = "none",
         rec' \in {"waiting", "dialing"} => \A c \in Conns : ~Live(c)',
         down' # "no" => closed',
         ~Engine' => \A c \in Conns : conn'[c] # "open",
         down' \in {"pool", "done"} => \A c \in Conns : ~Live(c)',
         down' = "done" => down = "done",
         UNCHANGED <<pool, snapshot>>
  PROVE  ClientInv'
<1>1. \A c, d \in Conns : Live(c)' /\ Live(d)' => c = d
  BY DEF ClientInv, LinkInv
<1>2. \A c \in Conns : Live(c)' /\ ~closed' => sess' = c
  BY DEF ClientInv, LinkInv
<1>3. sess' # None => Live(sess)'
  OBVIOUS
<1>4. boot' => rec' = "none" /\ \A c \in Conns : conn'[c] = "new"
  BY DEF ClientInv, LinkInv
<1>5. LinkInv'
  BY <1>1, <1>2, <1>3, <1>4 DEF LinkInv
<1>6. DownInv'
  BY DEF ClientInv, DownInv
<1> QED BY <1>5, <1>6 DEF ClientInv

\* What nobody but the goroutines of LifeStep and ClosePool changes.
LEMMA SameInv ==
  ASSUME ClientInv, UNCHANGED <<conn, sess, life, pool, snapshot>>
  PROVE  ClientInv'
BY DEF ClientInv, LinkInv, DownInv, Live, Engine, life

\* The session is dropped: it was live and goes on to be lost.
LEMMA DropKeeps ==
  ASSUME TypeOK, ClientInv, DropSession
  PROVE  /\ sess' = None
         /\ \A c \in Conns : /\ Live(c)' <=> Live(c)
                             /\ conn'[c] = "open" => conn[c] = "open"
                             /\ conn[c] = "new" => conn'[c] = "new"
<1>1. CASE sess = None
  BY <1>1 DEF DropSession, Live
<1>2. CASE sess # None
  <2>1. /\ sess \in Conns /\ sess' = None
        /\ conn \in [Conns -> {"new", "open", "lost", "closed"}]
        /\ conn' = [conn EXCEPT ![sess] = IF @ = "open" THEN "lost" ELSE @]
    BY <1>2 DEF TypeOK, DropSession
  <2>2. ASSUME NEW c \in Conns
        PROVE  conn'[c] = IF c = sess /\ conn[c] = "open" THEN "lost" ELSE conn[c]
    BY <2>1
  <2> QED BY <2>1, <2>2 DEF Live
<1> QED BY <1>1, <1>2

LEMMA ConnLostInv ==
  ASSUME TypeOK, ClientInv, NEW c \in Conns, ConnLost(c)
  PROVE  ClientInv'
<1>1. /\ conn' = [conn EXCEPT ![c] = "lost"] /\ conn[c] = "open"
      /\ conn \in [Conns -> {"new", "open", "lost", "closed"}]
      /\ UNCHANGED <<sess, rec, boot, closed, down, pool, snapshot>>
  BY DEF ConnLost, TypeOK, life, poolVars
<1>2. \A d \in Conns : /\ Live(d)' <=> Live(d)
                       /\ conn'[d] = "open" => conn[d] = "open"
                       /\ conn[d] = "new" => conn'[d] = "new"
  BY <1>1 DEF Live
<1>3. sess' # None => Live(sess)'
  BY <1>1, <1>2 DEF ClientInv, LinkInv, TypeOK
<1>4. ~Engine' => \A d \in Conns : conn'[d] # "open"
  BY <1>1, <1>2 DEF Engine, ClientInv, DownInv
<1>5. boot' => boot /\ rec' = "none"
  BY <1>1 DEF ClientInv, LinkInv
<1>6. rec' \in {"waiting", "dialing"} => \A d \in Conns : ~Live(d)'
  BY <1>1, <1>2 DEF ClientInv, LinkInv
<1>7. /\ down' # "no" => closed'
      /\ down' \in {"pool", "done"} => \A d \in Conns : ~Live(d)'
  BY <1>1, <1>2 DEF ClientInv, DownInv
<1> QED BY <1>1, <1>2, <1>3, <1>4, <1>5, <1>6, <1>7, LessInv

\* OnClose starts the goroutine when the only live connection has gone.
LEMMA OnCloseInv ==
  ASSUME TypeOK, ClientInv, NEW c \in Conns, OnClose(c)
  PROVE  ClientInv'
<1>1. /\ conn' = [conn EXCEPT ![c] = "closed"] /\ conn[c] = "lost"
      /\ conn \in [Conns -> {"new", "open", "lost", "closed"}]
      /\ sess' = (IF sess = c THEN None ELSE sess)
      /\ UNCHANGED <<boot, closed, down, pool, snapshot>>
  BY DEF OnClose, TypeOK, poolVars
<1>2. Live(c) /\ \A d \in Conns : d # c => ~Live(d)
  BY <1>1 DEF Live, ClientInv, LinkInv
<1>3. \A d \in Conns : /\ ~Live(d)'
                       /\ conn'[d] = "open" => conn[d] = "open"
                       /\ conn[d] = "new" => conn'[d] = "new"
  BY <1>1, <1>2 DEF Live
<1>4. sess' = None
  BY <1>1, <1>2 DEF ClientInv, LinkInv, TypeOK
<1>5. ~boot
  BY <1>1 DEF ClientInv, LinkInv
<1>6. ~Engine' => \A d \in Conns : conn'[d] # "open"
  BY <1>3 DEF Live
<1>7. down' # "no" => closed'
  BY <1>1 DEF ClientInv, DownInv
<1> QED BY <1>1, <1>3, <1>4, <1>5, <1>6, <1>7, LessInv

-----------------------------------------------------------------------------
(* The goroutines. *)

\* Steps that leave the connections alone.
LEMMA StillLinkInv ==
  ASSUME TypeOK, ClientInv,
         FirstDialFails \/ Tick \/ Leave \/ DialFails \/ Shutdown \/ EngineStopped
  PROVE  ClientInv'
<1>1. UNCHANGED <<conn, sess, pool, snapshot>>
  BY DEF FirstDialFails, Tick, Leave, DialFails, Shutdown, EngineStopped, link, poolVars
<1>2. \A c \in Conns : Live(c)' <=> Live(c)
  BY <1>1 DEF Live
<1>3. sess' # None => sess' = sess /\ Live(sess)'
  BY <1>1 DEF ClientInv, LinkInv, Live
<1>4. closed => closed'
  BY DEF FirstDialFails, Tick, Leave, DialFails, Shutdown, EngineStopped
<1>5. boot' => boot /\ rec' = "none"
  BY DEF FirstDialFails, Tick, Leave, DialFails, Shutdown, EngineStopped, ClientInv, LinkInv
<1>6. rec' \in {"waiting", "dialing"} => \A c \in Conns : ~Live(c)
  <2>1. CASE FirstDialFails
    BY <2>1 DEF FirstDialFails, ClientInv, LinkInv, Live
  <2>2. CASE Tick \/ Leave \/ DialFails \/ Shutdown \/ EngineStopped
    BY <2>2 DEF Tick, Leave, DialFails, Shutdown, EngineStopped, ClientInv, LinkInv
  <2> QED BY <2>1, <2>2
<1>7. \/ UNCHANGED <<closed, down>>
      \/ closed' /\ down' = "marked"
      \/ UNCHANGED closed /\ down = "stopping" /\ down' = "pool"
         /\ \A c \in Conns : conn[c] # "lost"
  BY DEF FirstDialFails, Tick, Leave, DialFails, Shutdown, EngineStopped
<1>8. ~Engine' => ~Engine
  BY <1>7 DEF Engine
<1>9. /\ down' # "no" => closed'
      /\ ~Engine' => \A c \in Conns : conn'[c] # "open"
      /\ down' = "done" => down = "done"
  BY <1>1, <1>7, <1>8 DEF ClientInv, DownInv
<1>10. down' \in {"pool", "done"} => \A c \in Conns : ~Live(c)
  BY <1>7 DEF ClientInv, DownInv, Live, Engine
<1> QED BY <1>1, <1>2, <1>3, <1>4, <1>5, <1>6, <1>9, <1>10, LessInv

LEMMA AfterDialInv ==
  ASSUME TypeOK, ClientInv, AfterDial
  PROVE  ClientInv'
<1>0. /\ rec = "dialed" /\ rec' = "leaving"
      /\ UNCHANGED <<boot, closed, down, pool, snapshot>>
  BY DEF AfterDial, poolVars
<1>1. CASE closed
  <2>1. DropSession
    BY <1>1 DEF AfterDial
  <2>2. ~boot' /\ (Engine' <=> Engine)
    BY <1>0 DEF ClientInv, LinkInv, Engine
  <2>3. ~Engine' => \A c \in Conns : conn'[c] # "open"
    BY <1>0, <2>1, <2>2, DropKeeps DEF ClientInv, DownInv
  <2>4. down' \in {"pool", "done"} => \A c \in Conns : ~Live(c)'
    BY <1>0, <2>1, DropKeeps DEF ClientInv, DownInv
  <2> QED BY <1>0, <1>1, <2>1, <2>2, <2>3, <2>4, DropKeeps, LessInv
<1>2. CASE ~closed
  <2>1. UNCHANGED <<conn, sess>>
    BY <1>2 DEF AfterDial, link
  <2> QED BY <1>0, <2>1 DEF ClientInv, LinkInv, DownInv, Live, Engine
<1> QED BY <1>1, <1>2

LEMMA ShutdownSessionInv ==
  ASSUME TypeOK, ClientInv, ShutdownSession
  PROVE  ClientInv'
<1>1. /\ down = "marked" /\ down' = "swapped" /\ DropSession
      /\ UNCHANGED <<rec, boot, closed, pool, snapshot>>
  BY DEF ShutdownSession, poolVars
<1>2. closed /\ Engine'
  BY <1>1 DEF ClientInv, DownInv, Engine
<1>3. boot' => boot /\ rec' = "none"
  BY <1>1 DEF ClientInv, LinkInv
<1>4. rec' \in {"waiting", "dialing"} => \A c \in Conns : ~Live(c)'
  BY <1>1, DropKeeps DEF ClientInv, LinkInv
<1> QED BY <1>1, <1>2, <1>3, <1>4, DropKeeps, LessInv

LEMMA StopEngineInv ==
  ASSUME TypeOK, ClientInv, StopEngine
  PROVE  ClientInv'
<1>1. /\ down = "swapped" /\ down' = "stopping"
      /\ conn' = [c \in Conns |-> IF conn[c] = "open" THEN "lost" ELSE conn[c]]
      /\ UNCHANGED <<sess, rec, boot, closed, pool, snapshot>>
  BY DEF StopEngine, poolVars
<1>2. \A c \in Conns : /\ Live(c)' <=> Live(c)
                       /\ conn'[c] # "open"
                       /\ conn[c] = "new" => conn'[c] = "new"
  BY <1>1 DEF Live
<1>3. sess' # None => sess' = sess /\ Live(sess)'
  BY <1>1, <1>2 DEF ClientInv, LinkInv, TypeOK
<1>4. closed
  BY <1>1 DEF ClientInv, DownInv
<1>5. boot' => boot /\ rec' = "none"
  BY <1>1 DEF ClientInv, LinkInv
<1>6. rec' \in {"waiting", "dialing"} => \A c \in Conns : ~Live(c)'
  BY <1>1, <1>2 DEF ClientInv, LinkInv
<1> QED BY <1>1, <1>2, <1>3, <1>4, <1>5, <1>6, LessInv

LEMMA LifeInv ==
  ASSUME TypeOK, ClientInv, LifeStep
  PROVE  ClientInv'
<1>1. ASSUME NEW c \in Conns, FirstDialOK(c) PROVE ClientInv'
  <2>1. \A d \in Conns : ~Live(d)
    BY <1>1 DEF FirstDialOK, ClientInv, LinkInv, Live
  <2>2. /\ Open(c) /\ ~boot' /\ boot' \in BOOLEAN /\ rec' \notin {"waiting", "dialing"}
        /\ UNCHANGED <<closed, down, pool, snapshot>>
    BY <1>1 DEF FirstDialOK, ClientInv, LinkInv, poolVars
  <2> QED BY <1>1, <2>1, <2>2, OpenInv DEF FirstDialOK
<1>2. ASSUME NEW c \in Conns, DialOK(c) PROVE ClientInv'
  <2>1. \A d \in Conns : ~Live(d)
    BY <1>2 DEF DialOK, ClientInv, LinkInv
  <2>2. boot' = FALSE
    BY <1>2 DEF DialOK, ClientInv, LinkInv, TypeOK
  <2>3. /\ Open(c) /\ rec' \notin {"waiting", "dialing"}
        /\ UNCHANGED <<closed, down, pool, snapshot>>
    BY <1>2 DEF DialOK, poolVars
  <2> QED BY <2>1, <2>2, <2>3, OpenInv
<1> QED BY <1>1, <1>2, ConnLostInv, OnCloseInv, StillLinkInv, AfterDialInv,
           ShutdownSessionInv, StopEngineInv DEF LifeStep, ReconnectGoes

\* The pool is closed by Shutdown alone.
LEMMA ClosePoolClientInv ==
  ASSUME TypeOK, ClientInv, ClosePool
  PROVE  ClientInv'
<1>1. /\ UNCHANGED <<conn, sess, rec, boot, closed>>
      /\ down = "pool" /\ down' \in {"pool", "done"}
      /\ pool' = "closed" => snapshot' = {}
      /\ down' = "done" => pool' = "closed"
  BY DEF ClosePool, CloseMark, CloseStop, CloseReject, link
<1>2. LinkInv'
  BY <1>1 DEF ClientInv, LinkInv, Live
<1>3. DownInv'
  BY <1>1 DEF ClientInv, DownInv, Live, Engine
<1> QED BY <1>2, <1>3 DEF ClientInv

-----------------------------------------------------------------------------
(* Every step, and the theorems. *)

LEMMA ClientNext == TypeOK /\ ClientInv /\ [Next]_vars => ClientInv'
<1> SUFFICES ASSUME TypeOK, ClientInv, [Next]_vars PROVE ClientInv'
  OBVIOUS
<1>1. CASE LifeStep
  BY <1>1, LifeInv
<1>2. CASE ClosePool
  BY <1>2, ClosePoolClientInv
<1>3. ASSUME NEW r \in Requests, Draw(r) PROVE ClientInv'
  BY <1>3, SameInv DEF Draw, poolVars
<1>4. ASSUME NEW r \in Requests, RequestStep(r) \/ Cancel(r) \/ Respond(r) PROVE ClientInv'
  <2>1. UNCHANGED <<conn, sess, life>>
    BY <1>4 DEF RequestStep, Cancel, Respond, Enter, Register, StartTimer, Send, SendFails,
                RejectOwn, Await, link
  <2>2. UNCHANGED <<pool, snapshot>>
    BY <1>4 DEF RequestStep, Cancel, Respond, Enter, Register, StartTimer, Send, SendFails,
                RejectOwn, Await, Insert, SetTimer, closing, poolVars
  <2> QED BY <2>1, <2>2, SameInv
<1>5. ASSUME NEW k \in Keys, PoolStep(k) PROVE ClientInv'
  <2>1. UNCHANGED <<conn, sess, life>>
    BY <1>5 DEF PoolStep, link
  <2>2. UNCHANGED <<pool, snapshot>>
    BY <1>5 DEF PoolStep, Fire, HandleTimeout, Settle, closing
  <2> QED BY <2>1, <2>2, SameInv
<1>6. CASE UNCHANGED vars
  BY <1>6, SameInv DEF vars, link, poolVars
<1> QED BY <1>1, <1>2, <1>3, <1>4, <1>5, <1>6 DEF Next, LifeStep, ShutdownStep

LEMMA ClientInvariant == Spec => [](TypeOK /\ PoolInv /\ ClientInv)
<1>1. Init => ClientInv
  BY InitClientInv
<1> QED BY <1>1, PoolInvariant, ClientNext, PTL DEF Spec

\* The client never has two connections open, an open one is its session unless
\* it is being closed, and its session is never one whose OnClose has run
\* (Client.sess against what gnet holds), whenever connections are lost, dials
\* fail and Shutdown comes.
THEOREM OneConnectionAtATime == Spec => []OneConnection
<1>1. ClientInv => OneConnection
  BY DEF ClientInv, LinkInv, OneConnection, Live
<1> QED BY <1>1, ClientInvariant, PTL

\* When Shutdown has returned there is no connection, no session, no entry in
\* the pool, and no promise but those somebody is just settling, even if the
\* reconnect goroutine was dialling and requests were being registered.
THEOREM ShutdownLeavesNothing == Spec => []ClosedClean
<1>1. TypeOK /\ PoolInv /\ ClientInv => ClosedClean
  <2> SUFFICES ASSUME TypeOK, PoolInv, ClientInv, down = "done"
               PROVE  /\ sess = None /\ \A c \in Conns : conn[c] \in {"new", "closed"}
                      /\ \A k \in Keys : pending[k] = None
                      /\ \A r \in Requests : promise[r] = "waiting" =>
                                               \E t \in taken : t.req = r
    BY DEF ClosedClean
  <2>1. \A c \in Conns : ~Live(c) /\ conn[c] \in {"new", "open", "lost", "closed"}
    BY DEF ClientInv, DownInv, TypeOK
  <2>2. sess = None
    BY <2>1 DEF ClientInv, LinkInv, TypeOK
  <2>3. pool = "closed" /\ snapshot = {}
    BY DEF ClientInv, DownInv
  <2>4. \A k \in Keys : pending[k] = None
    BY <2>3 DEF PoolInv, EntriesKeyed
  <2>5. \A r \in Requests : promise[r] = "waiting" => \E t \in taken : t.req = r
    BY <2>3, <2>4, NamesAssumption DEF PoolInv, WaitersTended
  <2> QED BY <2>1, <2>2, <2>4, <2>5 DEF Live
<1> QED BY <1>1, ClientInvariant, PTL

-----------------------------------------------------------------------------
(* What the pool promises its client. *)

\* A request that is not in the pool yet was never in it.
Early(r) == req[r].pc \in {"new", "offline", "drawn", "entered"}
FreshInv == \A r \in Requests : Early(r) => promise[r] = None

\* Nobody comes to be early.
EarlyBefore == \A r \in Requests : Early(r)' => Early(r)

LEMMA ClientNames == PoolNames
BY NamesAssumption DEF PoolNames

LEMMA CallMoves ==
  ASSUME CallTypeOK, PoolTypeOK, NEW r \in Requests, RequestStep(r) \/ Cancel(r)
  PROVE  /\ EarlyBefore
         /\ \/ Early(r) /\ ~Early(r)' /\ Insert(r, KeyOf(r)) /\ KeyOf(r) \in Keys
            \/ PoolWorks
<1>1. PICK pc \in {"entered", "inserted", "sending", "rejecting", "waiting", "done",
                   "refused", "duplicate"} :
        Goto(r, pc) /\ (pc = "entered" => At(r, "drawn"))
                    /\ (At(r, "entered") => pc \in {"inserted", "refused", "duplicate"})
  BY DEF RequestStep, Cancel, Enter, Register, StartTimer, Send, SendFails, RejectOwn, Await, At
<1>2. Keyed(r)
  BY DEF RequestStep, Cancel, Enter, Register, StartTimer, Send, SendFails, RejectOwn, Await,
         At, Keyed
<1>3. req'[r].pc = pc /\ \A q \in Requests : q # r => req'[q] = req[q]
  BY <1>1, <1>2, GotoType
<1>4. EarlyBefore
  BY <1>1, <1>3 DEF EarlyBefore, Early, At
<1>5. KeyOf(r) \in Keys
  BY <1>2, KeyType
<1>6. CASE UNCHANGED poolVars
  BY <1>4, <1>6 DEF PoolWorks
<1>7. CASE Register(r)
  <2>1. CASE Insert(r, KeyOf(r)) /\ Goto(r, "inserted")
    <3>1. req'[r].pc = "inserted" /\ Early(r)
      BY <1>2, <1>7, <2>1, GotoType DEF Register, At, Early
    <3> QED BY <1>4, <1>5, <2>1, <3>1 DEF Early
  <2> QED BY <1>6, <1>7, <2>1 DEF Register
<1>8. CASE StartTimer(r)
  BY <1>4, <1>5, <1>8 DEF StartTimer, PoolWorks
<1>9. CASE RejectOwn(r)
  <2>1. TakeOut(KeyOf(r), "failed") /\ UNCHANGED <<promise, closing>>
    BY <1>9 DEF RejectOwn
  <2>2. "failed" \in Requests \cup Errors
    BY DEF Errors
  <2> QED BY <1>4, <1>5, <2>1, <2>2 DEF PoolWorks
<1>10. Enter(r) \/ Send(r) \/ SendFails(r) \/ Await(r) \/ Cancel(r) => UNCHANGED poolVars
  BY DEF Enter, Send, SendFails, Await, Cancel
<1> QED BY <1>6, <1>7, <1>8, <1>9, <1>10 DEF RequestStep

\* What the goroutines of the client do to the pool.
LEMMA ClientMoves ==
  ASSUME TypeOK, PoolInv, [Next]_vars
  PROVE  /\ EarlyBefore
         /\ \/ \E r \in Requests, k \in Keys : Early(r) /\ ~Early(r)' /\ Insert(r, k)
            \/ PoolWorks
<1>t. CallTypeOK /\ PoolTypeOK
  BY TypeParts
<1>r. UNCHANGED req => EarlyBefore
  BY DEF EarlyBefore, Early
<1>u. UNCHANGED poolVars => PoolWorks
  BY DEF PoolWorks
<1>1. CASE LifeStep
  BY <1>1, <1>r, <1>u, LifeType
<1>2. CASE ClosePool
  BY <1>2, <1>r DEF ClosePool, PoolWorks
<1>3. ASSUME NEW r \in Requests, Draw(r) PROVE PoolWorks /\ EarlyBefore
  <2>1. Early(r) /\ UNCHANGED poolVars
    BY <1>3 DEF Draw, At, Early
  <2>2. \A q \in Requests : q # r => req'[q] = req[q]
    BY <1>3, <1>t DEF Draw, CallTypeOK
  <2> QED BY <1>u, <2>1, <2>2 DEF EarlyBefore, Early
<1>4. ASSUME NEW r \in Requests, RequestStep(r) \/ Cancel(r)
      PROVE  EarlyBefore /\ (PoolWorks \/ \E q \in Requests, k \in Keys :
                                            Early(q) /\ ~Early(q)' /\ Insert(q, k))
  BY <1>4, <1>t, CallMoves
<1>5. ASSUME NEW r \in Requests, Respond(r) PROVE PoolWorks /\ EarlyBefore
  <2>1. Keyed(r)
    BY <1>5 DEF Respond, PoolInv, IdsAlone
  <2>2. KeyOf(r) \in Keys
    BY <1>t, <2>1, KeyType
  <2>3. TakeOut(KeyOf(r), r) /\ UNCHANGED <<req, promise, closing>>
    BY <1>5 DEF Respond
  <2> QED BY <1>r, <2>2, <2>3 DEF PoolWorks
<1>6. ASSUME NEW k \in Keys, PoolStep(k) PROVE PoolWorks /\ EarlyBefore
  <2>1. UNCHANGED req /\ (Fire(k) \/ HandleTimeout(k) \/ \E t \in taken : Settle(t))
    BY <1>6 DEF PoolStep
  <2>2. CASE HandleTimeout(k)
    <3>1. TakeOut(k, "expired") /\ UNCHANGED <<promise, closing>>
      BY <2>2 DEF HandleTimeout
    <3>2. "expired" \in Requests \cup Errors
      BY DEF Errors
    <3> QED BY <1>r, <2>1, <3>1, <3>2 DEF PoolWorks
  <2> QED BY <1>r, <2>1, <2>2 DEF PoolWorks
<1>7. CASE UNCHANGED vars
  BY <1>7, <1>r, <1>u DEF vars
<1> QED BY <1>1, <1>2, <1>3, <1>4, <1>5, <1>6, <1>7 DEF Next, LifeStep, ShutdownStep

LEMMA ClientPoolStep ==
  ASSUME TypeOK, PoolInv, PlacedInv, FreshInv, [Next]_vars, TypeOK'
  PROVE  PlacedInv' /\ FreshInv' /\ [Replies!PendingNext]_(Replies!pendingReplies)
<1>t. PoolTypeOK /\ PoolTypeOK' /\ PoolNames
  BY TypeParts, ClientNames
<1>b. EarlyBefore
  BY ClientMoves
<1>1. CASE PoolWorks
  <2>1. PlacedInv' /\ [Replies!PendingNext]_(Replies!pendingReplies)
    BY <1>1, <1>t, PoolMoveShown DEF PoolMoves
  <2>2. FreshInv'
    BY <1>1, <1>t, <1>b, NobodyEnters DEF FreshInv, EarlyBefore
  <2> QED BY <2>1, <2>2
<1>2. ASSUME NEW r \in Requests, NEW k \in Keys, Early(r), ~Early(r)', Insert(r, k)
      PROVE  PlacedInv' /\ FreshInv' /\ [Replies!PendingNext]_(Replies!pendingReplies)
  <2>1. promise[r] = None
    BY <1>2 DEF FreshInv
  <2>2. PlacedInv' /\ [Replies!PendingNext]_(Replies!pendingReplies)
    BY <1>2, <1>t, <2>1, PoolMoveShown DEF PoolMoves
  <2>3. \A q \in Requests \ {r} : promise'[q] = promise[q]
    BY <1>2, <1>t, <2>1 DEF Insert, PoolTypeOK
  <2>4. FreshInv'
    BY <1>2, <1>b, <2>3 DEF FreshInv, EarlyBefore
  <2> QED BY <2>2, <2>4
<1> QED BY <1>1, <1>2, ClientMoves

\* The pool keeps its promise to the gnetx client: whoever takes the entry of a
\* request first, with the reply, the error of the write, the timeout or Close,
\* decides what Request returns, at once and for good.
THEOREM RequestsDecidedOnce == Spec => PoolImplemented
<1>1. Init => TypeOK /\ PoolInv /\ PlacedInv /\ FreshInv /\ Replies!PendingInit
  <2>1. Init => FreshInv
    BY DEF Init, PoolInit, FreshInv
  <2> QED BY <2>1, InitTypeOK, InitPoolInv, PoolStarts, ClientNames DEF Init
<1>2. TypeOK /\ PoolInv /\ PlacedInv /\ FreshInv /\ [Next]_vars
        => /\ TypeOK' /\ PoolInv' /\ PlacedInv' /\ FreshInv'
           /\ [Replies!PendingNext]_(Replies!pendingReplies)
  BY NextInv, ClientPoolStep
<1> QED BY <1>1, <1>2, PTL DEF Spec, PoolImplemented, Replies!PendingSpec
=============================================================================
