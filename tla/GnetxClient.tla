----------------------------- MODULE GnetxClient -----------------------------
(***************************************************************************)
(* gnetx.Client: one TCP connection at a time, dialled again when it is    *)
(* lost, with requests that wait for the reply with their transaction id   *)
(* in the ReplyPool all connections of the client share.                   *)
(*                                                                         *)
(* The callbacks of a connection (OnOpen, OnTraffic, OnClose) run one at a *)
(* time on gnet's event loop; requests, the reconnect goroutine and        *)
(* Shutdown run beside it.  A request takes its transaction id from the    *)
(* sequence of its session, as isp.Client does.                            *)
(***************************************************************************)
EXTENDS Naturals, ReplyPool

CONSTANTS
  Conns,     \* connections, one per successful dial
  Tids,      \* transaction ids: 0 .. n
  MaxFaults  \* bound of lost connections, failed dials and failed writes

ASSUME KeysAssumption   == Keys = Conns \X Tids  \* the composite ids
ASSUME BoundsAssumption == MaxFaults \in Nat /\ Tids \subseteq Nat
ASSUME NamesAssumption  == /\ None \notin Conns \cup Requests \cup {"waiting"}
                           /\ {"waiting", "closed"} \cap Requests = {}
                           /\ Errors \cap Requests = {}

VARIABLES
  conn,    \* every connection as gnet sees it; "lost": OnClose is to come
  shut,    \* the closed flag of every session
  seq,     \* the next sequence number of every session
  sess,    \* the current session of the client
  rec,     \* the reconnect goroutine; reconnecting is true while it runs
  boot,    \* whether NewClient has made its first dial
  closed,  \* the closed flag of the client
  down,    \* how far Shutdown is
  req,     \* what every request is doing
  wire,    \* requests the peer has not answered
  faults

link == <<conn, shut, seq, sess>>
life == <<rec, boot, closed, down>>
vars == <<link, life, req, wire, faults, poolVars>>

NewReq == [pc |-> "new"]
Offline == [pc |-> "offline"]
ReqType == {NewReq, Offline} \cup
           [pc : {"drawn", "entered", "inserted", "sending", "rejecting", "waiting",
                  "done", "refused", "duplicate"},
            conn : Conns, tid : Tids]

TypeOK ==
  /\ conn \in [Conns -> {"new", "open", "lost", "closed"}]
  /\ shut \in [Conns -> BOOLEAN]
  /\ seq \in [Conns -> Nat]
  /\ sess \in Conns \cup {None}
  /\ rec \in {"none", "waiting", "dialing", "dialed", "leaving"}
  /\ boot \in BOOLEAN /\ closed \in BOOLEAN
  /\ down \in {"no", "marked", "swapped", "stopping", "pool", "done"}
  /\ req \in [Requests -> ReqType]
  /\ wire \subseteq Requests
  /\ faults \in 0 .. MaxFaults
  /\ PoolTypeOK

Init ==
  /\ conn = [c \in Conns |-> "new"] /\ shut = [c \in Conns |-> FALSE]
  /\ seq = [c \in Conns |-> 0] /\ sess = None
  /\ rec = "none" /\ boot = TRUE /\ closed = FALSE /\ down = "no"
  /\ req = [r \in Requests |-> NewReq] /\ wire = {} /\ faults = 0
  /\ PoolInit

Fault == faults < MaxFaults /\ faults' = faults + 1

\* The event loop is in OnTraffic until the reply it resolves is settled.
LoopFree == \A t \in taken : t.how \in Errors
Engine == down \in {"no", "marked", "swapped"}

-----------------------------------------------------------------------------
(* The connection. *)

\* newSessionID: connections are interchangeable until they are opened.
Fresh == CHOOSE c \in Conns : conn[c] = "new"

\* OnOpen; DialContext returns after it.
Open(c) ==
  /\ Engine /\ LoopFree /\ conn[c] = "new" /\ c = Fresh
  /\ conn' = [conn EXCEPT ![c] = "open"]
  /\ sess' = c
  /\ UNCHANGED <<shut, seq>>

StartReconnect == rec' = IF rec = "none" THEN "waiting" ELSE rec

FirstDialOK(c) ==
  /\ boot /\ boot' = FALSE
  /\ Open(c)
  /\ UNCHANGED <<rec, closed, down, req, wire, faults, poolVars>>

FirstDialFails ==
  /\ boot /\ boot' = FALSE
  /\ Fault
  /\ StartReconnect
  /\ UNCHANGED <<link, closed, down, req, wire, poolVars>>

\* The peer or the network ends the connection, or a frame cannot be decoded.
ConnLost(c) ==
  /\ conn[c] = "open" /\ Fault
  /\ conn' = [conn EXCEPT ![c] = "lost"]
  /\ UNCHANGED <<shut, seq, sess, life, req, wire, poolVars>>

OnClose(c) ==
  /\ LoopFree /\ conn[c] = "lost"
  /\ conn' = [conn EXCEPT ![c] = "closed"]
  /\ shut' = [shut EXCEPT ![c] = TRUE]
  /\ sess' = IF sess = c THEN None ELSE sess
  /\ IF closed THEN UNCHANGED rec ELSE StartReconnect
  /\ UNCHANGED <<seq, boot, closed, down, req, wire, faults, poolVars>>

\* sess.Swap(nil) and Close of what was there: gnet calls OnClose later.
DropSession ==
  /\ sess' = None
  /\ IF sess = None THEN UNCHANGED <<conn, shut>>
     ELSE /\ conn' = [conn EXCEPT ![sess] = IF @ = "open" THEN "lost" ELSE @]
          /\ shut' = [shut EXCEPT ![sess] = TRUE]
  /\ UNCHANGED seq

-----------------------------------------------------------------------------
(* The goroutine of startReconnect. *)

Tick ==
  /\ rec = "waiting"
  /\ rec' = IF closed THEN "leaving" ELSE "dialing"
  /\ UNCHANGED <<link, boot, closed, down, req, wire, faults, poolVars>>

DialOK(c) ==
  /\ rec = "dialing" /\ rec' = "dialed"
  /\ Open(c)
  /\ UNCHANGED <<boot, closed, down, req, wire, faults, poolVars>>

\* After the engine has stopped no dial can succeed.
DialFails ==
  /\ rec = "dialing" /\ rec' = "waiting"
  /\ IF Engine THEN Fault ELSE UNCHANGED faults
  /\ UNCHANGED <<link, boot, closed, down, req, wire, poolVars>>

\* Mutant: the loop goes on after a successful dial.
AfterDialGoesOn ==
  /\ rec = "dialed" /\ rec' = IF closed THEN "leaving" ELSE "waiting"
  /\ IF closed THEN DropSession ELSE UNCHANGED link
  /\ UNCHANGED <<boot, closed, down, req, wire, faults, poolVars>>

AfterDial ==
  /\ rec = "dialed" /\ rec' = "leaving"
  /\ IF closed THEN DropSession ELSE UNCHANGED link
  /\ UNCHANGED <<boot, closed, down, req, wire, faults, poolVars>>

\* The deferred reconnecting.Store(false).
Leave ==
  /\ rec = "leaving" /\ rec' = "none"
  /\ UNCHANGED <<link, boot, closed, down, req, wire, faults, poolVars>>

ReconnectGoes == Tick \/ (\E c \in Conns : DialOK(c)) \/ AfterDial \/ Leave

-----------------------------------------------------------------------------
(* Shutdown. *)

Shutdown ==
  /\ ~boot /\ ~closed
  /\ closed' = TRUE /\ down' = "marked"
  /\ UNCHANGED <<link, rec, boot, req, wire, faults, poolVars>>

ShutdownSession ==
  /\ down = "marked" /\ down' = "swapped"
  /\ DropSession
  /\ UNCHANGED <<rec, boot, closed, req, wire, faults, poolVars>>

\* gcli.Stop closes what is open and returns when OnClose has run for it.
StopEngine ==
  /\ down = "swapped" /\ down' = "stopping"
  /\ conn' = [c \in Conns |-> IF conn[c] = "open" THEN "lost" ELSE conn[c]]
  /\ UNCHANGED <<shut, seq, sess, rec, boot, closed, req, wire, faults, poolVars>>

\* The handlers have ended or ShutdownTimeout has passed.
EngineStopped ==
  /\ down = "stopping" /\ down' = "pool"
  /\ LoopFree /\ \A c \in Conns : conn[c] # "lost"
  /\ UNCHANGED <<link, rec, boot, closed, req, wire, faults, poolVars>>

ClosePool ==
  /\ down = "pool"
  /\ \/ CloseMark /\ UNCHANGED down
     \/ CloseStop /\ UNCHANGED down
     \/ CloseReject /\ down' = "done"
  /\ UNCHANGED <<link, rec, boot, closed, req, wire, faults>>

ShutdownStep == ShutdownSession \/ StopEngine \/ EngineStopped \/ ClosePool

-----------------------------------------------------------------------------
(* Client.Request, from the session to the end of Await. *)

\* Mutant: replies are matched by the transaction id alone.
KeyByTid(c, tid) == <<CHOOSE first \in Conns : TRUE, tid>>

\* compositeTID
Key(c, tid) == <<c, tid>>
KeyOf(r) == Key(req[r].conn, req[r].tid)

At(r, pc) == req[r].pc = pc
Goto(r, pc) == req' = [req EXCEPT ![r].pc = pc]

Draw(r) ==
  /\ ~boot /\ At(r, "new") /\ r = CHOOSE q \in Requests : At(q, "new")
  /\ IF sess = None \/ (sess # None /\ shut[sess])
     THEN req' = [req EXCEPT ![r] = Offline] /\ UNCHANGED seq
     ELSE /\ seq[sess] \in Tids
          /\ seq' = [seq EXCEPT ![sess] = @ + 1]
          /\ req' = [req EXCEPT ![r] = [pc |-> "drawn", conn |-> sess, tid |-> seq[sess]]]
  /\ UNCHANGED <<conn, shut, sess, life, wire, faults, poolVars>>

\* session.Request looks at the closed flag of its session once.
Enter(r) ==
  /\ At(r, "drawn")
  /\ IF shut[req[r].conn] THEN Goto(r, "refused") ELSE Goto(r, "entered")
  /\ UNCHANGED <<link, life, wire, faults, poolVars>>

Register(r) ==
  /\ At(r, "entered")
  /\ IF ~Accepts THEN Goto(r, "refused") /\ UNCHANGED poolVars
     ELSE IF Duplicate(KeyOf(r)) THEN Goto(r, "duplicate") /\ UNCHANGED poolVars
     ELSE Goto(r, "inserted") /\ Insert(r, KeyOf(r))
  /\ UNCHANGED <<link, life, wire, faults>>

StartTimer(r) ==
  /\ At(r, "inserted")
  /\ IF WheelRuns THEN Goto(r, "sending") ELSE Goto(r, "refused")
  /\ SetTimer(KeyOf(r))
  /\ UNCHANGED <<link, life, wire, faults>>

\* WriteAsync; what is written to a connection that is going down is lost.
Send(r) ==
  /\ At(r, "sending") /\ ~shut[req[r].conn]
  /\ wire' = wire \cup {r}
  /\ Goto(r, "waiting")
  /\ UNCHANGED <<link, life, faults, poolVars>>

SendFails(r) ==
  /\ At(r, "sending")
  /\ IF shut[req[r].conn] THEN UNCHANGED faults ELSE Fault
  /\ Goto(r, "rejecting")
  /\ UNCHANGED <<link, life, wire, poolVars>>

\* RequestReply rejects its own entry before it returns the error.
RejectOwn(r) ==
  /\ At(r, "rejecting") /\ Goto(r, "done")
  /\ TakeOut(KeyOf(r), "failed")
  /\ UNCHANGED <<link, life, wire, faults, promise, wheel, closing>>

\* OnTraffic with the reply to r; nobody waiting under its key: dropped.
Respond(r) ==
  /\ LoopFree
  /\ r \in wire /\ conn[req[r].conn] = "open"
  /\ wire' = wire \ {r}
  /\ TakeOut(KeyOf(r), r)
  /\ UNCHANGED <<link, life, req, faults, promise, wheel, closing>>

Await(r) ==
  /\ At(r, "waiting") /\ promise[r] # "waiting"
  /\ Goto(r, "done")
  /\ UNCHANGED <<link, life, wire, faults, poolVars>>

\* The context of the caller ends; the entry stays until its timer.
Cancel(r) ==
  /\ At(r, "waiting")
  /\ Goto(r, "done")
  /\ UNCHANGED <<link, life, wire, faults, poolVars>>

RequestStep(r) == Enter(r) \/ Register(r) \/ StartTimer(r) \/ Send(r) \/ SendFails(r)
                  \/ RejectOwn(r) \/ Await(r)

PoolStep(k) ==
  /\ Fire(k) \/ HandleTimeout(k) \/ \E t \in taken : t.key = k /\ Settle(t)
  /\ UNCHANGED <<link, life, req, wire, faults>>

Next ==
  \/ \E c \in Conns : FirstDialOK(c) \/ ConnLost(c) \/ OnClose(c)
  \/ FirstDialFails \/ ReconnectGoes \/ DialFails
  \/ Shutdown \/ ShutdownStep
  \/ \E r \in Requests : Draw(r) \/ RequestStep(r) \/ Respond(r) \/ Cancel(r)
  \/ \E k \in Keys : PoolStep(k)

Spec == Init /\ [][Next]_vars

\* Goroutines and timers go on, and the peer accepts a dial some time.  Nobody
\* has to shut down, answer, cancel or lose the connection.
Fairness ==
  /\ WF_vars(\E c \in Conns : FirstDialOK(c)) /\ WF_vars(\E c \in Conns : OnClose(c))
  /\ WF_vars(ReconnectGoes) /\ WF_vars(ShutdownStep)
  /\ WF_vars(\E r \in Requests : RequestStep(r)) /\ WF_vars(\E k \in Keys : PoolStep(k))
FairSpec == Spec /\ Fairness

-----------------------------------------------------------------------------
(* Properties. *)

\* The client never has two connections open, an open connection is the
\* current session unless the client is being closed, and the current session
\* is never one whose OnClose has run (Client.sess against gnet's view).
OneConnection ==
  /\ \A c, d \in Conns : conn[c] = "open" /\ conn[d] = "open" => c = d
  /\ \A c \in Conns : conn[c] = "open" /\ ~closed => sess = c
  /\ sess # None => conn[sess] \in {"open", "lost"}

\* A request is answered by its own reply or by none, and is never refused
\* because its id is in use, although ids repeat from session to session and
\* requests of a lost connection go on waiting (compositeTID in session.Request).
OwnAnswer ==
  \A r \in Requests : /\ promise[r] \in Requests => promise[r] = r
                      /\ req[r].pc # "duplicate"

\* Whoever waits on a promise is looked after: its entry has a timer that runs
\* or has fired, or somebody has taken it out and will settle it, or Close will.
WaitersTended ==
  \A r \in Requests : promise[r] = "waiting" =>
    \/ \E k \in Keys :
         pending[k] = r /\ (k \in timers \cup fired \/ At(r, "inserted"))
    \/ \E t \in taken : t.req = r
    \/ r \in snapshot

\* Why, as an inductive invariant.  Every request that has drawn an id holds it
\* alone; an entry, waiting or taken out, lies under the id of its request, a
\* reply is only ever paired with the request it answers, a pool that is being
\* closed is empty, and one that is not has copied nothing.
Keyed(r) == req[r].pc \notin {"new", "offline"}

IdsAlone ==
  /\ \A r \in Requests : Keyed(r) => req[r].tid < seq[req[r].conn]
  /\ \A q, r \in Requests : Keyed(q) /\ Keyed(r) /\ KeyOf(q) = KeyOf(r) => q = r
  /\ \A r \in wire : Keyed(r)

EntriesKeyed ==
  /\ \A k \in Keys : pending[k] # None =>
       Keyed(pending[k]) /\ req[pending[k]].pc \notin {"drawn", "entered"} /\ KeyOf(pending[k]) = k
  /\ \A t \in taken : Keyed(t.req) /\ KeyOf(t.req) = t.key
                     /\ (t.how \in Requests => t.how = t.req)
  /\ pool # "open" => \A k \in Keys : pending[k] = None
  /\ pool = "open" => snapshot = {}

PoolInv == IdsAlone /\ EntriesKeyed /\ OwnAnswer /\ WaitersTended

\* When Shutdown has returned nothing is left: no connection, no session, no
\* entry, and no promise unsettled but the ones just being settled.
ClosedClean ==
  down = "done" => /\ sess = None /\ \A c \in Conns : conn[c] \in {"new", "closed"}
                   /\ \A k \in Keys : pending[k] = None
                   /\ \A r \in Requests : promise[r] = "waiting" =>
                                            \E t \in taken : t.req = r

\* A call of Request returns although the peer may never answer, the connection
\* may be lost and the client shut down meanwhile (the ttl of Request).
RequestsEnd == \A r \in Requests :
                 At(r, "drawn") ~> req[r].pc \in {"done", "refused", "duplicate"}

\* doc.go: a lost connection is dialled again until one succeeds.
Reconnects == ~boot /\ sess = None ~> sess # None \/ closed
=============================================================================
