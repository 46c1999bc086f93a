------------------------------ MODULE GnetxServer ------------------------------
(***************************************************************************)
(* gnetx.Server: its sessions, the manager that finds them by session id   *)
(* and by client id, and the listener that is told of them.                *)
(*                                                                         *)
(* A thread is the event loop of a connection, named by its session, or a  *)
(* goroutine of Workers: an asynchronous handler, the idle sweeper or any  *)
(* user of the manager.  The manager's maps change under one mutex; what   *)
(* follows the unlock (the listener, closing a displaced session, hanging  *)
(* up) is an action of its own.                                            *)
(***************************************************************************)
EXTENDS Naturals, Sequences

CONSTANTS
  Sessions,   \* one per accepted connection
  Workers,
  Clients,
  NoSession,
  NoClient,
  MaxEvents   \* no message of a session is handled after so many events

ASSUME ServerAssumption == /\ MaxEvents \in Nat /\ NoSession \notin Sessions /\ NoClient \notin Clients
                           /\ Sessions \cap Workers = {}

VARIABLES
  conn,       \* every connection as gnet sees it; "lost": OnClose is to come
  bySession,  \* sessions in the map by session id
  byClient,   \* the map by client id
  client,     \* the client id of every session
  shut,       \* the closed flag of every session
  once,       \* the closeOnce of every session
  task,       \* what every thread is doing
  heard,      \* what the listener was told of every session
  srv         \* how far Shutdown is

manager == <<bySession, byClient, client, shut>>
serverVars == <<conn, manager, once, task, heard, srv>>

Threads == Sessions \cup Workers
Idle == [do |-> "idle"]

\* "then" is the session whose registration is reported after the closing.
TaskType ==
  {Idle}
  \cup [do : {"created", "registered"}, on : Sessions]
  \cup [do : {"bind"}, on : Sessions, id : Clients]
  \cup [do : {"close", "remove", "destroyed", "hangup"},
        on : Sessions, then : Sessions \cup {NoSession}]

ServerTypeOK ==
  /\ conn \in [Sessions -> {"new", "open", "lost", "closed"}]
  /\ bySession \subseteq Sessions
  /\ byClient \in [Clients -> Sessions \cup {NoSession}]
  /\ client \in [Sessions -> Clients \cup {NoClient}]
  /\ shut \in [Sessions -> BOOLEAN]
  /\ once \in [Sessions -> {"idle", "running", "done"}]
  /\ task \in [Threads -> TaskType]
  /\ heard \in [Sessions -> Seq({"created", "registered", "destroyed"})]
  /\ srv \in {"up", "stopping", "down", "late"}

ServerInit ==
  /\ conn = [s \in Sessions |-> "new"]
  /\ bySession = {} /\ byClient = [c \in Clients |-> NoSession]
  /\ client = [s \in Sessions |-> NoClient] /\ shut = [s \in Sessions |-> FALSE]
  /\ once = [s \in Sessions |-> "idle"]
  /\ task = [t \in Threads |-> Idle]
  /\ heard = [s \in Sessions |-> <<>>]
  /\ srv = "up"

Does(t, do) == task[t].do = do
Goto(t, next) == task' = [task EXCEPT ![t] = next]
Tell(s, event) == heard' = [heard EXCEPT ![s] = Append(@, event)]

\* SessionManager.All, GetBySessionID and GetByClientID.
Found == {s \in bySession : ~shut[s]}
FoundBy(c) == IF byClient[c] \in Sessions /\ ~shut[byClient[c]] THEN byClient[c] ELSE NoSession

-----------------------------------------------------------------------------
(* Connections. *)

\* OnOpen up to the unlock in add.
OnOpen(s) ==
  /\ srv = "up" /\ conn[s] = "new"
  /\ conn' = [conn EXCEPT ![s] = "open"]
  /\ bySession' = IF shut[s] THEN bySession ELSE bySession \cup {s}
  /\ Goto(s, IF shut[s] THEN Idle ELSE [do |-> "created", on |-> s])
  /\ UNCHANGED <<byClient, client, shut, once, heard, srv>>

Created(t) ==
  /\ Does(t, "created")
  /\ Tell(task[t].on, "created") /\ Goto(t, Idle)
  /\ UNCHANGED <<conn, manager, once, srv>>

\* The peer or the network ends the connection, or a frame cannot be decoded.
Lost(s) ==
  /\ conn[s] = "open"
  /\ conn' = [conn EXCEPT ![s] = "lost"]
  /\ UNCHANGED <<manager, once, task, heard, srv>>

OnClose(s) ==
  /\ conn[s] = "lost" /\ Does(s, "idle")
  /\ Goto(s, [do |-> "close", on |-> s, then |-> NoSession])
  /\ UNCHANGED <<conn, manager, once, heard, srv>>

\* A message of s asks for client id c; its handler runs in the event loop or in
\* a goroutine of its own, which may outlive the connection.
Dispatch(t, s, c) ==
  /\ conn[s] = "open" /\ ~Does(s, "created") /\ Len(heard[s]) < MaxEvents
  /\ t \in Workers \cup {s} /\ Does(t, "idle")
  /\ Goto(t, [do |-> "bind", on |-> s, id |-> c])
  /\ UNCHANGED <<conn, manager, once, heard, srv>>

\* The idle sweeper, or whoever has found s in the manager, closes it.
Sweep(t, s) ==
  /\ t \in Workers /\ Does(t, "idle") /\ s \in Found
  /\ Goto(t, [do |-> "close", on |-> s, then |-> NoSession])
  /\ UNCHANGED <<conn, manager, once, heard, srv>>

-----------------------------------------------------------------------------
(* bindClientID. *)

\* Mutant: the displaced session is closed after the unlock only.
BindMarksLater(t) ==
  LET s == task[t].on  c == task[t].id  old == byClient[c] IN
  /\ Does(t, "bind")
  /\ IF s \notin bySession \/ shut[s] THEN UNCHANGED manager /\ Goto(t, Idle)
     ELSE /\ client' = [client EXCEPT ![s] = c]
          /\ byClient' = [d \in Clients |-> IF d = c THEN s
                                            ELSE IF byClient[d] = s THEN NoSession
                                            ELSE byClient[d]]
          /\ Goto(t, IF old \in {NoSession, s} THEN [do |-> "registered", on |-> s]
                     ELSE [do |-> "close", on |-> old, then |-> s])
          /\ UNCHANGED <<bySession, shut>>
  /\ UNCHANGED <<conn, once, heard, srv>>

\* Mutant: the displaced session is marked, and nobody closes it.
BindOnlyMarks(t) ==
  LET s == task[t].on  c == task[t].id  old == byClient[c] IN
  /\ Does(t, "bind")
  /\ IF s \notin bySession \/ shut[s] THEN UNCHANGED manager /\ Goto(t, Idle)
     ELSE /\ client' = [client EXCEPT ![s] = c]
          /\ shut' = [x \in Sessions |-> shut[x] \/ x \in {old} \ {s}]
          /\ byClient' = [d \in Clients |-> IF d = c THEN s
                                            ELSE IF byClient[d] = s THEN NoSession
                                            ELSE byClient[d]]
          /\ Goto(t, [do |-> "registered", on |-> s])
          /\ UNCHANGED bySession
  /\ UNCHANGED <<conn, once, heard, srv>>

\* Mutant: nobody looks whether another session was displaced.
BindClosesNobody(t) ==
  LET s == task[t].on  c == task[t].id IN
  /\ Does(t, "bind")
  /\ IF s \notin bySession \/ shut[s] THEN UNCHANGED manager /\ Goto(t, Idle)
     ELSE /\ client' = [client EXCEPT ![s] = c]
          /\ byClient' = [byClient EXCEPT ![c] = s]
          /\ Goto(t, [do |-> "close", on |-> byClient[c], then |-> s])
          /\ UNCHANGED <<bySession, shut>>
  /\ UNCHANGED <<conn, once, heard, srv>>

\* Up to the unlock.  The displaced session is marked closed under the mutex.
Bind(t) ==
  LET s == task[t].on  c == task[t].id  old == byClient[c] IN
  /\ Does(t, "bind")
  /\ IF s \notin bySession \/ shut[s] THEN UNCHANGED manager /\ Goto(t, Idle)
     ELSE /\ client' = [client EXCEPT ![s] = c]
          /\ shut' = [x \in Sessions |-> shut[x] \/ x \in {old} \ {s}]
          /\ byClient' = [d \in Clients |->
               IF d = c THEN s
               ELSE IF d = client[s] /\ byClient[d] = s THEN NoSession ELSE byClient[d]]
          /\ Goto(t, IF old \in {NoSession, s} THEN [do |-> "registered", on |-> s]
                     ELSE [do |-> "close", on |-> old, then |-> s])
          /\ UNCHANGED bySession
  /\ UNCHANGED <<conn, once, heard, srv>>

Registered(t) ==
  /\ Does(t, "registered")
  /\ Tell(task[t].on, "registered") /\ Goto(t, Idle)
  /\ UNCHANGED <<conn, manager, once, srv>>

-----------------------------------------------------------------------------
(* session.Close and closeFromEventLoop. *)

AfterClose(t) == IF task[t].then = NoSession THEN Idle
                 ELSE [do |-> "registered", on |-> task[t].then]

\* OnClose returns to gnet; Close returns to its caller.
Return(t) ==
  /\ Goto(t, AfterClose(t))
  /\ conn' = IF t = task[t].on THEN [conn EXCEPT ![t] = "closed"] ELSE conn

\* Mutant: every caller does the closing.
EnterAlways(t) ==
  /\ Does(t, "close")
  /\ once' = [once EXCEPT ![task[t].on] = "running"]
  /\ Goto(t, [task[t] EXCEPT !.do = "remove"]) /\ UNCHANGED conn
  /\ UNCHANGED <<manager, heard, srv>>

\* Mutant: who finds the closing under way does not wait for it.
EnterNoWait(t) ==
  LET s == task[t].on IN
  /\ Does(t, "close")
  /\ IF once[s] = "idle"
     THEN /\ once' = [once EXCEPT ![s] = "running"]
          /\ Goto(t, [task[t] EXCEPT !.do = "remove"]) /\ UNCHANGED conn
     ELSE UNCHANGED once /\ Return(t)
  /\ UNCHANGED <<manager, heard, srv>>

\* closeOnce.Do: the first caller goes on, the others wait until it has done.
Enter(t) ==
  LET s == task[t].on IN
  /\ Does(t, "close") /\ once[s] # "running"
  /\ IF once[s] = "idle"
     THEN /\ once' = [once EXCEPT ![s] = "running"]
          /\ Goto(t, [task[t] EXCEPT !.do = "remove"]) /\ UNCHANGED conn
     ELSE UNCHANGED once /\ Return(t)
  /\ UNCHANGED <<manager, heard, srv>>

\* remove up to the unlock.
Remove(t) ==
  LET s == task[t].on IN
  /\ Does(t, "remove")
  /\ shut' = [shut EXCEPT ![s] = TRUE]
  /\ bySession' = bySession \ {s}
  /\ byClient' = [c \in Clients |->
                    IF c = client[s] /\ byClient[c] = s THEN NoSession ELSE byClient[c]]
  /\ Goto(t, [task[t] EXCEPT !.do = "destroyed"])
  /\ UNCHANGED <<conn, client, once, heard, srv>>

\* In the event loop of its own connection there is nothing to hang up.
Destroyed(t) ==
  LET s == task[t].on IN
  /\ Does(t, "destroyed")
  /\ Tell(s, "destroyed")
  /\ IF t = s THEN once' = [once EXCEPT ![s] = "done"] /\ Return(t)
     ELSE Goto(t, [task[t] EXCEPT !.do = "hangup"]) /\ UNCHANGED <<conn, once>>
  /\ UNCHANGED <<manager, srv>>

\* gc.Close: gnet calls OnClose later.
HangUp(t) ==
  LET s == task[t].on IN
  /\ Does(t, "hangup")
  /\ conn' = [conn EXCEPT ![s] = IF @ = "open" THEN "lost" ELSE @]
  /\ once' = [once EXCEPT ![s] = "done"]
  /\ Goto(t, AfterClose(t))
  /\ UNCHANGED <<manager, heard, srv>>

-----------------------------------------------------------------------------
(* Server.Shutdown. *)

Shutdown ==
  /\ srv = "up" /\ srv' = "stopping"
  /\ conn' = [s \in Sessions |-> IF conn[s] = "open" THEN "lost" ELSE conn[s]]
  /\ UNCHANGED <<manager, once, task, heard>>

\* eng.Stop returns when OnClose has run for every connection; Shutdown then waits
\* for the asynchronous handlers, but no longer than its context lasts.
EngineStopped ==
  /\ srv = "stopping" /\ srv' = "down"
  /\ \A s \in Sessions : conn[s] \in {"new", "closed"} /\ Does(s, "idle")
  /\ UNCHANGED <<conn, manager, once, task, heard>>

\* The context of Shutdown ends first.
ShutdownTimesOut ==
  /\ srv = "stopping" /\ srv' = "late"
  /\ UNCHANGED <<conn, manager, once, task, heard>>

ThreadStep(t) == Created(t) \/ Bind(t) \/ Registered(t)
                 \/ Enter(t) \/ Remove(t) \/ Destroyed(t) \/ HangUp(t)

ServerNext ==
  \/ \E s \in Sessions : OnOpen(s) \/ Lost(s) \/ OnClose(s)
  \/ \E t \in Threads, s \in Sessions : Sweep(t, s) \/ \E c \in Clients : Dispatch(t, s, c)
  \/ \E t \in Threads : ThreadStep(t)
  \/ Shutdown \/ EngineStopped \/ ShutdownTimesOut

ServerSpec == ServerInit /\ [][ServerNext]_serverVars

\* Event loops and goroutines go on, and gnet calls OnClose.  Nobody has to
\* connect, to send, to sweep or to shut down.
ServerFairness == /\ \A t \in Threads : WF_serverVars(ThreadStep(t))
                  /\ \A s \in Sessions : WF_serverVars(OnClose(s))

-----------------------------------------------------------------------------
(* Properties. *)

\* The manager implements the registry: whatever the interleaving of bindings,
\* closings and disconnections, a displaced session is gone in the instant the
\* new one is found, and never comes back (the comment in bindClientID).
Registry == INSTANCE SessionRegistry WITH
  live <- Found, gone <- {s \in Sessions : shut[s]}, owner <- [c \in Clients |-> FoundBy(c)]

RegistryImplemented == Registry!RegistrySpec

\* Events reach the listener after the unlock, in any order of the threads, so a
\* registration may be reported after the destruction.  When no thread is busy
\* the listener can still tell who is there: the sessions created and not
\* destroyed are those the manager finds, the owners of client ids were
\* reported as registered, and no session was destroyed twice.
Told(s, event) == \E i \in DOMAIN heard[s] : heard[s][i] = event

ListenerCatchesUp ==
  /\ \A s \in Sessions : \A i, j \in DOMAIN heard[s] :
       heard[s][i] = "destroyed" /\ heard[s][j] = "destroyed" => i = j
  /\ (\A t \in Threads : Does(t, "idle")) =>
       /\ {s \in Sessions : Told(s, "created") /\ ~Told(s, "destroyed")} = Found
       /\ \A c \in Clients : FoundBy(c) # NoSession => Told(FoundBy(c), "registered")

\* When Shutdown has returned in time no session is left in either map, and the
\* listener was told of the end of each, although the sweeper or a handler may
\* still be in the middle of closing one.
StoppedEmpty ==
  srv = "down" => /\ bySession = {} /\ \A c \in Clients : byClient[c] = NoSession
                  /\ \A s \in Sessions : conn[s] = "closed" => Told(s, "destroyed")

\* A closing that has begun is seen through by somebody.  Whoever waits for the
\* closeOnce of a session waits for exactly one thread, which waits for nobody,
\* although event loops close the sessions of each other; a session marked closed
\* is reported by a thread on its way, or was; and one that was reported is hung
\* up, or is about to be.
Inside(t, s) == task[t].do \in {"remove", "destroyed", "hangup"} /\ task[t].on = s
Ending(t, s) == task[t].do \in {"close", "remove", "destroyed"} /\ task[t].on = s

ClosingsSeenThrough ==
  \A s \in Sessions :
    /\ once[s] = "running" =>
         \E t \in Threads : Inside(t, s) /\ \A u \in Threads : Inside(u, s) => u = t
    /\ shut[s] => Told(s, "destroyed") \/ \E t \in Threads : Ending(t, s)
    /\ Told(s, "destroyed") => \/ conn[s] \in {"lost", "closed"}
                              \/ \E t \in Threads : Does(t, "hangup") /\ task[t].on = s

\* A session that was closed or displaced is hung up and its end reported, and
\* so is one whose connection was lost: nobody waits for ever in closeOnce.
ClosedForGood ==
  <>[](\A s \in Sessions :
         shut[s] \/ conn[s] \in {"lost", "closed"} => conn[s] = "closed" /\ Told(s, "destroyed"))
=============================================================================
