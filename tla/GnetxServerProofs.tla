--------------------------- MODULE GnetxServerProofs ---------------------------
(***************************************************************************)
(* Proofs about GnetxServer, for any number of sessions, goroutines and    *)
(* client ids: type correctness, the manager implements the registry, the  *)
(* server is empty after Shutdown, the listener catches up, and every      *)
(* closing is seen through.                                                *)
(***************************************************************************)
EXTENDS GnetxServer, TLAPS

-----------------------------------------------------------------------------
(* The invariants. *)

IsClosing(t) == task[t].do \in {"close", "remove", "destroyed", "hangup"}

Gone(s) == shut[s] /\ s \notin bySession

\* The maps and the closed flags: an open session is in the map or closed, and
\* the owner of a client id is neither closed nor removed, and knows its id.
ManagerInv ==
  /\ \A s \in Sessions : conn[s] = "new" <=> s \notin bySession /\ ~shut[s]
  /\ \A c \in Clients : byClient[c] # NoSession =>
       /\ byClient[c] \in bySession /\ ~shut[byClient[c]]
       /\ client[byClient[c]] = c
  /\ \A t \in Threads : ~Does(t, "idle") => conn[task[t].on] # "new"
  /\ \A t \in Threads : IsClosing(t) /\ task[t].then # NoSession => conn[task[t].then] # "new"
  /\ \A s \in Sessions : conn[s] = "new" => Does(s, "idle")
  /\ \A t \in Threads : Does(t, "created") => task[t].on = t

\* closeOnce: one thread at a time is inside, and what it has done so far.
OnceInv ==
  /\ \A s \in Sessions, t, u \in Threads : Inside(t, s) /\ Inside(u, s) => t = u
  /\ \A s \in Sessions, t \in Threads : Inside(t, s) =>
       /\ once[s] = "running"
       /\ ~Does(t, "remove") => Gone(s)
       /\ Does(t, "hangup") <=> Told(s, "destroyed")
  /\ \A s \in Sessions : /\ once[s] = "idle" => ~Told(s, "destroyed")
                         /\ once[s] = "done" => Told(s, "destroyed")
                         /\ Told(s, "destroyed") => Gone(s)

\* Connections end by OnClose, and Shutdown has waited for all of them.
ConnInv ==
  /\ \A s \in Sessions : conn[s] = "closed" => once[s] = "done"
  /\ srv = "down" => \A s \in Sessions : conn[s] \in {"new", "closed"}

Announces(t, s) == \/ Does(t, "registered") /\ task[t].on = s
                   \/ IsClosing(t) /\ task[t].then = s

ToldOnce ==
  \A s \in Sessions : \A i, j \in DOMAIN heard[s] :
    heard[s][i] = "destroyed" /\ heard[s][j] = "destroyed" => i = j

\* Whatever the listener was not told yet, some thread is going to tell it.
TellInv ==
  /\ \A s \in Sessions : Told(s, "created") \/ Does(s, "created") <=> conn[s] # "new"
  /\ \A s \in Sessions : shut[s] => Told(s, "destroyed") \/ \E t \in Threads : Ending(t, s)
  /\ \A c \in Clients, s \in Sessions : byClient[c] = s =>
       Told(s, "registered") \/ \E t \in Threads : Announces(t, s)
  /\ ToldOnce

\* What rests on the invariant of the manager.
Rest == OnceInv /\ ConnInv /\ TellInv

-----------------------------------------------------------------------------
(* Tasks. *)

LEMMA TaskForms ==
  ASSUME ServerTypeOK, NEW t \in Threads
  PROVE  \/ task[t] = Idle
         \/ /\ task[t] \in [do : {"created", "registered"}, on : Sessions]
            /\ task[t].do \in {"created", "registered"} /\ task[t].on \in Sessions
         \/ /\ task[t] \in [do : {"bind"}, on : Sessions, id : Clients]
            /\ task[t].do = "bind" /\ task[t].on \in Sessions /\ task[t].id \in Clients
         \/ /\ task[t] \in [do : {"close", "remove", "destroyed", "hangup"},
                            on : Sessions, then : Sessions \cup {NoSession}]
            /\ task[t].do \in {"close", "remove", "destroyed", "hangup"}
            /\ task[t].on \in Sessions /\ task[t].then \in Sessions \cup {NoSession}
<1>1. task[t] \in TaskType
  BY DEF ServerTypeOK
<1> QED BY <1>1 DEF TaskType

LEMMA TaskFields ==
  ASSUME ServerTypeOK, NEW t \in Threads
  PROVE  /\ task[t].do \in {"idle", "created", "registered", "bind",
                            "close", "remove", "destroyed", "hangup"}
         /\ task[t].do # "idle" => task[t].on \in Sessions
         /\ task[t].do = "bind" => task[t].id \in Clients
         /\ task[t].do \in {"close", "remove", "destroyed", "hangup"} =>
              task[t].then \in Sessions \cup {NoSession}
<1> QED BY TaskForms DEF Idle

\* A closing goes on to its next part.
LEMMA TaskGoesOn ==
  ASSUME ServerTypeOK, NEW t \in Threads, NEW part \in {"remove", "destroyed", "hangup"},
         task[t].do \in {"close", "remove", "destroyed", "hangup"}
  PROVE  [task[t] EXCEPT !.do = part] = [do |-> part, on |-> task[t].on, then |-> task[t].then]
<1>1. task[t] \in [do : {"close", "remove", "destroyed", "hangup"},
                   on : Sessions, then : Sessions \cup {NoSession}]
  BY TaskForms DEF Idle
<1> QED BY <1>1

LEMMA GotoOnly ==
  ASSUME ServerTypeOK, NEW t \in Threads, NEW next, Goto(t, next)
  PROVE  task'[t] = next /\ \A u \in Threads : u # t => task'[u] = task[u]
<1> QED BY DEF Goto, ServerTypeOK

LEMMA GotoType ==
  ASSUME ServerTypeOK, NEW t \in Threads, NEW next \in TaskType, Goto(t, next)
  PROVE  task' \in [Threads -> TaskType]
<1> QED BY DEF Goto, ServerTypeOK

LEMMA AfterCloseType ==
  ASSUME ServerTypeOK, NEW t \in Threads,
         task[t].do \in {"close", "remove", "destroyed", "hangup"}
  PROVE  AfterClose(t) \in TaskType
<1>1. task[t].then \in Sessions \cup {NoSession}
  BY TaskFields
<1>2. CASE task[t].then = NoSession
  BY <1>2 DEF AfterClose, TaskType
<1>3. CASE task[t].then # NoSession
  <2>1. [do |-> "registered", on |-> task[t].then] \in [do : {"created", "registered"}, on : Sessions]
    BY <1>1, <1>3
  <2> QED BY <1>3, <2>1 DEF AfterClose, TaskType
<1> QED BY <1>2, <1>3

Events == {"created", "registered", "destroyed"}

LEMMA TellType ==
  ASSUME ServerTypeOK, NEW s \in Sessions, NEW event \in Events, Tell(s, event)
  PROVE  /\ heard' \in [Sessions -> Seq(Events)]
         /\ heard'[s] = Append(heard[s], event)
         /\ \A x \in Sessions : x # s => heard'[x] = heard[x]
<1>1. heard \in [Sessions -> Seq(Events)]
  BY DEF ServerTypeOK, Events
<1>2. heard[s] \in Seq(Events) /\ Append(heard[s], event) \in Seq(Events)
  BY <1>1
<1> QED BY <1>1, <1>2 DEF Tell

LEMMA AppendTells ==
  ASSUME NEW q \in Seq(Events), NEW event \in Events, NEW other
  PROVE  (\E i \in DOMAIN Append(q, event) : Append(q, event)[i] = other)
           <=> (\E i \in DOMAIN q : q[i] = other) \/ other = event
<1> DEFINE r == Append(q, event)
<1>1. /\ Len(q) \in Nat /\ DOMAIN q = 1 .. Len(q) /\ DOMAIN r = 1 .. Len(q) + 1
      /\ r[Len(q) + 1] = event /\ \A i \in 1 .. Len(q) : r[i] = q[i]
  OBVIOUS
<1> HIDE DEF r
<1> QED BY <1>1

LEMMA Tells ==
  ASSUME ServerTypeOK, NEW s \in Sessions, NEW event \in Events, Tell(s, event)
  PROVE  \A x \in Sessions, other \in Events :
           Told(x, other)' <=> Told(x, other) \/ (x = s /\ other = event)
<1> SUFFICES ASSUME NEW x \in Sessions, NEW other \in Events
             PROVE  Told(x, other)' <=> Told(x, other) \/ (x = s /\ other = event)
  OBVIOUS
<1>1. CASE x = s
  <2>1. heard[s] \in Seq(Events)
    BY DEF ServerTypeOK, Events
  <2>2. heard'[s] = Append(heard[s], event)
    BY TellType
  <2>3. Told(s, other)' <=> \E i \in DOMAIN Append(heard[s], event) :
                              Append(heard[s], event)[i] = other
    BY <2>2 DEF Told
  <2>4. Told(s, other) <=> \E i \in DOMAIN heard[s] : heard[s][i] = other
    BY DEF Told
  <2>5. (\E i \in DOMAIN Append(heard[s], event) : Append(heard[s], event)[i] = other)
          <=> (\E i \in DOMAIN heard[s] : heard[s][i] = other) \/ other = event
    BY <2>1, AppendTells, Zenon
  <2>6. Told(s, other)' <=> Told(s, other) \/ other = event
    BY <2>3, <2>4, <2>5, Zenon
  <2> QED BY <1>1, <2>6
<1>2. CASE x # s
  BY <1>2, TellType DEF Told
<1> QED BY <1>1, <1>2

-----------------------------------------------------------------------------
(* Type correctness. *)

LEMMA ServerInitType == ServerInit => ServerTypeOK
<1> SUFFICES ASSUME ServerInit PROVE ServerTypeOK
  OBVIOUS
<1>1. task \in [Threads -> TaskType]
  BY DEF ServerInit, TaskType, Idle
<1>2. heard \in [Sessions -> Seq({"created", "registered", "destroyed"})]
  <2>1. <<>> \in Seq({"created", "registered", "destroyed"})
    OBVIOUS
  <2> QED BY <2>1 DEF ServerInit
<1> QED BY <1>1, <1>2 DEF ServerInit, ServerTypeOK

LEMMA ServerStepType == ServerTypeOK /\ [ServerNext]_serverVars => ServerTypeOK'
<1> SUFFICES ASSUME ServerTypeOK, [ServerNext]_serverVars PROVE ServerTypeOK'
  OBVIOUS
<1> USE DEF Threads
<1>t. \A t \in Threads : task[t].do # "idle" => task[t].on \in Sessions
  BY TaskFields
<1>1. ASSUME NEW s \in Sessions, OnOpen(s) PROVE ServerTypeOK'
  <2>1. /\ Idle \in TaskType
        /\ [do |-> "created", on |-> s] \in [do : {"created", "registered"}, on : Sessions]
    BY DEF TaskType
  <2>2. (IF shut[s] THEN Idle ELSE [do |-> "created", on |-> s]) \in TaskType
    BY <2>1 DEF TaskType
  <2>3. task' \in [Threads -> TaskType]
    BY <1>1, <2>2, GotoType DEF OnOpen
  <2> QED BY <1>1, <2>3 DEF OnOpen, ServerTypeOK
<1>2. ASSUME NEW t \in Threads, Created(t) PROVE ServerTypeOK'
  <2>1. task[t].on \in Sessions
    BY <1>2, <1>t DEF Created, Does
  <2>2. heard' \in [Sessions -> Seq(Events)]
    BY <1>2, <2>1, TellType DEF Created, Events
  <2>3. Idle \in TaskType
    BY DEF TaskType
  <2>4. task' \in [Threads -> TaskType]
    BY <1>2, <2>3, GotoType DEF Created
  <2> QED BY <1>2, <2>2, <2>4 DEF Created, ServerTypeOK, Events, manager
<1>3. ASSUME NEW s \in Sessions, Lost(s) PROVE ServerTypeOK'
  BY <1>3 DEF Lost, ServerTypeOK, manager
<1>4. ASSUME NEW s \in Sessions, OnClose(s) PROVE ServerTypeOK'
  <2>1. [do |-> "close", on |-> s, then |-> NoSession] \in TaskType
    BY DEF TaskType
  <2>2. task' \in [Threads -> TaskType]
    BY <1>4, <2>1, GotoType DEF OnClose
  <2> QED BY <1>4, <2>2 DEF OnClose, ServerTypeOK, manager
<1>5. ASSUME NEW t \in Threads, NEW s \in Sessions, NEW c \in Clients, Dispatch(t, s, c)
      PROVE  ServerTypeOK'
  <2>1. [do |-> "bind", on |-> s, id |-> c] \in TaskType
    BY DEF TaskType
  <2>2. task' \in [Threads -> TaskType]
    BY <1>5, <2>1, GotoType DEF Dispatch
  <2> QED BY <1>5, <2>2 DEF Dispatch, ServerTypeOK, manager
<1>6. ASSUME NEW t \in Threads, NEW s \in Sessions, Sweep(t, s) PROVE ServerTypeOK'
  <2>1. [do |-> "close", on |-> s, then |-> NoSession] \in TaskType
    BY DEF TaskType
  <2>2. task' \in [Threads -> TaskType]
    BY <1>6, <2>1, GotoType DEF Sweep
  <2> QED BY <1>6, <2>2 DEF Sweep, ServerTypeOK, manager
<1>7. ASSUME NEW t \in Threads, Bind(t) PROVE ServerTypeOK'
  <2> DEFINE s == task[t].on  c == task[t].id  old == byClient[c]
  <2>1. s \in Sessions /\ c \in Clients
    BY <1>7, TaskFields DEF Bind, Does
  <2>2. old \in Sessions \cup {NoSession}
    BY <2>1 DEF ServerTypeOK
  <2>3. CASE s \notin bySession \/ shut[s]
    <3>1. Idle \in TaskType
      BY DEF TaskType
    <3>2. task' \in [Threads -> TaskType]
      BY <1>7, <2>3, <3>1, GotoType DEF Bind
    <3> QED BY <1>7, <2>3, <3>2 DEF Bind, ServerTypeOK, manager
  <2>4. CASE ~(s \notin bySession \/ shut[s])
    <3> DEFINE next == IF old \in {NoSession, s} THEN [do |-> "registered", on |-> s]
                       ELSE [do |-> "close", on |-> old, then |-> s]
    <3>1. ASSUME old \in {NoSession, s} PROVE next \in TaskType
      <4>1. [do |-> "registered", on |-> s] \in [do : {"created", "registered"}, on : Sessions]
        BY <2>1
      <4> QED BY <3>1, <4>1 DEF TaskType
    <3>2. ASSUME old \notin {NoSession, s} PROVE next \in TaskType
      <4>1. [do |-> "close", on |-> old, then |-> s]
              \in [do : {"close", "remove", "destroyed", "hangup"},
                   on : Sessions, then : Sessions \cup {NoSession}]
        BY <2>1, <2>2, <3>2
      <4> QED BY <3>2, <4>1 DEF TaskType
    <3>3. next \in TaskType
      BY <3>1, <3>2
    <3>4. Goto(t, next)
      BY <1>7, <2>4 DEF Bind
    <3>5. task' \in [Threads -> TaskType]
      BY <3>3, <3>4, GotoType
    <3>6. client' \in [Sessions -> Clients \cup {NoClient}]
      BY <1>7, <2>1, <2>4 DEF Bind, ServerTypeOK
    <3>7. shut' \in [Sessions -> BOOLEAN]
      <4>1. shut' = [x \in Sessions |-> shut[x] \/ x \in {old} \ {s}]
        BY <1>7, <2>4 DEF Bind
      <4> QED BY <4>1
    <3>8. byClient' \in [Clients -> Sessions \cup {NoSession}] /\ UNCHANGED bySession
      <4>1. byClient' = [d \in Clients |->
               IF d = c THEN s
               ELSE IF d = client[s] /\ byClient[d] = s THEN NoSession ELSE byClient[d]]
            /\ UNCHANGED bySession
        BY <1>7, <2>4 DEF Bind
      <4> QED BY <4>1, <2>1 DEF ServerTypeOK
    <3> QED BY <1>7, <3>5, <3>6, <3>7, <3>8 DEF Bind, ServerTypeOK
  <2> QED BY <2>3, <2>4
<1>8. ASSUME NEW t \in Threads, Registered(t) PROVE ServerTypeOK'
  <2>1. task[t].on \in Sessions
    BY <1>8, <1>t DEF Registered, Does
  <2>2. heard' \in [Sessions -> Seq(Events)]
    BY <1>8, <2>1, TellType DEF Registered, Events
  <2>3. Idle \in TaskType
    BY DEF TaskType
  <2>4. task' \in [Threads -> TaskType]
    BY <1>8, <2>3, GotoType DEF Registered
  <2> QED BY <1>8, <2>2, <2>4 DEF Registered, ServerTypeOK, Events, manager
<1>r. ASSUME NEW t \in Threads, Return(t),
             task[t].do \in {"close", "remove", "destroyed", "hangup"}
      PROVE  task' \in [Threads -> TaskType]
             /\ conn' \in [Sessions -> {"new", "open", "lost", "closed"}]
  <2>1. task' \in [Threads -> TaskType]
    BY <1>r, AfterCloseType, GotoType DEF Return
  <2>2. task[t].on \in Sessions
    BY <1>r, <1>t
  <2> QED BY <1>r, <2>1, <2>2 DEF Return, ServerTypeOK
<1>g. ASSUME NEW t \in Threads, NEW part \in {"remove", "destroyed", "hangup"},
             task[t].do \in {"close", "remove", "destroyed", "hangup"},
             Goto(t, [task[t] EXCEPT !.do = part])
      PROVE  task' \in [Threads -> TaskType]
  <2>1. task[t].on \in Sessions /\ task[t].then \in Sessions \cup {NoSession}
    BY <1>g, TaskFields
  <2>2. [do |-> part, on |-> task[t].on, then |-> task[t].then]
          \in [do : {"close", "remove", "destroyed", "hangup"},
               on : Sessions, then : Sessions \cup {NoSession}]
    BY <2>1
  <2>3. [task[t] EXCEPT !.do = part] \in TaskType
    BY <1>g, <2>2, TaskGoesOn DEF TaskType
  <2> QED BY <1>g, <2>3, GotoType
<1>9. ASSUME NEW t \in Threads, Enter(t) PROVE ServerTypeOK'
  <2>1. task' \in [Threads -> TaskType] /\ conn' \in [Sessions -> {"new", "open", "lost", "closed"}]
    <3>1. CASE once[task[t].on] = "idle"
      BY <1>9, <3>1, <1>g DEF Enter, Does, ServerTypeOK
    <3>2. CASE once[task[t].on] # "idle"
      BY <1>9, <3>2, <1>r DEF Enter, Does
    <3> QED BY <3>1, <3>2
  <2>2. once' \in [Sessions -> {"idle", "running", "done"}]
    BY <1>9 DEF Enter, ServerTypeOK
  <2> QED BY <1>9, <2>1, <2>2 DEF Enter, ServerTypeOK, manager
<1>10. ASSUME NEW t \in Threads, Remove(t) PROVE ServerTypeOK'
  <2>1. task' \in [Threads -> TaskType]
    BY <1>10, <1>g DEF Remove, Does
  <2> QED BY <1>10, <2>1 DEF Remove, ServerTypeOK
<1>11. ASSUME NEW t \in Threads, Destroyed(t) PROVE ServerTypeOK'
  <2>1. task[t].on \in Sessions
    BY <1>11, <1>t DEF Destroyed, Does
  <2>2. heard' \in [Sessions -> Seq(Events)]
    BY <1>11, <2>1, TellType DEF Destroyed, Events
  <2>3. task' \in [Threads -> TaskType] /\ conn' \in [Sessions -> {"new", "open", "lost", "closed"}]
    <3>1. CASE t = task[t].on
      BY <1>11, <3>1, <1>r DEF Destroyed, Does
    <3>2. CASE t # task[t].on
      BY <1>11, <3>2, <1>g DEF Destroyed, Does, ServerTypeOK
    <3> QED BY <3>1, <3>2
  <2>4. once' \in [Sessions -> {"idle", "running", "done"}]
    BY <1>11 DEF Destroyed, ServerTypeOK
  <2> QED BY <1>11, <2>2, <2>3, <2>4 DEF Destroyed, ServerTypeOK, Events, manager
<1>12. ASSUME NEW t \in Threads, HangUp(t) PROVE ServerTypeOK'
  <2>1. task' \in [Threads -> TaskType]
    BY <1>12, AfterCloseType, GotoType DEF HangUp, Does
  <2>2. conn' \in [Sessions -> {"new", "open", "lost", "closed"}]
        /\ once' \in [Sessions -> {"idle", "running", "done"}]
    BY <1>12 DEF HangUp, ServerTypeOK
  <2> QED BY <1>12, <2>1, <2>2 DEF HangUp, ServerTypeOK, manager
<1>13. CASE Shutdown \/ EngineStopped \/ ShutdownTimesOut
  BY <1>13 DEF Shutdown, EngineStopped, ShutdownTimesOut, ServerTypeOK, manager
<1>14. CASE UNCHANGED serverVars
  BY <1>14 DEF serverVars, ServerTypeOK, manager
<1> QED BY <1>1, <1>2, <1>3, <1>4, <1>5, <1>6, <1>7, <1>8, <1>9, <1>10, <1>11, <1>12, <1>13, <1>14
        DEF ServerNext, ThreadStep

\* Type correctness of the server, its manager and all its threads.
THEOREM ServerTypeCorrect == ServerSpec => []ServerTypeOK
<1> QED BY ServerInitType, ServerStepType, PTL DEF ServerSpec

-----------------------------------------------------------------------------
(* The manager. *)

\* What a step does that leaves the manager alone: connections stay new or not,
\* and the one thread that moves works on a session that is not new.
Bystander(t) ==
  /\ UNCHANGED manager
  /\ \A s \in Sessions : conn'[s] = "new" <=> conn[s] = "new"
  /\ \A u \in Threads : u # t => task'[u] = task[u]
  /\ task'[t].do # "idle" => conn[task'[t].on] # "new" /\ task'[t].on \in Sessions
  /\ IsClosing(t)' => \/ task'[t].then = NoSession
                      \/ task'[t].then \in Sessions /\ conn[task'[t].then] # "new"
  /\ task'[t].do # "created"
  /\ t \in Sessions => conn[t] # "new"

LEMMA BystanderKeeps ==
  ASSUME ServerTypeOK, ManagerInv, NEW t \in Threads, Bystander(t)
  PROVE  ManagerInv'
<1> USE DEF Bystander, manager
<1>1. \A s \in Sessions : conn'[s] = "new" <=> s \notin bySession' /\ ~shut'[s]
  BY DEF ManagerInv
<1>2. \A c \in Clients : byClient'[c] # NoSession =>
        /\ byClient'[c] \in bySession' /\ ~shut'[byClient'[c]]
        /\ client'[byClient'[c]] = c
  BY DEF ManagerInv
<1>3. \A u \in Threads : task'[u].do # "idle" => conn'[task'[u].on] # "new"
  <2> TAKE u \in Threads
  <2>1. CASE u = t
    BY <2>1
  <2>2. CASE u # t
    BY <2>2, TaskFields DEF ManagerInv, Does
  <2> QED BY <2>1, <2>2
<1>6. \A u \in Threads : IsClosing(u)' /\ task'[u].then # NoSession => conn'[task'[u].then] # "new"
  <2> TAKE u \in Threads
  <2>1. CASE u = t
    BY <2>1
  <2>2. CASE u # t
    BY <2>2, TaskFields DEF ManagerInv, IsClosing
  <2> QED BY <2>1, <2>2
<1>4. \A s \in Sessions : conn'[s] = "new" => task'[s].do = "idle"
  BY DEF ManagerInv, Does, Threads
<1>5. \A u \in Threads : task'[u].do = "created" => task'[u].on = u
  BY DEF ManagerInv, Does
<1> QED BY <1>1, <1>2, <1>3, <1>4, <1>5, <1>6 DEF ManagerInv, Does

LEMMA BusyThread ==
  ASSUME ServerTypeOK, ManagerInv, NEW t \in Threads, task[t].do # "idle"
  PROVE  /\ task[t].on \in Sessions /\ conn[task[t].on] # "new"
         /\ t \in Sessions => conn[t] # "new"
         /\ IsClosing(t) => \/ task[t].then = NoSession
                            \/ task[t].then \in Sessions /\ conn[task[t].then] # "new"
<1> QED BY TaskFields DEF ManagerInv, Does, IsClosing

LEMMA AfterCloseOn ==
  ASSUME ServerTypeOK, NEW t \in Threads,
         task[t].do \in {"close", "remove", "destroyed", "hangup"}
  PROVE  \/ task[t].then = NoSession /\ AfterClose(t) = Idle
         \/ /\ task[t].then \in Sessions /\ task[t].then # NoSession
            /\ AfterClose(t) = [do |-> "registered", on |-> task[t].then]
<1> QED BY TaskFields DEF AfterClose

\* A closing that returns, or goes on to its next part, is a bystander.
LEMMA ReturnBystander ==
  ASSUME ServerTypeOK, ManagerInv, NEW t \in Threads, IsClosing(t), UNCHANGED manager,
         Goto(t, AfterClose(t)), \A s \in Sessions : conn'[s] = "new" <=> conn[s] = "new"
  PROVE  Bystander(t)
<1>1. task'[t] = AfterClose(t) /\ \A u \in Threads : u # t => task'[u] = task[u]
  BY GotoOnly
<1>2. task[t].do # "idle"
  BY DEF IsClosing
<1>3. \/ task'[t] = Idle
      \/ /\ task'[t] = [do |-> "registered", on |-> task[t].then]
         /\ task[t].then \in Sessions /\ task[t].then # NoSession
  BY <1>1, AfterCloseOn DEF IsClosing
<1>4. /\ t \in Sessions => conn[t] # "new"
      /\ \/ task[t].then = NoSession
         \/ task[t].then \in Sessions /\ conn[task[t].then] # "new"
  BY <1>2, BusyThread
<1>5. \/ task'[t].do = "idle"
      \/ /\ task'[t].do = "registered" /\ task'[t].on = task[t].then
         /\ task[t].then \in Sessions /\ task[t].then # NoSession
  BY <1>3 DEF Idle
<1> QED BY <1>1, <1>4, <1>5 DEF Bystander, IsClosing

LEMMA PartBystander ==
  ASSUME ServerTypeOK, ManagerInv, NEW t \in Threads, NEW part \in {"remove", "destroyed", "hangup"},
         IsClosing(t), UNCHANGED <<manager, conn>>, Goto(t, [task[t] EXCEPT !.do = part])
  PROVE  Bystander(t)
<1>1. /\ task'[t] = [do |-> part, on |-> task[t].on, then |-> task[t].then]
      /\ \A u \in Threads : u # t => task'[u] = task[u]
  <2>1. /\ task'[t] = [task[t] EXCEPT !.do = part]
        /\ \A u \in Threads : u # t => task'[u] = task[u]
    BY GotoOnly
  <2>2. [task[t] EXCEPT !.do = part] = [do |-> part, on |-> task[t].on, then |-> task[t].then]
    BY TaskGoesOn DEF IsClosing
  <2> QED BY <2>1, <2>2
<1>2. task[t].do # "idle"
  BY DEF IsClosing
<1>3. task'[t].do = part /\ task'[t].on = task[t].on /\ task'[t].then = task[t].then
  BY <1>1
<1>4. conn' = conn /\ UNCHANGED manager
  OBVIOUS
<1>5. /\ task[t].on \in Sessions /\ conn[task[t].on] # "new" /\ (t \in Sessions => conn[t] # "new")
      /\ \/ task[t].then = NoSession
         \/ task[t].then \in Sessions /\ conn[task[t].then] # "new"
  BY <1>2, BusyThread
<1> QED BY <1>1, <1>3, <1>4, <1>5 DEF Bystander

\* Every step that is not about the manager.
LEMMA BystanderSteps ==
  ASSUME ServerTypeOK, ManagerInv, NEW t \in Threads,
         \/ Created(t) \/ Registered(t) \/ Enter(t) \/ Destroyed(t) \/ HangUp(t)
         \/ t \in Sessions /\ OnClose(t)
         \/ \E s \in Sessions : Sweep(t, s) \/ \E c \in Clients : Dispatch(t, s, c)
         \/ Bind(t) /\ (task[t].on \notin bySession \/ shut[task[t].on])
  PROVE  Bystander(t)
<1>i. ASSUME task[t].do # "idle", Goto(t, Idle), UNCHANGED <<manager, conn>> PROVE Bystander(t)
  <2>1. task'[t] = Idle /\ \A u \in Threads : u # t => task'[u] = task[u]
    BY <1>i, GotoOnly
  <2> QED BY <1>i, <2>1, BusyThread DEF Bystander, Idle, IsClosing
<1>c. ASSUME Return(t), IsClosing(t) PROVE \A s \in Sessions : conn'[s] = "new" <=> conn[s] = "new"
  <2>1. task[t].on \in Sessions /\ conn[task[t].on] # "new"
    BY <1>c, BusyThread DEF IsClosing
  <2> QED BY <1>c, <2>1 DEF Return, ServerTypeOK
<1>1. CASE Created(t) \/ Registered(t)
  BY <1>1, <1>i DEF Created, Registered, Does
<1>2. CASE Enter(t)
  <2>1. IsClosing(t)
    BY <1>2 DEF Enter, Does, IsClosing
  <2>2. CASE once[task[t].on] = "idle"
    BY <1>2, <2>1, <2>2, PartBystander DEF Enter
  <2>3. CASE once[task[t].on] # "idle"
    <3>1. Return(t) /\ UNCHANGED manager
      BY <1>2, <2>3 DEF Enter
    <3> QED BY <2>1, <3>1, <1>c, ReturnBystander DEF Return
  <2> QED BY <2>2, <2>3
<1>3. CASE Destroyed(t)
  <2>1. IsClosing(t)
    BY <1>3 DEF Destroyed, Does, IsClosing
  <2>2. CASE t = task[t].on
    <3>1. Return(t) /\ UNCHANGED manager
      BY <1>3, <2>2 DEF Destroyed
    <3> QED BY <2>1, <3>1, <1>c, ReturnBystander DEF Return
  <2>3. CASE t # task[t].on
    BY <1>3, <2>1, <2>3, PartBystander DEF Destroyed
  <2> QED BY <2>2, <2>3
<1>4. CASE HangUp(t)
  <2>1. IsClosing(t)
    BY <1>4 DEF HangUp, Does, IsClosing
  <2>2. \A s \in Sessions : conn'[s] = "new" <=> conn[s] = "new"
    BY <1>4 DEF HangUp, ServerTypeOK
  <2> QED BY <1>4, <2>1, <2>2, ReturnBystander DEF HangUp
<1>5. CASE t \in Sessions /\ OnClose(t)
  <2>1. /\ task'[t] = [do |-> "close", on |-> t, then |-> NoSession]
        /\ \A u \in Threads : u # t => task'[u] = task[u]
    BY <1>5, GotoOnly DEF OnClose
  <2>2. task'[t].do = "close" /\ task'[t].on = t /\ task'[t].then = NoSession
    BY <2>1
  <2>3. conn[t] # "new" /\ conn' = conn /\ UNCHANGED manager
    BY <1>5 DEF OnClose
  <2> QED BY <1>5, <2>1, <2>2, <2>3 DEF Bystander
<1>6. ASSUME NEW s \in Sessions, Sweep(t, s) PROVE Bystander(t)
  <2>1. /\ task'[t] = [do |-> "close", on |-> s, then |-> NoSession]
        /\ \A u \in Threads : u # t => task'[u] = task[u]
    BY <1>6, GotoOnly DEF Sweep
  <2>2. conn[s] # "new" /\ t \notin Sessions
    BY <1>6, ServerAssumption DEF Sweep, Found, ManagerInv
  <2>3. task'[t].do = "close" /\ task'[t].on = s /\ task'[t].then = NoSession
    BY <2>1
  <2>4. conn' = conn /\ UNCHANGED manager
    BY <1>6 DEF Sweep
  <2> QED BY <2>1, <2>2, <2>3, <2>4 DEF Bystander
<1>7. ASSUME NEW s \in Sessions, NEW c \in Clients, Dispatch(t, s, c) PROVE Bystander(t)
  <2>1. /\ task'[t] = [do |-> "bind", on |-> s, id |-> c]
        /\ \A u \in Threads : u # t => task'[u] = task[u]
    BY <1>7, GotoOnly DEF Dispatch
  <2>2. conn[s] = "open" /\ (t \in Sessions => t = s)
    BY <1>7, ServerAssumption DEF Dispatch
  <2> QED BY <1>7, <2>1, <2>2 DEF Dispatch, Bystander, IsClosing
<1>8. CASE Bind(t) /\ (task[t].on \notin bySession \/ shut[task[t].on])
  BY <1>8, <1>i DEF Bind, Does
<1> QED BY <1>1, <1>2, <1>3, <1>4, <1>5, <1>6, <1>7, <1>8

\* What Bind does when the session may bind.
Binds(t, s, c) ==
  /\ s \in bySession /\ ~shut[s]
  /\ client' = [client EXCEPT ![s] = c]
  /\ shut' = [x \in Sessions |-> shut[x] \/ x \in {byClient[c]} \ {s}]
  /\ byClient' = [d \in Clients |-> IF d = c THEN s
                                    ELSE IF byClient[d] = s THEN NoSession ELSE byClient[d]]
  /\ \A u \in Threads : u # t => task'[u] = task[u]
  /\ \/ /\ byClient[c] \in {NoSession, s}
        /\ task'[t] = [do |-> "registered", on |-> s]
     \/ /\ byClient[c] \in Sessions /\ byClient[c] \notin {NoSession, s}
        /\ task'[t] = [do |-> "close", on |-> byClient[c], then |-> s]
  /\ UNCHANGED <<bySession, conn, once, heard, srv>>

LEMMA BindBinds ==
  ASSUME ServerTypeOK, ManagerInv, NEW t \in Threads, Bind(t),
         task[t].on \in bySession, ~shut[task[t].on]
  PROVE  task[t].on \in Sessions /\ task[t].id \in Clients /\ Binds(t, task[t].on, task[t].id)
<1> DEFINE s == task[t].on  c == task[t].id  old == byClient[c]
<1>1. s \in Sessions /\ c \in Clients
  BY TaskFields DEF Bind, Does
<1>2. old \in Sessions \cup {NoSession}
  BY <1>1 DEF ServerTypeOK
<1>3. byClient' = [d \in Clients |->
        IF d = c THEN s
        ELSE IF d = client[s] /\ byClient[d] = s THEN NoSession ELSE byClient[d]]
  BY DEF Bind
<1>4. \A d \in Clients : byClient[d] = s => client[s] = d
  BY <1>1, ServerAssumption DEF ManagerInv
<1>5. byClient' = [d \in Clients |-> IF d = c THEN s
                                    ELSE IF byClient[d] = s THEN NoSession ELSE byClient[d]]
  BY <1>3, <1>4
<1>6. Goto(t, IF old \in {NoSession, s} THEN [do |-> "registered", on |-> s]
              ELSE [do |-> "close", on |-> old, then |-> s])
  BY DEF Bind
<1>7. /\ task'[t] = IF old \in {NoSession, s} THEN [do |-> "registered", on |-> s]
                    ELSE [do |-> "close", on |-> old, then |-> s]
      /\ \A u \in Threads : u # t => task'[u] = task[u]
  BY <1>6, GotoOnly
<1>8. /\ client' = [client EXCEPT ![s] = c]
      /\ shut' = [x \in Sessions |-> shut[x] \/ x \in {old} \ {s}]
      /\ UNCHANGED <<bySession, conn, once, heard, srv>>
  BY DEF Bind
<1> HIDE DEF s, c, old
<1>9. \/ old \in {NoSession, s} /\ task'[t] = [do |-> "registered", on |-> s]
      \/ /\ old \in Sessions /\ old \notin {NoSession, s}
         /\ task'[t] = [do |-> "close", on |-> old, then |-> s]
  BY <1>2, <1>7
<1> QED BY <1>1, <1>5, <1>7, <1>8, <1>9 DEF Binds, s, c, old

LEMMA BindKeeps ==
  ASSUME ServerTypeOK, ManagerInv, NEW t \in Threads, NEW s \in Sessions, NEW c \in Clients,
         task[t].do # "idle", Binds(t, s, c)
  PROVE  ManagerInv'
<1> DEFINE old == byClient[c]
<1>1. /\ \A x \in Sessions : shut'[x] <=> shut[x] \/ (x = old /\ x # s)
      /\ \A d \in Clients : byClient'[d] = IF d = c THEN s
                                           ELSE IF byClient[d] = s THEN NoSession ELSE byClient[d]
      /\ \A x \in Sessions : client'[x] = IF x = s THEN c ELSE client[x]
      /\ bySession' = bySession /\ conn' = conn /\ s \in bySession /\ ~shut[s]
  BY DEF Binds, ServerTypeOK
<1>2. old \in Sessions => conn[old] # "new"
  BY ServerAssumption DEF ManagerInv
<1>3. conn[s] # "new"
  BY <1>1 DEF ManagerInv
<1>4. \A x \in Sessions : conn'[x] = "new" <=> x \notin bySession' /\ ~shut'[x]
  BY <1>1, <1>2 DEF ManagerInv
<1>5. \A d \in Clients : byClient[d] \in Sessions \cup {NoSession}
  BY DEF ServerTypeOK
<1>6. ASSUME NEW d \in Clients, byClient'[d] # NoSession
      PROVE  /\ byClient'[d] \in bySession' /\ ~shut'[byClient'[d]]
             /\ client'[byClient'[d]] = d
  <2>1. CASE d = c
    BY <1>1, <2>1
  <2>2. CASE d # c
    <3>1. byClient'[d] = byClient[d] /\ byClient[d] # s
      BY <1>1, <1>6, <2>2
    <3>2. byClient[d] \in bySession /\ ~shut[byClient[d]] /\ client[byClient[d]] = d
      BY <1>6, <3>1 DEF ManagerInv
    <3>3. byClient[d] # old
      BY <1>6, <2>2, <3>1, <3>2 DEF ManagerInv
    <3> QED BY <1>1, <1>5, <1>6, <3>1, <3>2, <3>3
  <2> QED BY <2>1, <2>2
<1>7. /\ \A u \in Threads : u # t => task'[u] = task[u]
      /\ \/ task'[t].do = "registered" /\ task'[t].on = s
         \/ /\ task'[t].do = "close" /\ task'[t].on = old /\ task'[t].then = s
            /\ old \in Sessions
  <2>1. \/ task'[t] = [do |-> "registered", on |-> s]
        \/ task'[t] = [do |-> "close", on |-> old, then |-> s] /\ old \in Sessions
    BY DEF Binds
  <2> QED BY <2>1 DEF Binds
<1>8. \A u \in Threads : task'[u].do # "idle" => conn[task'[u].on] # "new"
  BY <1>2, <1>3, <1>7 DEF ManagerInv, Does
<1>9. \A u \in Threads : IsClosing(u)' /\ task'[u].then # NoSession => conn[task'[u].then] # "new"
  BY <1>3, <1>7 DEF ManagerInv, IsClosing
<1>10. \A x \in Sessions : conn[x] = "new" => x # t /\ task'[x].do = "idle"
  BY <1>7, BusyThread DEF ManagerInv, Does, Threads
<1>11. \A u \in Threads : task'[u].do = "created" => task'[u].on = u
  BY <1>7 DEF ManagerInv, Does
<1> QED BY <1>1, <1>4, <1>6, <1>8, <1>9, <1>10, <1>11 DEF ManagerInv, Does

LEMMA RemoveKeeps ==
  ASSUME ServerTypeOK, ManagerInv, NEW t \in Threads, Remove(t)
  PROVE  ManagerInv'
<1> DEFINE s == task[t].on
<1>1. /\ s \in Sessions /\ conn[s] # "new" /\ conn' = conn
      /\ t \in Sessions => conn[t] # "new"
      /\ task[t].then = NoSession \/ conn[task[t].then] # "new"
  <2>1. task[t].do # "idle" /\ IsClosing(t) /\ conn' = conn
    BY DEF Remove, Does, IsClosing
  <2> QED BY <2>1, BusyThread
<1>2. /\ \A x \in Sessions : shut'[x] <=> shut[x] \/ x = s
      /\ bySession' = bySession \ {s} /\ client' = client
      /\ \A c \in Clients : byClient'[c] = IF c = client[s] /\ byClient[c] = s
                                           THEN NoSession ELSE byClient[c]
  BY <1>1 DEF Remove, ServerTypeOK
<1>3. \A x \in Sessions : conn'[x] = "new" <=> x \notin bySession' /\ ~shut'[x]
  BY <1>1, <1>2 DEF ManagerInv
<1>4. \A c \in Clients : byClient'[c] # NoSession =>
        /\ byClient'[c] \in bySession' /\ ~shut'[byClient'[c]]
        /\ client'[byClient'[c]] = c
  BY <1>1, <1>2 DEF ManagerInv, ServerTypeOK
<1>5. /\ task'[t].do = "destroyed" /\ task'[t].on = s /\ task'[t].then = task[t].then
      /\ \A u \in Threads : u # t => task'[u] = task[u]
  <2>1. /\ task'[t] = [do |-> "destroyed", on |-> s, then |-> task[t].then]
        /\ \A u \in Threads : u # t => task'[u] = task[u]
    BY GotoOnly, TaskGoesOn DEF Remove, Does
  <2> QED BY <2>1
<1>6. \A u \in Threads : task'[u].do # "idle" => conn[task'[u].on] # "new"
  BY <1>1, <1>5 DEF ManagerInv, Does
<1>7. \A u \in Threads : IsClosing(u)' /\ task'[u].then # NoSession => conn[task'[u].then] # "new"
  BY <1>1, <1>5 DEF ManagerInv, IsClosing
<1>8. \A x \in Sessions : conn[x] = "new" => task'[x].do = "idle"
  BY <1>1, <1>5 DEF ManagerInv, Does, Threads
<1>9. \A u \in Threads : task'[u].do = "created" => task'[u].on = u
  BY <1>5 DEF ManagerInv, Does
<1> QED BY <1>1, <1>3, <1>4, <1>6, <1>7, <1>8, <1>9 DEF ManagerInv, Does

LEMMA OpenKeeps ==
  ASSUME ServerTypeOK, ManagerInv, NEW s \in Sessions, OnOpen(s)
  PROVE  /\ ManagerInv'
         /\ ~shut[s] /\ s \notin bySession /\ conn[s] = "new" /\ task[s].do = "idle"
         /\ task'[s] = [do |-> "created", on |-> s]
         /\ \A u \in Threads : u # s => task'[u] = task[u]
         /\ bySession' = bySession \cup {s}
         /\ \A x \in Sessions : conn'[x] = IF x = s THEN "open" ELSE conn[x]
<1>1. ~shut[s] /\ s \notin bySession /\ conn[s] = "new" /\ task[s].do = "idle"
  BY DEF OnOpen, ManagerInv, Does
<1>2. /\ bySession' = bySession \cup {s} /\ UNCHANGED <<byClient, client, shut>>
      /\ \A x \in Sessions : conn'[x] = IF x = s THEN "open" ELSE conn[x]
      /\ Goto(s, [do |-> "created", on |-> s])
  BY <1>1 DEF OnOpen, ServerTypeOK
<1>3. /\ task'[s] = [do |-> "created", on |-> s]
      /\ \A u \in Threads : u # s => task'[u] = task[u]
  BY <1>2, GotoOnly DEF Threads
<1>4. \A u \in Threads : task'[u].do # "idle" => conn'[task'[u].on] # "new"
  BY <1>2, <1>3, TaskFields DEF ManagerInv, Does
<1>5. \A u \in Threads : IsClosing(u)' /\ task'[u].then # NoSession => conn'[task'[u].then] # "new"
  BY <1>2, <1>3, TaskFields DEF ManagerInv, IsClosing
<1>6. \A x \in Sessions : conn'[x] = "new" => task'[x].do = "idle"
  BY <1>2, <1>3 DEF ManagerInv, Does, Threads
<1>7. \A u \in Threads : task'[u].do = "created" => task'[u].on = u
  BY <1>3 DEF ManagerInv, Does
<1>8. \A x \in Sessions : conn'[x] = "new" <=> x \notin bySession' /\ ~shut'[x]
  BY <1>2 DEF ManagerInv
<1>9. \A c \in Clients : byClient'[c] # NoSession =>
        /\ byClient'[c] \in bySession' /\ ~shut'[byClient'[c]]
        /\ client'[byClient'[c]] = c
  BY <1>2 DEF ManagerInv
<1> QED BY <1>1, <1>2, <1>3, <1>4, <1>5, <1>6, <1>7, <1>8, <1>9 DEF ManagerInv, Does

\* Steps of the network and of Shutdown: no thread moves.
NobodyMoves ==
  /\ UNCHANGED <<manager, task, once, heard>>
  /\ \A s \in Sessions : \/ conn'[s] = conn[s]
                         \/ conn[s] = "open" /\ conn'[s] = "lost"

LEMMA NobodySteps ==
  ASSUME ServerTypeOK,
         \/ \E s \in Sessions : Lost(s)
         \/ Shutdown \/ EngineStopped \/ ShutdownTimesOut \/ UNCHANGED serverVars
  PROVE  NobodyMoves
<1>1. CASE \E s \in Sessions : Lost(s)
  BY <1>1 DEF Lost, NobodyMoves, ServerTypeOK
<1>2. CASE Shutdown \/ EngineStopped \/ ShutdownTimesOut \/ UNCHANGED serverVars
  BY <1>2 DEF Shutdown, EngineStopped, ShutdownTimesOut, serverVars, NobodyMoves, ServerTypeOK
<1> QED BY <1>1, <1>2

LEMMA NobodyKeeps == ServerTypeOK /\ ManagerInv /\ NobodyMoves => ManagerInv'
<1> SUFFICES ASSUME ServerTypeOK, ManagerInv, NobodyMoves PROVE ManagerInv'
  OBVIOUS
<1>1. /\ UNCHANGED <<bySession, byClient, client, shut, task>>
      /\ \A s \in Sessions : conn'[s] = "new" <=> conn[s] = "new"
  BY DEF NobodyMoves, manager
<1> QED BY <1>1, TaskFields DEF ManagerInv, Does, IsClosing

\* A step is one of five kinds.
LEMMA Steps ==
  ASSUME ServerTypeOK, ManagerInv, [ServerNext]_serverVars
  PROVE  \/ NobodyMoves
         \/ \E s \in Sessions : OnOpen(s)
         \/ \E t \in Threads : Bystander(t) \/ Remove(t)
         \/ \E t \in Threads, s \in Sessions, c \in Clients : task[t].do # "idle" /\ Binds(t, s, c)
<1>1. CASE \E s \in Sessions : OnOpen(s) \/ Lost(s) \/ OnClose(s)
  BY <1>1, NobodySteps, BystanderSteps DEF Threads
<1>2. CASE \E t \in Threads, s \in Sessions : Sweep(t, s) \/ \E c \in Clients : Dispatch(t, s, c)
  BY <1>2, BystanderSteps
<1>3. ASSUME NEW t \in Threads, ThreadStep(t)
      PROVE  \/ \E u \in Threads : Bystander(u) \/ Remove(u)
             \/ \E u \in Threads, s \in Sessions, c \in Clients : task[u].do # "idle" /\ Binds(u, s, c)
  <2>1. CASE Bind(t) /\ task[t].on \in bySession /\ ~shut[task[t].on]
    <3>1. task[t].do # "idle"
      BY <2>1 DEF Bind, Does
    <3> QED BY <2>1, <3>1, BindBinds
  <2>2. CASE ~(Bind(t) /\ task[t].on \in bySession /\ ~shut[task[t].on])
    BY <1>3, <2>2, BystanderSteps DEF ThreadStep
  <2> QED BY <2>1, <2>2
<1>4. CASE Shutdown \/ EngineStopped \/ ShutdownTimesOut \/ UNCHANGED serverVars
  BY <1>4, NobodySteps
<1> QED BY <1>1, <1>2, <1>3, <1>4 DEF ServerNext

LEMMA ManagerInit == ServerInit => ManagerInv
<1> QED BY DEF ServerInit, ManagerInv, Does, IsClosing, Idle, Threads

LEMMA ManagerStep == ServerTypeOK /\ ManagerInv /\ [ServerNext]_serverVars => ManagerInv'
<1> QED BY Steps, NobodyKeeps, OpenKeeps, BystanderKeeps, RemoveKeeps, BindKeeps

-----------------------------------------------------------------------------
(* The registry. *)

LEMMA FoundByOwner ==
  ASSUME ServerTypeOK, ManagerInv
  PROVE  [c \in Clients |-> FoundBy(c)] = byClient
<1>1. \A c \in Clients : FoundBy(c) = byClient[c]
  BY ServerAssumption DEF FoundBy, ManagerInv, ServerTypeOK
<1> QED BY <1>1 DEF ServerTypeOK

LEMMA FoundByOwnerNext ==
  ASSUME ServerTypeOK', ManagerInv'
  PROVE  [c \in Clients |-> FoundBy(c)]' = byClient'
<1>1. \A c \in Clients : FoundBy(c)' = byClient'[c]
  BY ServerAssumption DEF FoundBy, ManagerInv, ServerTypeOK
<1> QED BY <1>1 DEF ServerTypeOK

LEMMA RegistryStarts == ServerInit => Registry!RegistryInit
<1> QED BY ServerAssumption DEF ServerInit, Registry!RegistryInit, Found, FoundBy

LEMMA RegistryStep ==
  ASSUME ServerTypeOK, ManagerInv, ServerTypeOK', ManagerInv', [ServerNext]_serverVars
  PROVE  [Registry!RegistryNext]_Registry!registry
<1> DEFINE owner == [c \in Clients |-> FoundBy(c)]
           closed == {s \in Sessions : shut[s]}
<1>o. owner = byClient /\ owner' = byClient'
  BY FoundByOwner, FoundByOwnerNext
<1>1. ASSUME UNCHANGED manager PROVE UNCHANGED <<Found, closed, owner>>
  BY <1>1, <1>o DEF manager, Found
<1>2. ASSUME NEW s \in Sessions, OnOpen(s) PROVE Registry!Join(s)
  <2>1. /\ ~shut[s] /\ s \notin bySession
        /\ bySession' = bySession \cup {s} /\ shut' = shut /\ byClient' = byClient
    BY <1>2, OpenKeeps DEF OnOpen
  <2>2. Found' = Found \cup {s} /\ closed' = closed /\ s \notin Found \cup closed
    BY <2>1 DEF Found
  <2> QED BY <1>o, <2>1, <2>2 DEF Registry!Join
<1>3. ASSUME NEW t \in Threads, Remove(t)
      PROVE  \E s \in Sessions : Registry!Leave(s) \/ UNCHANGED <<Found, closed, owner>>
  <2> DEFINE s == task[t].on
  <2>1. s \in Sessions /\ conn[s] # "new"
    BY <1>3, BusyThread DEF Remove, Does
  <2>2. /\ shut' = [shut EXCEPT ![s] = TRUE] /\ bySession' = bySession \ {s}
        /\ byClient' = [c \in Clients |->
             IF c = client[s] /\ byClient[c] = s THEN NoSession ELSE byClient[c]]
    BY <1>3 DEF Remove
  <2>3. /\ \A x \in Sessions : shut'[x] <=> shut[x] \/ x = s
        /\ byClient' = [c \in Clients |-> IF byClient[c] = s THEN NoSession ELSE byClient[c]]
    <3>1. \A c \in Clients : byClient[c] = s => c = client[s]
      BY <2>1, ServerAssumption DEF ManagerInv
    <3> QED BY <2>1, <2>2, <3>1 DEF ServerTypeOK
  <2>4. CASE s \in Found
    <3>1. Found' = Found \ {s} /\ closed' = closed \cup {s}
      BY <2>1, <2>2, <2>3 DEF Found, ServerTypeOK
    <3> QED BY <1>o, <2>1, <2>3, <2>4, <3>1 DEF Registry!Leave
  <2>5. CASE s \notin Found
    <3>1. shut[s]
      BY <2>1, <2>5 DEF ManagerInv, Found
    <3>2. \A c \in Clients : byClient[c] # s
      BY <2>1, <3>1, ServerAssumption DEF ManagerInv
    <3>3. Found' = Found /\ closed' = closed
      BY <2>2, <2>3, <3>1 DEF Found
    <3>4. byClient' = byClient
      BY <2>3, <3>2 DEF ServerTypeOK
    <3> QED BY <1>o, <2>1, <3>3, <3>4
  <2> QED BY <2>4, <2>5
<1>4. ASSUME NEW t \in Threads, NEW s \in Sessions, NEW c \in Clients, Binds(t, s, c)
      PROVE  Registry!Take(s, c)
  <2> DEFINE displaced == {byClient[c]} \ {NoSession, s}
  <2>1. /\ s \in bySession /\ ~shut[s] /\ bySession' = bySession
        /\ \A x \in Sessions : shut'[x] <=> shut[x] \/ (x = byClient[c] /\ x # s)
        /\ byClient' = [d \in Clients |-> IF d = c THEN s
                                          ELSE IF byClient[d] = s THEN NoSession ELSE byClient[d]]
    BY <1>4 DEF Binds
  <2>2. byClient[c] \in Sessions \cup {NoSession} /\ bySession \subseteq Sessions
    BY DEF ServerTypeOK
  <2>3. s \in Found /\ Found' = Found \ displaced /\ closed' = closed \cup displaced
    BY <2>1, <2>2, ServerAssumption DEF Found
  <2> HIDE DEF closed, owner
  <2>4. owner' = [d \in Clients |-> IF d = c THEN s ELSE IF owner[d] = s THEN NoSession ELSE owner[d]]
        /\ owner[c] = byClient[c]
    BY <1>o, <2>1
  <2> QED BY <2>3, <2>4 DEF Registry!Take, closed, owner
<1> QED BY <1>1, <1>2, <1>3, <1>4, Steps
        DEF Registry!RegistryNext, Registry!registry, NobodyMoves, Bystander

\* The manager implements the registry, whatever the number of sessions, event loops and
\* goroutines: a displaced session is gone in the instant the new one is found, a
\* session never comes back, and a client id is never owned by a closed session.
THEOREM ManagerIsRegistry == ServerSpec => RegistryImplemented
<1>1. ServerInit => ServerTypeOK /\ ManagerInv /\ Registry!RegistryInit
  BY ServerInitType, ManagerInit, RegistryStarts
<1>2. ServerTypeOK /\ ManagerInv /\ [ServerNext]_serverVars => ServerTypeOK' /\ ManagerInv'
  BY ServerStepType, ManagerStep
<1>3. ServerTypeOK /\ ManagerInv /\ ServerTypeOK' /\ ManagerInv' /\ [ServerNext]_serverVars
        => [Registry!RegistryNext]_Registry!registry
  BY RegistryStep
<1> QED BY <1>1, <1>2, <1>3, PTL DEF ServerSpec, RegistryImplemented, Registry!RegistrySpec

-----------------------------------------------------------------------------
(* closeOnce, the connections and the listener: what a step has to keep. *)

OutsideOnce ==
  /\ once' = once
  /\ \A s \in Sessions : /\ Gone(s) => Gone(s)'
                         /\ Told(s, "destroyed")' <=> Told(s, "destroyed")
  /\ \A u \in Threads, s \in Sessions :
       Inside(u, s)' => Inside(u, s) /\ task'[u].do = task[u].do

LEMMA OutsideKeeps == OnceInv /\ OutsideOnce => OnceInv'
<1> SUFFICES ASSUME OnceInv, OutsideOnce PROVE OnceInv'
  OBVIOUS
<1>1. \A s \in Sessions, t, u \in Threads : Inside(t, s)' /\ Inside(u, s)' => t = u
  BY DEF OnceInv, OutsideOnce
<1>2. \A s \in Sessions, t \in Threads : Inside(t, s)' =>
        /\ once'[s] = "running"
        /\ ~Does(t, "remove")' => Gone(s)'
        /\ Does(t, "hangup")' <=> Told(s, "destroyed")'
  BY DEF OnceInv, OutsideOnce, Does
<1>3. \A s \in Sessions : /\ once'[s] = "idle" => ~Told(s, "destroyed")'
                          /\ once'[s] = "done" => Told(s, "destroyed")'
                          /\ Told(s, "destroyed")' => Gone(s)'
  BY DEF OnceInv, OutsideOnce
<1> QED BY <1>1, <1>2, <1>3 DEF OnceInv

KeepsConns ==
  /\ \A s \in Sessions : /\ conn'[s] = "closed" => conn[s] = "closed" \/ once'[s] = "done"
                         /\ once[s] = "done" => once'[s] = "done"
  /\ srv' = "down" =>
       /\ srv = "down"
       /\ \A s \in Sessions : conn[s] \in {"new", "closed"} => conn'[s] \in {"new", "closed"}

LEMMA ConnsKeep == ConnInv /\ KeepsConns => ConnInv'
<1> QED BY DEF ConnInv, KeepsConns

KeepsTelling(t) ==
  /\ \A u \in Threads : u # t => task'[u] = task[u]
  /\ \A s \in Sessions : conn'[s] = "new" <=> conn[s] = "new"
  /\ task'[t].do # "created"
  /\ \A s \in Sessions, event \in Events : Told(s, event) => Told(s, event)'
  /\ \A s \in Sessions : Told(s, "created")' => Told(s, "created") \/ Does(s, "created")
  /\ Does(t, "created") => t \in Sessions /\ Told(t, "created")'
  /\ \A s \in Sessions : shut'[s] => shut[s] \/ Ending(t, s)'
  /\ \A s \in Sessions : Ending(t, s) => Ending(t, s)' \/ Told(s, "destroyed")'
  /\ \A c \in Clients, s \in Sessions :
       byClient'[c] = s => byClient[c] = s \/ Announces(t, s)'
  /\ \A s \in Sessions : Announces(t, s) => Announces(t, s)' \/ Told(s, "registered")'
  /\ ToldOnce'

LEMMA TellingKeeps ==
  ASSUME ServerTypeOK, TellInv, NEW t \in Threads, KeepsTelling(t)
  PROVE  TellInv'
<1>1. ASSUME NEW s \in Sessions
      PROVE  Told(s, "created")' \/ Does(s, "created")' <=> conn'[s] # "new"
  <2>1. Told(s, "created") => Told(s, "created")'
    BY DEF KeepsTelling, Events
  <2>2. CASE s = t
    BY <2>1, <2>2 DEF KeepsTelling, TellInv, Does
  <2>3. CASE s # t
    <3>1. Does(s, "created")' <=> Does(s, "created")
      BY <2>3 DEF KeepsTelling, Does, Threads
    <3> QED BY <2>1, <2>3, <3>1 DEF KeepsTelling, TellInv
  <2> QED BY <2>2, <2>3
<1>2. ASSUME NEW s \in Sessions, shut'[s]
      PROVE  Told(s, "destroyed")' \/ \E u \in Threads : Ending(u, s)'
  <2>1. Told(s, "destroyed") => Told(s, "destroyed")'
    BY DEF KeepsTelling, Events
  <2>2. \A u \in Threads : Ending(u, s) => Ending(u, s)' \/ Told(s, "destroyed")'
    <3> TAKE u \in Threads
    <3>1. CASE u = t
      BY <3>1 DEF KeepsTelling
    <3>2. CASE u # t
      BY <3>2 DEF KeepsTelling, Ending
    <3> QED BY <3>1, <3>2
  <2>3. shut[s] \/ Ending(t, s)'
    BY <1>2 DEF KeepsTelling
  <2> QED BY <2>1, <2>2, <2>3 DEF TellInv
<1>3. ASSUME NEW c \in Clients, NEW s \in Sessions, byClient'[c] = s
      PROVE  Told(s, "registered")' \/ \E u \in Threads : Announces(u, s)'
  <2>1. Told(s, "registered") => Told(s, "registered")'
    BY DEF KeepsTelling, Events
  <2>2. \A u \in Threads : Announces(u, s) => Announces(u, s)' \/ Told(s, "registered")'
    <3> TAKE u \in Threads
    <3>1. CASE u = t
      BY <3>1 DEF KeepsTelling
    <3>2. CASE u # t
      BY <3>2 DEF KeepsTelling, Announces, Does, IsClosing
    <3> QED BY <3>1, <3>2
  <2>3. byClient[c] = s \/ Announces(t, s)'
    BY <1>3 DEF KeepsTelling
  <2> QED BY <2>1, <2>2, <2>3 DEF TellInv
<1> QED BY <1>1, <1>2, <1>3 DEF TellInv, KeepsTelling

\* The listener is told of one event, and of a destruction only once.
LEMMA TellOnce ==
  ASSUME ServerTypeOK, ToldOnce, NEW s \in Sessions, NEW event \in Events, Tell(s, event),
         event = "destroyed" => ~Told(s, "destroyed")
  PROVE  ToldOnce'
<1> SUFFICES ASSUME NEW x \in Sessions, NEW i \in DOMAIN heard'[x], NEW j \in DOMAIN heard'[x],
                    heard'[x][i] = "destroyed", heard'[x][j] = "destroyed"
             PROVE  i = j
  BY DEF ToldOnce
<1>1. CASE x # s
  BY <1>1, TellType DEF ToldOnce
<1>2. CASE x = s
  <2> DEFINE q == heard[s]  r == Append(q, event)
  <2>1. q \in Seq(Events)
    BY DEF ServerTypeOK, Events
  <2>2. heard'[x] = r
    BY <1>2, TellType
  <2>3. /\ Len(q) \in Nat /\ DOMAIN q = 1 .. Len(q) /\ DOMAIN r = 1 .. Len(q) + 1
        /\ r[Len(q) + 1] = event /\ \A k \in 1 .. Len(q) : r[k] = q[k]
    BY <2>1
  <2>4. \A k, l \in DOMAIN q : q[k] = "destroyed" /\ q[l] = "destroyed" => k = l
    BY DEF ToldOnce
  <2>5. event = "destroyed" => \A k \in DOMAIN q : q[k] # "destroyed"
    BY DEF Told
  <2> HIDE DEF q, r
  <2> QED BY <2>2, <2>3, <2>4, <2>5
<1> QED BY <1>1, <1>2

LEMMA NothingTold ==
  ASSUME heard' = heard
  PROVE  /\ \A s \in Sessions, event \in Events : Told(s, event)' <=> Told(s, event)
         /\ ToldOnce => ToldOnce'
<1> QED BY DEF Told, ToldOnce

\* A part of the closing of s, by the one thread that is inside closeOnce.
ClosingPart(t, s) ==
  /\ \A u \in Threads : u # t => task'[u] = task[u] /\ ~Inside(u, s)
  /\ \A x \in Sessions : Inside(t, x) \/ Inside(t, x)' => x = s
  /\ \A x \in Sessions : x # s => /\ once'[x] = once[x] /\ (Gone(x) => Gone(x)')
                                  /\ Told(x, "destroyed")' <=> Told(x, "destroyed")
  /\ Inside(t, s)' => /\ once'[s] = "running"
                      /\ ~Does(t, "remove")' => Gone(s)'
                      /\ Does(t, "hangup")' <=> Told(s, "destroyed")'
  /\ once'[s] = "idle" => ~Told(s, "destroyed")'
  /\ once'[s] = "done" => Told(s, "destroyed")'
  /\ Told(s, "destroyed")' => Gone(s)'

LEMMA ClosingPartKeeps ==
  ASSUME OnceInv, NEW t \in Threads, NEW s \in Sessions, ClosingPart(t, s)
  PROVE  OnceInv'
<1>0. \A u \in Threads, x \in Sessions : u # t => (Inside(u, x)' <=> Inside(u, x))
  BY DEF ClosingPart, Inside
<1>1. \A x \in Sessions, u, v \in Threads : Inside(u, x)' /\ Inside(v, x)' => u = v
  BY <1>0 DEF OnceInv, ClosingPart
<1>2. ASSUME NEW x \in Sessions, NEW u \in Threads, Inside(u, x)'
      PROVE  /\ once'[x] = "running"
             /\ ~Does(u, "remove")' => Gone(x)'
             /\ Does(u, "hangup")' <=> Told(x, "destroyed")'
  <2>1. CASE u = t
    BY <1>2, <2>1 DEF ClosingPart
  <2>2. CASE u # t
    <3>1. Inside(u, x) /\ x # s /\ task'[u] = task[u]
      BY <1>0, <1>2, <2>2 DEF ClosingPart
    <3>2. /\ once[x] = "running"
          /\ ~Does(u, "remove") => Gone(x)
          /\ Does(u, "hangup") <=> Told(x, "destroyed")
      BY <3>1 DEF OnceInv
    <3> QED BY <3>1, <3>2 DEF ClosingPart, Does
  <2> QED BY <2>1, <2>2
<1>3. \A x \in Sessions : /\ once'[x] = "idle" => ~Told(x, "destroyed")'
                          /\ once'[x] = "done" => Told(x, "destroyed")'
                          /\ Told(x, "destroyed")' => Gone(x)'
  BY DEF OnceInv, ClosingPart
<1> QED BY <1>1, <1>2, <1>3 DEF OnceInv

-----------------------------------------------------------------------------
(* They are kept. *)

LEMMA NobodyKeepsRest ==
  ASSUME ServerTypeOK, Rest, NobodyMoves,
         srv' = "down" => srv = "down" \/ \A s \in Sessions : conn'[s] \in {"new", "closed"}
  PROVE  Rest'
<1>1. /\ UNCHANGED <<bySession, byClient, client, shut, task, once, heard>>
      /\ \A s \in Sessions : /\ conn'[s] = "new" <=> conn[s] = "new"
                             /\ conn'[s] = "closed" <=> conn[s] = "closed"
      /\ \A s \in Sessions : conn[s] \in {"new", "closed"} => conn'[s] \in {"new", "closed"}
  BY DEF NobodyMoves, manager
<1>2. OnceInv'
  <2>1. OutsideOnce
    BY <1>1 DEF OutsideOnce, Gone, Told, Inside
  <2> QED BY <2>1, OutsideKeeps DEF Rest
<1>3. ConnInv'
  BY <1>1 DEF Rest, ConnInv
<1>4. TellInv'
  BY <1>1 DEF Rest, TellInv, Told, Does, Ending, Announces, IsClosing, ToldOnce
<1> QED BY <1>2, <1>3, <1>4 DEF Rest

LEMMA OpenKeepsRest ==
  ASSUME ServerTypeOK, ManagerInv, Rest, NEW s \in Sessions, OnOpen(s)
  PROVE  Rest'
<1>1. /\ conn[s] = "new" /\ task[s].do = "idle" /\ task'[s] = [do |-> "created", on |-> s]
      /\ \A u \in Threads : u # s => task'[u] = task[u]
      /\ bySession' = bySession \cup {s}
      /\ \A x \in Sessions : conn'[x] = IF x = s THEN "open" ELSE conn[x]
  BY OpenKeeps
<1>2. UNCHANGED <<byClient, client, shut, once, heard, srv>> /\ ~shut[s]
  BY OpenKeeps DEF OnOpen
<1>3. task'[s].do = "created"
  BY <1>1
<1>4. OnceInv'
  <2>1. \A x \in Sessions : Gone(x) => Gone(x)'
    BY <1>1, <1>2 DEF Gone
  <2>2. \A u \in Threads, x \in Sessions : Inside(u, x)' => Inside(u, x) /\ task'[u].do = task[u].do
    BY <1>1, <1>3 DEF Inside
  <2>3. OutsideOnce
    BY <1>2, <2>1, <2>2 DEF OutsideOnce, Told
  <2> QED BY <2>3, OutsideKeeps DEF Rest
<1>5. ConnInv'
  <2>1. srv # "down"
    BY DEF OnOpen
  <2> QED BY <1>1, <1>2, <2>1 DEF Rest, ConnInv
<1>6. TellInv'
  <2>1. /\ \A x \in Sessions, event \in Events : Told(x, event)' <=> Told(x, event)
        /\ ToldOnce'
    BY <1>2, NothingTold DEF Rest, TellInv
  <2>2. \A x \in Sessions : Told(x, "created")' \/ Does(x, "created")' <=> conn'[x] # "new"
    BY <1>1, <1>3, <2>1 DEF Rest, TellInv, Does, Threads, Events
  <2>3. \A u \in Threads, x \in Sessions : /\ Ending(u, x) => Ending(u, x)'
                                           /\ Announces(u, x) => Announces(u, x)'
    BY <1>1 DEF Ending, Announces, Does, IsClosing
  <2>4. \A x \in Sessions : shut'[x] => Told(x, "destroyed")' \/ \E u \in Threads : Ending(u, x)'
    BY <1>2, <2>1, <2>3 DEF Rest, TellInv, Events
  <2>5. \A c \in Clients, x \in Sessions : byClient'[c] = x =>
          Told(x, "registered")' \/ \E u \in Threads : Announces(u, x)'
    BY <1>2, <2>1, <2>3 DEF Rest, TellInv, Events
  <2> QED BY <2>1, <2>2, <2>4, <2>5 DEF TellInv
<1> QED BY <1>4, <1>5, <1>6 DEF Rest

\* An idle thread starts to work, and nothing else happens.
LEMMA StartKeepsRest ==
  ASSUME ServerTypeOK, Rest, NEW t \in Threads, NEW next, Goto(t, next), task[t].do = "idle",
         next.do \in {"bind", "close"}, next.do = "close" => next.then = NoSession,
         UNCHANGED <<conn, manager, once, heard, srv>>
  PROVE  Rest'
<1>1. task'[t] = next /\ \A u \in Threads : u # t => task'[u] = task[u]
  BY GotoOnly
<1>2. UNCHANGED <<bySession, byClient, client, shut>>
  BY DEF manager
<1>3. /\ \A s \in Sessions, event \in Events : Told(s, event)' <=> Told(s, event)
      /\ ToldOnce'
  BY NothingTold DEF Rest, TellInv
<1>4. OnceInv'
  <2>1. \A u \in Threads, s \in Sessions : Inside(u, s)' => Inside(u, s) /\ task'[u].do = task[u].do
    BY <1>1 DEF Inside
  <2>2. OutsideOnce
    BY <1>2, <1>3, <2>1 DEF OutsideOnce, Gone, Events
  <2> QED BY <2>2, OutsideKeeps DEF Rest
<1>5. ConnInv'
  BY DEF Rest, ConnInv
<1>6. TellInv'
  <2>1. \A s \in Sessions : ~Ending(t, s) /\ ~Announces(t, s)
    BY DEF Ending, Announces, Does, IsClosing
  <2>2. KeepsTelling(t)
    BY <1>1, <1>2, <1>3, <2>1 DEF KeepsTelling, Does, Events
  <2> QED BY <2>2, TellingKeeps DEF Rest
<1> QED BY <1>4, <1>5, <1>6 DEF Rest

\* A thread tells of one event that is not a destruction, and is idle again.
LEMMA ReportKeepsRest ==
  ASSUME ServerTypeOK, ManagerInv, Rest, NEW t \in Threads, Created(t) \/ Registered(t)
  PROVE  Rest'
<1> DEFINE s == task[t].on  event == task[t].do
<1>1. /\ event \in {"created", "registered"} /\ s \in Sessions
      /\ Tell(s, event) /\ Goto(t, Idle) /\ UNCHANGED <<conn, manager, once, srv>>
  BY TaskFields DEF Created, Registered, Does
<1>2. task'[t].do = "idle" /\ \A u \in Threads : u # t => task'[u] = task[u]
  BY <1>1, GotoOnly DEF Idle
<1>3. \A x \in Sessions, other \in Events :
        Told(x, other)' <=> Told(x, other) \/ (x = s /\ other = event)
  BY <1>1, Tells DEF Events
<1>4. UNCHANGED <<bySession, byClient, client, shut>>
  BY <1>1 DEF manager
<1>5. event = "created" => t = s
  BY DEF ManagerInv, Does
<1>6. OnceInv'
  <2>1. \A x \in Sessions : Told(x, "destroyed")' <=> Told(x, "destroyed")
    BY <1>1, <1>3 DEF Events
  <2>2. \A u \in Threads, x \in Sessions : Inside(u, x)' => Inside(u, x) /\ task'[u].do = task[u].do
    BY <1>2 DEF Inside
  <2>3. OutsideOnce
    BY <1>1, <1>4, <2>1, <2>2 DEF OutsideOnce, Gone
  <2> QED BY <2>3, OutsideKeeps DEF Rest
<1>7. ConnInv'
  BY <1>1 DEF Rest, ConnInv
<1>8. TellInv'
  <2>1. ToldOnce'
    BY <1>1, TellOnce DEF Rest, TellInv, Events
  <2>2. \A x \in Sessions : ~Ending(t, x) /\ (Announces(t, x) => event = "registered" /\ x = s)
    BY <1>1 DEF Ending, Announces, Does, IsClosing
  <2>3. \A x \in Sessions : Announces(t, x) => Told(x, "registered")'
    BY <1>3, <2>2 DEF Events
  <2>4. \A x \in Sessions : Told(x, "created")' => Told(x, "created") \/ Does(x, "created")
    BY <1>3, <1>5 DEF Events, Does
  <2>5. Does(t, "created") => t \in Sessions /\ Told(t, "created")'
    BY <1>1, <1>3, <1>5 DEF Events, Does
  <2>6. \A x \in Sessions, other \in Events : Told(x, other) => Told(x, other)'
    BY <1>3
  <2>7. KeepsTelling(t)
    BY <1>1, <1>2, <1>4, <2>1, <2>2, <2>3, <2>4, <2>5, <2>6 DEF KeepsTelling
  <2> QED BY <2>7, TellingKeeps DEF Rest
<1> QED BY <1>6, <1>7, <1>8 DEF Rest

\* The session of the request is closed, or was never added.
LEMMA NoBindKeepsRest ==
  ASSUME ServerTypeOK, Rest, NEW t \in Threads, Bind(t),
         task[t].on \notin bySession \/ shut[task[t].on]
  PROVE  Rest'
<1>1. task[t].do = "bind" /\ Goto(t, Idle) /\ UNCHANGED <<conn, manager, once, heard, srv>>
  BY DEF Bind, Does
<1>2. task'[t].do = "idle" /\ \A u \in Threads : u # t => task'[u] = task[u]
  BY <1>1, GotoOnly DEF Idle
<1>3. UNCHANGED <<bySession, byClient, client, shut>>
  BY <1>1 DEF manager
<1>4. /\ \A s \in Sessions, event \in Events : Told(s, event)' <=> Told(s, event)
      /\ ToldOnce'
  BY <1>1, NothingTold DEF Rest, TellInv
<1>5. OnceInv'
  <2>1. \A u \in Threads, s \in Sessions : Inside(u, s)' => Inside(u, s) /\ task'[u].do = task[u].do
    BY <1>2 DEF Inside
  <2>2. OutsideOnce
    BY <1>1, <1>3, <1>4, <2>1 DEF OutsideOnce, Gone, Events
  <2> QED BY <2>2, OutsideKeeps DEF Rest
<1>6. ConnInv'
  BY <1>1 DEF Rest, ConnInv
<1>7. TellInv'
  <2>1. \A s \in Sessions : ~Ending(t, s) /\ ~Announces(t, s) /\ ~Does(t, "created")
    BY <1>1 DEF Ending, Announces, Does, IsClosing
  <2>2. ~Does(t, "created")
    BY <1>1 DEF Does
  <2>3. KeepsTelling(t)
    BY <1>1, <1>2, <1>3, <1>4, <2>1, <2>2 DEF KeepsTelling, Events
  <2> QED BY <2>3, TellingKeeps DEF Rest
<1> QED BY <1>5, <1>6, <1>7 DEF Rest

LEMMA BindKeepsRest ==
  ASSUME ServerTypeOK, Rest, NEW t \in Threads, NEW s \in Sessions, NEW c \in Clients,
         task[t].do = "bind", Binds(t, s, c)
  PROVE  Rest'
<1> DEFINE old == byClient[c]
<1>1. /\ \A x \in Sessions : shut'[x] <=> shut[x] \/ (x = old /\ x # s)
      /\ \A d \in Clients : byClient'[d] = IF d = c THEN s
                                           ELSE IF byClient[d] = s THEN NoSession ELSE byClient[d]
      /\ UNCHANGED <<bySession, conn, once, heard, srv>>
      /\ \A u \in Threads : u # t => task'[u] = task[u]
  BY DEF Binds, ServerTypeOK
<1>2. \/ old \in {NoSession, s} /\ task'[t].do = "registered" /\ task'[t].on = s
      \/ task'[t].do = "close" /\ task'[t].on = old /\ task'[t].then = s
  <2>1. \/ old \in {NoSession, s} /\ task'[t] = [do |-> "registered", on |-> s]
        \/ task'[t] = [do |-> "close", on |-> old, then |-> s]
    BY DEF Binds
  <2> QED BY <2>1
<1>3. /\ \A x \in Sessions, event \in Events : Told(x, event)' <=> Told(x, event)
      /\ ToldOnce'
  BY <1>1, NothingTold DEF Rest, TellInv
<1>4. OnceInv'
  <2>1. \A u \in Threads, x \in Sessions : Inside(u, x)' => Inside(u, x) /\ task'[u].do = task[u].do
    BY <1>1, <1>2 DEF Inside
  <2>2. OutsideOnce
    BY <1>1, <1>3, <2>1 DEF OutsideOnce, Gone, Events
  <2> QED BY <2>2, OutsideKeeps DEF Rest
<1>5. ConnInv'
  BY <1>1 DEF Rest, ConnInv
<1>6. TellInv'
  <2>1. \A x \in Sessions : ~Ending(t, x) /\ ~Announces(t, x)
    BY DEF Ending, Announces, Does, IsClosing
  <2>2. ~Does(t, "created") /\ task'[t].do # "created"
    BY <1>2 DEF Does
  <2>3. \A x \in Sessions : shut'[x] => shut[x] \/ Ending(t, x)'
    <3> TAKE x \in Sessions
    <3>1. CASE x = old /\ x # s
      BY <1>2, <3>1, ServerAssumption DEF Ending
    <3>2. CASE ~(x = old /\ x # s)
      BY <1>1, <3>2
    <3> QED BY <3>1, <3>2
  <2>4. Announces(t, s)'
    BY <1>2 DEF Announces, Does, IsClosing
  <2>5. \A d \in Clients, x \in Sessions : byClient'[d] = x => byClient[d] = x \/ Announces(t, x)'
    BY <1>1, <2>4, ServerAssumption
  <2>6. KeepsTelling(t)
    BY <1>1, <1>3, <2>1, <2>2, <2>3, <2>5 DEF KeepsTelling, Events
  <2> QED BY <2>6, TellingKeeps DEF Rest
<1> QED BY <1>4, <1>5, <1>6 DEF Rest

\* Where a thread is when its closing has returned to the caller.
LEMMA ReturnsTo ==
  ASSUME ServerTypeOK, NEW t \in Threads, IsClosing(t), Goto(t, AfterClose(t))
  PROVE  /\ \A u \in Threads : u # t => task'[u] = task[u]
         /\ task'[t].do \in {"idle", "registered"}
         /\ \A s \in Sessions : Announces(t, s) => Announces(t, s)'
<1>1. task'[t] = AfterClose(t) /\ \A u \in Threads : u # t => task'[u] = task[u]
  BY GotoOnly
<1>2. \/ task[t].then = NoSession /\ task'[t] = Idle
      \/ /\ task[t].then \in Sessions /\ task[t].then # NoSession
         /\ task'[t] = [do |-> "registered", on |-> task[t].then]
  BY <1>1, AfterCloseOn DEF IsClosing
<1>3. \/ task[t].then = NoSession /\ task'[t].do = "idle"
      \/ task'[t].do = "registered" /\ task'[t].on = task[t].then
  BY <1>2 DEF Idle
<1>4. \A s \in Sessions : Announces(t, s) => task[t].then = s
  BY DEF Announces, IsClosing, Does
<1>5. \A s \in Sessions : Announces(t, s) => Announces(t, s)'
  <2> SUFFICES ASSUME NEW s \in Sessions, Announces(t, s) PROVE Announces(t, s)'
    OBVIOUS
  <2>1. task'[t].do = "registered" /\ task'[t].on = s
    BY <1>3, <1>4, ServerAssumption
  <2> QED BY <2>1 DEF Announces, Does
<1>6. task'[t].do \in {"idle", "registered"}
  BY <1>3
<1> QED BY <1>1, <1>5, <1>6

LEMMA GoesOnTo ==
  ASSUME ServerTypeOK, NEW t \in Threads, NEW part \in {"remove", "destroyed", "hangup"},
         IsClosing(t), Goto(t, [task[t] EXCEPT !.do = part])
  PROVE  /\ \A u \in Threads : u # t => task'[u] = task[u]
         /\ task'[t].do = part /\ task'[t].on = task[t].on
         /\ \A s \in Sessions : Announces(t, s) => Announces(t, s)'
<1>1. /\ task'[t] = [do |-> part, on |-> task[t].on, then |-> task[t].then]
      /\ \A u \in Threads : u # t => task'[u] = task[u]
  <2>1. /\ task'[t] = [task[t] EXCEPT !.do = part]
        /\ \A u \in Threads : u # t => task'[u] = task[u]
    BY GotoOnly
  <2>2. [task[t] EXCEPT !.do = part] = [do |-> part, on |-> task[t].on, then |-> task[t].then]
    BY TaskGoesOn DEF IsClosing
  <2> QED BY <2>1, <2>2
<1>2. task'[t].do = part /\ task'[t].on = task[t].on /\ task'[t].then = task[t].then
  BY <1>1
<1> QED BY <1>1, <1>2 DEF Announces, IsClosing, Does

LEMMA EnterKeepsRest ==
  ASSUME ServerTypeOK, ManagerInv, Rest, NEW t \in Threads, Enter(t)
  PROVE  Rest'
<1>s. PICK s \in Sessions : s = task[t].on
  BY TaskFields DEF Enter, Does
<1>1. /\ task[t].do = "close" /\ IsClosing(t) /\ s \in Sessions /\ once[s] # "running"
      /\ UNCHANGED <<bySession, byClient, client, shut, heard, srv>>
  BY <1>s DEF Enter, Does, IsClosing, manager
<1>2. /\ \A x \in Sessions, event \in Events : Told(x, event)' <=> Told(x, event)
      /\ ToldOnce'
  BY <1>s, <1>1, NothingTold DEF Rest, TellInv
<1>3. /\ \A x \in Sessions : ~Inside(t, x) /\ (Ending(t, x) => x = s)
      /\ ~Does(t, "created")
  BY <1>s, <1>1 DEF Inside, Ending, Does
<1>4. CASE once[s] = "idle"
  <2>1. /\ \A u \in Threads : u # t => task'[u] = task[u]
        /\ task'[t].do = "remove" /\ task'[t].on = s
        /\ \A x \in Sessions : Announces(t, x) => Announces(t, x)'
    BY <1>s, <1>1, <1>4, GoesOnTo DEF Enter
  <2>2. /\ \A x \in Sessions : once'[x] = IF x = s THEN "running" ELSE once[x]
        /\ conn' = conn
    BY <1>s, <1>1, <1>4 DEF Enter, ServerTypeOK
  <2>3. OnceInv'
    <3>1. \A u \in Threads : ~Inside(u, s)
      BY <1>s, <1>1, <1>4 DEF Rest, OnceInv
    <3>2. ~Told(s, "destroyed")
      BY <1>s, <1>1, <1>4 DEF Rest, OnceInv
    <3>3. ClosingPart(t, s)
      BY <1>s, <1>1, <1>2, <1>3, <2>1, <2>2, <3>1, <3>2 DEF ClosingPart, Inside, Gone, Does, Events
    <3> QED BY <1>s, <1>1, <3>3, ClosingPartKeeps DEF Rest
  <2>4. ConnInv'
    <3>1. KeepsConns
      BY <1>s, <1>1, <1>4, <2>2 DEF KeepsConns
    <3> QED BY <3>1, ConnsKeep DEF Rest
  <2>5. TellInv'
    <3>1. \A x \in Sessions : Ending(t, x) => Ending(t, x)'
      BY <1>3, <2>1 DEF Ending
    <3>2. KeepsTelling(t)
      BY <1>s, <1>1, <1>2, <1>3, <2>1, <2>2, <3>1 DEF KeepsTelling, Events
    <3> QED BY <3>2, TellingKeeps DEF Rest
  <2> QED BY <2>3, <2>4, <2>5 DEF Rest
<1>5. CASE once[s] # "idle"
  <2>1. once[s] = "done"
    BY <1>s, <1>1, <1>5 DEF ServerTypeOK
  <2>2. once' = once /\ Return(t)
    BY <1>s, <1>5 DEF Enter
  <2>3. /\ \A u \in Threads : u # t => task'[u] = task[u]
        /\ task'[t].do \in {"idle", "registered"}
        /\ \A x \in Sessions : Announces(t, x) => Announces(t, x)'
    BY <1>s, <1>1, <2>2, ReturnsTo DEF Return
  <2>4. \A x \in Sessions : \/ conn'[x] = conn[x]
                            \/ x = s /\ conn'[x] = "closed"
    <3>1. conn' = IF t = s THEN [conn EXCEPT ![t] = "closed"] ELSE conn
      BY <1>s, <2>2 DEF Return
    <3>2. conn \in [Sessions -> {"new", "open", "lost", "closed"}]
      BY DEF ServerTypeOK
    <3> QED BY <3>1, <3>2
  <2>5. Gone(s) /\ Told(s, "destroyed")
    BY <1>s, <1>1, <2>1 DEF Rest, OnceInv
  <2>6. OnceInv'
    <3>1. \A u \in Threads, x \in Sessions : Inside(u, x)' => Inside(u, x) /\ task'[u].do = task[u].do
      BY <2>3 DEF Inside
    <3>2. OutsideOnce
      BY <1>s, <1>1, <1>2, <2>2, <3>1 DEF OutsideOnce, Gone, Events
    <3> QED BY <3>2, OutsideKeeps DEF Rest
  <2>7. ConnInv'
    <3>1. KeepsConns
      BY <1>s, <1>1, <2>1, <2>2, <2>4 DEF KeepsConns
    <3> QED BY <3>1, ConnsKeep DEF Rest
  <2>8. TellInv'
    <3>1. \A x \in Sessions : conn'[x] = "new" <=> conn[x] = "new"
      <4>1. task[t].do # "idle"
        BY <1>s, <1>1
      <4>2. conn[s] # "new"
        BY <1>s, <4>1, BusyThread
      <4> QED BY <2>4, <4>2
    <3>2. \A x \in Sessions : Ending(t, x) => Told(x, "destroyed")'
      BY <1>2, <1>3, <2>5 DEF Events
    <3>3. KeepsTelling(t)
      BY <1>s, <1>1, <1>2, <1>3, <2>3, <3>1, <3>2 DEF KeepsTelling, Events
    <3> QED BY <3>3, TellingKeeps DEF Rest
  <2> QED BY <2>6, <2>7, <2>8 DEF Rest
<1> QED BY <1>s, <1>1, <1>4, <1>5

LEMMA RemoveKeepsRest ==
  ASSUME ServerTypeOK, ManagerInv, Rest, NEW t \in Threads, Remove(t)
  PROVE  Rest'
<1>s. PICK s \in Sessions : s = task[t].on
  BY TaskFields DEF Remove, Does
<1>1. /\ task[t].do = "remove" /\ IsClosing(t) /\ s \in Sessions
      /\ UNCHANGED <<conn, client, once, heard, srv>>
  BY <1>s DEF Remove, Does, IsClosing
<1>2. /\ \A x \in Sessions, event \in Events : Told(x, event)' <=> Told(x, event)
      /\ ToldOnce'
  BY <1>s, <1>1, NothingTold DEF Rest, TellInv
<1>3. /\ \A u \in Threads : u # t => task'[u] = task[u]
      /\ task'[t].do = "destroyed" /\ task'[t].on = s
      /\ \A x \in Sessions : Announces(t, x) => Announces(t, x)'
  BY <1>s, <1>1, GoesOnTo DEF Remove
<1>4. /\ \A x \in Sessions : shut'[x] <=> shut[x] \/ x = s
      /\ bySession' = bySession \ {s}
      /\ \A c \in Clients : byClient'[c] \in {byClient[c], NoSession}
  BY <1>s, <1>1 DEF Remove, ServerTypeOK
<1>5. Inside(t, s) /\ \A x \in Sessions : Inside(t, x) => x = s
  BY <1>s, <1>1 DEF Inside
<1>6. OnceInv'
  <2>1. once[s] = "running" /\ ~Told(s, "destroyed")
    BY <1>s, <1>1, <1>5 DEF Rest, OnceInv, Does
  <2>2. \A u \in Threads : u # t => ~Inside(u, s)
    BY <1>s, <1>1, <1>5 DEF Rest, OnceInv
  <2>3. Gone(s)' /\ \A x \in Sessions : Gone(x) => Gone(x)'
    BY <1>s, <1>1, <1>4 DEF Gone
  <2>4. ClosingPart(t, s)
    BY <1>s, <1>1, <1>2, <1>3, <1>5, <2>1, <2>2, <2>3 DEF ClosingPart, Inside, Does, Events
  <2> QED BY <1>s, <1>1, <2>4, ClosingPartKeeps DEF Rest
<1>7. ConnInv'
  BY <1>s, <1>1 DEF Rest, ConnInv
<1>8. TellInv'
  <2>1. Ending(t, s)' /\ \A x \in Sessions : Ending(t, x) => x = s
    BY <1>s, <1>3 DEF Ending
  <2>2. ~Does(t, "created")
    BY <1>s, <1>1 DEF Does
  <2>3. \A c \in Clients, x \in Sessions : byClient'[c] = x => byClient[c] = x
    BY <1>4, ServerAssumption
  <2>4. KeepsTelling(t)
    BY <1>s, <1>1, <1>2, <1>3, <1>4, <2>1, <2>2, <2>3 DEF KeepsTelling, Events
  <2> QED BY <2>4, TellingKeeps DEF Rest
<1> QED BY <1>6, <1>7, <1>8 DEF Rest

LEMMA DestroyedKeepsRest ==
  ASSUME ServerTypeOK, ManagerInv, Rest, NEW t \in Threads, Destroyed(t)
  PROVE  Rest'
<1>s. PICK s \in Sessions : s = task[t].on
  BY TaskFields DEF Destroyed, Does
<1>1. /\ task[t].do = "destroyed" /\ IsClosing(t) /\ s \in Sessions /\ Tell(s, "destroyed")
      /\ UNCHANGED <<bySession, byClient, client, shut, srv>>
  BY <1>s DEF Destroyed, Does, IsClosing, manager
<1>2. Inside(t, s) /\ \A x \in Sessions : Inside(t, x) => x = s
  BY <1>s, <1>1 DEF Inside
<1>3. /\ once[s] = "running" /\ Gone(s) /\ ~Told(s, "destroyed")
      /\ \A u \in Threads : u # t => ~Inside(u, s)
  BY <1>s, <1>1, <1>2 DEF Rest, OnceInv, Does
<1>4. \A x \in Sessions, event \in Events :
        Told(x, event)' <=> Told(x, event) \/ (x = s /\ event = "destroyed")
  BY <1>s, <1>1, Tells DEF Events
<1>5. ToldOnce'
  BY <1>s, <1>1, <1>3, TellOnce DEF Rest, TellInv, Events
<1>6. /\ \A x \in Sessions : x # s => once'[x] = once[x]
      /\ \A u \in Threads : u # t => task'[u] = task[u]
      /\ \A x \in Sessions : Announces(t, x) => Announces(t, x)'
      /\ \/ /\ t # s /\ task'[t].do = "hangup" /\ task'[t].on = s
            /\ conn' = conn /\ once'[s] = once[s]
         \/ /\ task'[t].do \in {"idle", "registered"} /\ once'[s] = "done"
            /\ \A x \in Sessions : \/ conn'[x] = conn[x]
                                   \/ x = s /\ conn'[x] = "closed"
  <2>1. CASE t = s
    <3>1. once' = [once EXCEPT ![s] = "done"] /\ Return(t)
      BY <1>s, <2>1 DEF Destroyed
    <3>2. /\ \A x \in Sessions : once'[x] = IF x = s THEN "done" ELSE once[x]
          /\ \A x \in Sessions : \/ conn'[x] = conn[x]
                                 \/ x = s /\ conn'[x] = "closed"
      <4>1. conn' = IF t = s THEN [conn EXCEPT ![t] = "closed"] ELSE conn
        BY <1>s, <3>1 DEF Return
      <4>2. /\ conn \in [Sessions -> {"new", "open", "lost", "closed"}]
            /\ once \in [Sessions -> {"idle", "running", "done"}]
        BY DEF ServerTypeOK
      <4> QED BY <3>1, <4>1, <4>2
    <3> QED BY <1>s, <1>1, <3>1, <3>2, ReturnsTo DEF Return
  <2>2. CASE t # s
    <3>1. Goto(t, [task[t] EXCEPT !.do = "hangup"]) /\ UNCHANGED <<conn, once>>
      BY <1>s, <2>2 DEF Destroyed
    <3> QED BY <1>s, <1>1, <2>2, <3>1, GoesOnTo
  <2> QED BY <2>1, <2>2
<1>7. OnceInv'
  <2>1. \A x \in Sessions : Gone(x)' <=> Gone(x)
    BY <1>s, <1>1 DEF Gone
  <2>2. Told(s, "destroyed")'
    BY <1>s, <1>1, <1>4 DEF Events
  <2>3. \A x \in Sessions : x # s => (Told(x, "destroyed")' <=> Told(x, "destroyed"))
    BY <1>4 DEF Events
  <2>4. \A x \in Sessions : Inside(t, x)' => x = s
    BY <1>6 DEF Inside
  <2>5. Inside(t, s)' => once'[s] = "running" /\ Does(t, "hangup")'
    BY <1>3, <1>6 DEF Inside, Does
  <2>6. once'[s] # "idle"
    BY <1>3, <1>6
  <2>7. ClosingPart(t, s)
    BY <1>2, <1>3, <1>6, <2>1, <2>2, <2>3, <2>4, <2>5, <2>6 DEF ClosingPart
  <2> QED BY <1>s, <1>1, <2>7, ClosingPartKeeps DEF Rest
<1>8. ConnInv'
  <2>1. \A x \in Sessions : once[x] = "done" => once'[x] = "done"
    BY <1>3, <1>6
  <2>2. KeepsConns
    BY <1>s, <1>1, <1>6, <2>1 DEF KeepsConns
  <2> QED BY <2>2, ConnsKeep DEF Rest
<1>9. TellInv'
  <2>1. \A x \in Sessions : conn'[x] = "new" <=> conn[x] = "new"
    <3>1. task[t].do # "idle"
      BY <1>s, <1>1
    <3>2. conn[s] # "new"
      BY <1>s, <3>1, BusyThread
    <3> QED BY <1>6, <3>2
  <2>2. \A x \in Sessions : Ending(t, x) => Told(x, "destroyed")'
    BY <1>s, <1>4 DEF Ending, Events
  <2>3. ~Does(t, "created") /\ task'[t].do # "created"
    BY <1>s, <1>1, <1>6 DEF Does
  <2>4. /\ \A x \in Sessions, event \in Events : Told(x, event) => Told(x, event)'
        /\ \A x \in Sessions : Told(x, "created")' => Told(x, "created")
    BY <1>4 DEF Events
  <2>5. KeepsTelling(t)
    BY <1>s, <1>1, <1>5, <1>6, <2>1, <2>2, <2>3, <2>4 DEF KeepsTelling
  <2> QED BY <2>5, TellingKeeps DEF Rest
<1> QED BY <1>7, <1>8, <1>9 DEF Rest

LEMMA HangUpKeepsRest ==
  ASSUME ServerTypeOK, ManagerInv, Rest, NEW t \in Threads, HangUp(t)
  PROVE  Rest'
<1>s. PICK s \in Sessions : s = task[t].on
  BY TaskFields DEF HangUp, Does
<1>1. /\ task[t].do = "hangup" /\ IsClosing(t) /\ s \in Sessions
      /\ UNCHANGED <<bySession, byClient, client, shut, heard, srv>>
  BY <1>s DEF HangUp, Does, IsClosing, manager
<1>2. /\ \A x \in Sessions, event \in Events : Told(x, event)' <=> Told(x, event)
      /\ ToldOnce'
  BY <1>s, <1>1, NothingTold DEF Rest, TellInv
<1>3. Inside(t, s) /\ \A x \in Sessions : Inside(t, x) => x = s
  BY <1>s, <1>1 DEF Inside
<1>4. /\ Gone(s) /\ Told(s, "destroyed")
      /\ \A u \in Threads : u # t => ~Inside(u, s)
  BY <1>s, <1>1, <1>3 DEF Rest, OnceInv, Does
<1>5. /\ \A u \in Threads : u # t => task'[u] = task[u]
      /\ task'[t].do \in {"idle", "registered"}
      /\ \A x \in Sessions : Announces(t, x) => Announces(t, x)'
  BY <1>s, <1>1, ReturnsTo DEF HangUp
<1>6. /\ \A x \in Sessions : once'[x] = IF x = s THEN "done" ELSE once[x]
      /\ \A x \in Sessions : \/ conn'[x] = conn[x]
                             \/ conn[x] = "open" /\ conn'[x] = "lost"
  <2>1. /\ conn' = [conn EXCEPT ![s] = IF @ = "open" THEN "lost" ELSE @]
        /\ once' = [once EXCEPT ![s] = "done"]
    BY <1>s DEF HangUp
  <2>2. /\ conn \in [Sessions -> {"new", "open", "lost", "closed"}]
        /\ once \in [Sessions -> {"idle", "running", "done"}]
    BY DEF ServerTypeOK
  <2> QED BY <2>1, <2>2
<1>7. OnceInv'
  <2>1. \A x \in Sessions : Gone(x)' <=> Gone(x)
    BY <1>s, <1>1 DEF Gone
  <2>2. \A x \in Sessions : ~Inside(t, x)'
    BY <1>5 DEF Inside
  <2>3. \A x \in Sessions : Told(x, "destroyed")' <=> Told(x, "destroyed")
    BY <1>2 DEF Events
  <2>4. once'[s] = "done"
    BY <1>s, <1>1, <1>6
  <2>5. ClosingPart(t, s)
    BY <1>1, <1>3, <1>4, <1>5, <1>6, <2>1, <2>2, <2>3, <2>4 DEF ClosingPart
  <2> QED BY <1>s, <1>1, <2>5, ClosingPartKeeps DEF Rest
<1>8. ConnInv'
  <2>1. KeepsConns
    BY <1>s, <1>1, <1>6 DEF KeepsConns
  <2> QED BY <2>1, ConnsKeep DEF Rest
<1>9. TellInv'
  <2>1. \A x \in Sessions : ~Ending(t, x)
    BY <1>s, <1>1 DEF Ending
  <2>2. ~Does(t, "created")
    BY <1>s, <1>1 DEF Does
  <2>3. \A x \in Sessions : conn'[x] = "new" <=> conn[x] = "new"
    BY <1>6
  <2>4. KeepsTelling(t)
    BY <1>s, <1>1, <1>2, <1>5, <2>1, <2>2, <2>3 DEF KeepsTelling, Events
  <2> QED BY <2>4, TellingKeeps DEF Rest
<1> QED BY <1>7, <1>8, <1>9 DEF Rest

-----------------------------------------------------------------------------
(* The theorems that follow. *)

LEMMA RestInit == ServerInit => Rest
<1> SUFFICES ASSUME ServerInit PROVE Rest
  OBVIOUS
<1>1. /\ \A t \in Threads : task[t].do = "idle"
      /\ \A s \in Sessions : conn[s] = "new" /\ once[s] = "idle" /\ ~shut[s] /\ heard[s] = <<>>
      /\ \A c \in Clients : byClient[c] = NoSession
      /\ srv = "up"
  BY DEF ServerInit, Idle
<1>2. \A s \in Sessions : DOMAIN heard[s] = {}
  <2> TAKE s \in Sessions
  <2>1. heard[s] = <<>>
    BY <1>1
  <2>2. DOMAIN <<>> = {}
    OBVIOUS
  <2> QED BY <2>1, <2>2
<1>3. \A s \in Sessions, event \in Events : ~Told(s, event)
  BY <1>2 DEF Told
<1>4. OnceInv
  BY <1>1, <1>3 DEF OnceInv, Inside, Events
<1>5. ConnInv
  BY <1>1 DEF ConnInv
<1>6. TellInv
  <2>1. \A s \in Sessions : ~Does(s, "created")
    BY <1>1 DEF Does, Threads
  <2> QED BY <1>1, <1>2, <1>3, <2>1, ServerAssumption DEF TellInv, ToldOnce, Events
<1> QED BY <1>4, <1>5, <1>6 DEF Rest

LEMMA RestStep ==
  ASSUME ServerTypeOK, ManagerInv, Rest, [ServerNext]_serverVars
  PROVE  Rest'
<1>1. ASSUME NEW s \in Sessions, OnOpen(s) \/ Lost(s) \/ OnClose(s) PROVE Rest'
  <2>1. CASE OnOpen(s)
    BY <2>1, OpenKeepsRest
  <2>2. CASE Lost(s)
    <3>1. NobodyMoves /\ srv' = srv
      BY <2>2, NobodySteps DEF Lost
    <3> QED BY <3>1, NobodyKeepsRest
  <2>3. CASE OnClose(s)
    <3> DEFINE next == [do |-> "close", on |-> s, then |-> NoSession]
    <3>1. next.do = "close" /\ next.then = NoSession
      OBVIOUS
    <3>2. /\ Goto(s, next) /\ task[s].do = "idle" /\ s \in Threads
          /\ UNCHANGED <<conn, manager, once, heard, srv>>
      BY <2>3 DEF OnClose, Does, Threads
    <3> HIDE DEF next
    <3> QED BY <3>1, <3>2, StartKeepsRest
  <2> QED BY <1>1, <2>1, <2>2, <2>3
<1>2. ASSUME NEW t \in Threads, NEW s \in Sessions, Sweep(t, s) PROVE Rest'
  <2> DEFINE next == [do |-> "close", on |-> s, then |-> NoSession]
  <2>1. next.do = "close" /\ next.then = NoSession
    OBVIOUS
  <2>2. /\ Goto(t, next) /\ task[t].do = "idle"
        /\ UNCHANGED <<conn, manager, once, heard, srv>>
    BY <1>2 DEF Sweep, Does
  <2> HIDE DEF next
  <2> QED BY <2>1, <2>2, StartKeepsRest
<1>3. ASSUME NEW t \in Threads, NEW s \in Sessions, NEW c \in Clients, Dispatch(t, s, c)
      PROVE  Rest'
  <2> DEFINE next == [do |-> "bind", on |-> s, id |-> c]
  <2>1. next.do = "bind"
    OBVIOUS
  <2>2. /\ Goto(t, next) /\ task[t].do = "idle"
        /\ UNCHANGED <<conn, manager, once, heard, srv>>
    BY <1>3 DEF Dispatch, Does
  <2> HIDE DEF next
  <2> QED BY <2>1, <2>2, StartKeepsRest
<1>4. ASSUME NEW t \in Threads, Bind(t) PROVE Rest'
  <2>1. CASE task[t].on \notin bySession \/ shut[task[t].on]
    BY <1>4, <2>1, NoBindKeepsRest
  <2>2. CASE ~(task[t].on \notin bySession \/ shut[task[t].on])
    <3>1. task[t].do = "bind"
      BY <1>4 DEF Bind, Does
    <3>2. task[t].on \in Sessions /\ task[t].id \in Clients /\ Binds(t, task[t].on, task[t].id)
      BY <1>4, <2>2, BindBinds
    <3> QED BY <3>1, <3>2, BindKeepsRest
  <2> QED BY <2>1, <2>2
<1>5. ASSUME NEW t \in Threads, ThreadStep(t) PROVE Rest'
  BY <1>4, <1>5, ReportKeepsRest, EnterKeepsRest, RemoveKeepsRest, DestroyedKeepsRest,
     HangUpKeepsRest DEF ThreadStep
<1>6. CASE Shutdown \/ EngineStopped \/ ShutdownTimesOut \/ UNCHANGED serverVars
  <2>1. NobodyMoves
    BY <1>6, NobodySteps
  <2>2. srv' = "down" => srv = "down" \/ \A s \in Sessions : conn'[s] \in {"new", "closed"}
    BY <1>6 DEF Shutdown, EngineStopped, ShutdownTimesOut, serverVars
  <2> QED BY <2>1, <2>2, NobodyKeepsRest
<1> QED BY <1>1, <1>2, <1>3, <1>5, <1>6 DEF ServerNext

LEMMA ServerInvariant == ServerSpec => [](ServerTypeOK /\ ManagerInv /\ Rest)
<1>1. ServerInit => ServerTypeOK /\ ManagerInv /\ Rest
  BY ServerInitType, ManagerInit, RestInit
<1>2. ServerTypeOK /\ ManagerInv /\ Rest /\ [ServerNext]_serverVars
        => ServerTypeOK' /\ ManagerInv' /\ Rest'
  BY ServerStepType, ManagerStep, RestStep
<1> QED BY <1>1, <1>2, PTL DEF ServerSpec

\* When Shutdown has returned in time the manager is empty and the listener was told
\* of the end of every session, whatever the sweeper and the handlers are doing.
THEOREM ServerStopsEmpty == ServerSpec => []StoppedEmpty
<1>1. ASSUME ServerTypeOK, ManagerInv, Rest PROVE StoppedEmpty
  <2> SUFFICES ASSUME srv = "down"
               PROVE  /\ bySession = {} /\ \A c \in Clients : byClient[c] = NoSession
                      /\ \A s \in Sessions : conn[s] = "closed" => Told(s, "destroyed")
    BY DEF StoppedEmpty
  <2>1. \A s \in Sessions : \/ conn[s] = "new"
                            \/ Gone(s) /\ Told(s, "destroyed")
    BY <1>1 DEF Rest, ConnInv, OnceInv
  <2>2. \A s \in Sessions : s \notin bySession
    BY <1>1, <2>1 DEF ManagerInv, Gone
  <2>3. bySession = {}
    BY <1>1, <2>2 DEF ServerTypeOK
  <2>4. \A c \in Clients : byClient[c] = NoSession
    BY <1>1, <2>3 DEF ManagerInv
  <2> QED BY <2>1, <2>3, <2>4
<1> QED BY <1>1, ServerInvariant, PTL

\* No session is reported destroyed twice, and when no thread is busy the sessions
\* reported and not destroyed are those the manager finds, the owners of client
\* ids among those reported as registered.
THEOREM ListenerIsRight == ServerSpec => []ListenerCatchesUp
<1>1. ASSUME ServerTypeOK, ManagerInv, Rest PROVE ListenerCatchesUp
  <2>1. ASSUME \A t \in Threads : Does(t, "idle")
        PROVE  /\ {s \in Sessions : Told(s, "created") /\ ~Told(s, "destroyed")} = Found
               /\ \A c \in Clients : FoundBy(c) # NoSession => Told(FoundBy(c), "registered")
    <3>1. /\ \A s \in Sessions : ~Does(s, "created")
          /\ \A t \in Threads, s \in Sessions : ~Ending(t, s) /\ ~Announces(t, s) /\ ~Inside(t, s)
      BY <2>1 DEF Does, Ending, Announces, IsClosing, Inside, Threads
    <3>2. \A s \in Sessions : Told(s, "created") <=> conn[s] # "new"
      BY <1>1, <3>1 DEF Rest, TellInv
    <3>3. \A s \in Sessions : Told(s, "destroyed") => shut[s]
      BY <1>1 DEF Rest, OnceInv, Gone
    <3>4. \A s \in Sessions : shut[s] => Told(s, "destroyed")
      BY <1>1, <3>1 DEF Rest, TellInv
    <3>5. \A s \in Sessions : Told(s, "created") /\ ~Told(s, "destroyed") <=> s \in Found
      BY <1>1, <3>2, <3>3, <3>4 DEF ManagerInv, Found
    <3>6. Found \subseteq Sessions
      BY <1>1 DEF Found, ServerTypeOK
    <3>7. \A c \in Clients, s \in Sessions : byClient[c] = s => Told(s, "registered")
      BY <1>1, <3>1 DEF Rest, TellInv
    <3>8. \A c \in Clients : FoundBy(c) # NoSession =>
            FoundBy(c) \in Sessions /\ FoundBy(c) = byClient[c]
      BY DEF FoundBy
    <3> QED BY <3>5, <3>6, <3>7, <3>8
  <2> QED BY <1>1, <2>1 DEF ListenerCatchesUp, Rest, TellInv, ToldOnce
<1> QED BY <1>1, ServerInvariant, PTL

-----------------------------------------------------------------------------
(* Closings are seen through.  Whoever makes closeOnce run is inside, and    *)
(* goes on from part to part without waiting; an event loop closes its own   *)
(* session after the loss of its connection only.                            *)

SeenInv ==
  /\ \A s \in Sessions : once[s] = "running" => \E t \in Threads : Inside(t, s)
  /\ \A s \in Sessions : Told(s, "destroyed") =>
       \/ conn[s] \in {"lost", "closed"}
       \/ \E t \in Threads : task[t].do = "hangup" /\ task[t].on = s
  /\ \A s \in Sessions : IsClosing(s) /\ task[s].on = s => conn[s] = "lost"
  /\ \A s \in Sessions : task[s].do = "bind" => task[s].on = s

\* What a step of a thread has to do for that.
KeepsSeeing(t) ==
  /\ \A u \in Threads : u # t => task'[u] = task[u]
  /\ \A x \in Sessions : once'[x] = "running" =>
       (once[x] = "running" /\ ~Inside(t, x)) \/ Inside(t, x)'
  /\ \A x \in Sessions : Told(x, "destroyed")' =>
       \/ conn'[x] \in {"lost", "closed"}
       \/ task'[t].do = "hangup" /\ task'[t].on = x
       \/ Told(x, "destroyed") /\ ~(task[t].do = "hangup" /\ task[t].on = x)
  /\ \A x \in Sessions : /\ conn[x] \in {"lost", "closed"} => conn'[x] \in {"lost", "closed"}
                         /\ x # t /\ conn[x] = "lost" => conn'[x] = "lost"
  /\ t \in Sessions =>
       /\ task'[t].do \in {"close", "remove", "destroyed", "hangup"} /\ task'[t].on = t
            => conn'[t] = "lost"
       /\ task'[t].do = "bind" => task'[t].on = t

LEMMA SeeingKeeps ==
  ASSUME SeenInv, NEW t \in Threads, KeepsSeeing(t)
  PROVE  SeenInv'
<1>1. ASSUME NEW x \in Sessions, once'[x] = "running" PROVE \E u \in Threads : Inside(u, x)'
  <2>1. CASE Inside(t, x)'
    BY <2>1
  <2>2. CASE once[x] = "running" /\ ~Inside(t, x)
    <3>1. PICK u \in Threads : Inside(u, x)
      BY <2>2 DEF SeenInv
    <3>2. task'[u] = task[u]
      BY <2>2, <3>1 DEF KeepsSeeing
    <3> QED BY <3>1, <3>2 DEF Inside
  <2> QED BY <1>1, <2>1, <2>2 DEF KeepsSeeing
<1>2. ASSUME NEW x \in Sessions, Told(x, "destroyed")'
      PROVE  \/ conn'[x] \in {"lost", "closed"}
             \/ \E u \in Threads : task'[u].do = "hangup" /\ task'[u].on = x
  <2>1. CASE Told(x, "destroyed") /\ ~(task[t].do = "hangup" /\ task[t].on = x)
    <3>1. CASE conn[x] \in {"lost", "closed"}
      BY <3>1 DEF KeepsSeeing
    <3>2. CASE conn[x] \notin {"lost", "closed"}
      <4>1. PICK u \in Threads : task[u].do = "hangup" /\ task[u].on = x
        BY <2>1, <3>2 DEF SeenInv
      <4>2. task'[u] = task[u]
        BY <2>1, <4>1 DEF KeepsSeeing
      <4> QED BY <4>1, <4>2
    <3> QED BY <3>1, <3>2
  <2> QED BY <1>2, <2>1 DEF KeepsSeeing
<1>3. ASSUME NEW x \in Sessions
      PROVE  /\ IsClosing(x)' /\ task'[x].on = x => conn'[x] = "lost"
             /\ task'[x].do = "bind" => task'[x].on = x
  <2>1. CASE x = t
    BY <2>1 DEF KeepsSeeing, IsClosing
  <2>2. CASE x # t
    <3>1. x \in Threads /\ task'[x] = task[x] /\ (conn[x] = "lost" => conn'[x] = "lost")
      BY <2>2 DEF KeepsSeeing, Threads
    <3> QED BY <3>1 DEF SeenInv, IsClosing
  <2> QED BY <2>1, <2>2
<1> QED BY <1>1, <1>2, <1>3 DEF SeenInv

LEMMA NobodySees == ASSUME SeenInv, NobodyMoves PROVE SeenInv'
<1>1. /\ UNCHANGED <<task, once, heard>>
      /\ \A s \in Sessions : \/ conn'[s] = conn[s]
                             \/ conn[s] = "open" /\ conn'[s] = "lost"
  BY DEF NobodyMoves
<1>2. \A s \in Sessions : Told(s, "destroyed")' <=> Told(s, "destroyed")
  BY <1>1 DEF Told
<1>3. \A s \in Sessions : once'[s] = "running" => \E t \in Threads : Inside(t, s)'
  BY <1>1 DEF SeenInv, Inside
<1>4. \A s \in Sessions : Told(s, "destroyed")' =>
        \/ conn'[s] \in {"lost", "closed"}
        \/ \E t \in Threads : task'[t].do = "hangup" /\ task'[t].on = s
  BY <1>1, <1>2 DEF SeenInv
<1>5. \A s \in Sessions : IsClosing(s)' /\ task'[s].on = s => conn'[s] = "lost"
  BY <1>1 DEF SeenInv, IsClosing
<1> QED BY <1>1, <1>3, <1>4, <1>5 DEF SeenInv

LEMMA OpenSees ==
  ASSUME ServerTypeOK, ManagerInv, SeenInv, NEW s \in Sessions, OnOpen(s)
  PROVE  SeenInv'
<1> DEFINE next == IF shut[s] THEN Idle ELSE [do |-> "created", on |-> s]
<1>1. /\ s \in Threads /\ task[s].do = "idle" /\ conn[s] = "new"
      /\ conn' = [conn EXCEPT ![s] = "open"] /\ Goto(s, next) /\ UNCHANGED <<once, heard>>
  BY DEF OnOpen, ManagerInv, Does, Threads
<1>2. next.do \in {"idle", "created"}
  BY DEF Idle
<1> HIDE DEF next
<1>3. task'[s] = next /\ \A u \in Threads : u # s => task'[u] = task[u]
  BY <1>1, GotoOnly
<1>4. \A x \in Sessions : x # s => conn'[x] = conn[x]
  BY <1>1 DEF ServerTypeOK
<1>5. \A x \in Sessions : Told(x, "destroyed")' <=> Told(x, "destroyed")
  BY <1>1 DEF Told
<1>6. KeepsSeeing(s)
  BY <1>1, <1>2, <1>3, <1>4, <1>5 DEF KeepsSeeing, Inside
<1> QED BY <1>1, <1>6, SeeingKeeps

\* A thread starts a closing or a binding, and its task is not of a closing yet.
LEMMA StartSees ==
  ASSUME ServerTypeOK, SeenInv, NEW t \in Threads, NEW next, Goto(t, next),
         task[t].do \notin {"remove", "destroyed", "hangup"},
         UNCHANGED <<conn, once>>,
         \A x \in Sessions : Told(x, "destroyed")' => Told(x, "destroyed"),
         t \in Sessions =>
           /\ next.do \in {"close", "remove", "destroyed", "hangup"} /\ next.on = t
                => conn[t] = "lost"
           /\ next.do = "bind" => next.on = t
  PROVE  SeenInv'
<1>1. task'[t] = next /\ \A u \in Threads : u # t => task'[u] = task[u]
  BY GotoOnly
<1>2. KeepsSeeing(t)
  BY <1>1 DEF KeepsSeeing, Inside
<1> QED BY <1>2, SeeingKeeps

\* An event loop binds its own session, so the displaced one is another.
LEMMA BindSees ==
  ASSUME ServerTypeOK, ManagerInv, SeenInv, NEW t \in Threads, Bind(t)
  PROVE  SeenInv'
<1>1. task[t].do = "bind" /\ UNCHANGED <<conn, once, heard>>
  BY DEF Bind, Does
<1>2. \A x \in Sessions : Told(x, "destroyed")' => Told(x, "destroyed")
  BY <1>1 DEF Told
<1>3. \E next : /\ Goto(t, next)
                /\ next.do # "bind"
                /\ t \in Sessions =>
                     ~(next.do \in {"close", "remove", "destroyed", "hangup"} /\ next.on = t)
  <2>1. CASE task[t].on \notin bySession \/ shut[task[t].on]
    BY <2>1 DEF Bind, Idle
  <2>2. CASE ~(task[t].on \notin bySession \/ shut[task[t].on])
    <3> DEFINE s == task[t].on  old == byClient[task[t].id]
    <3>1. CASE old \in {NoSession, s}
      BY <2>2, <3>1 DEF Bind
    <3>2. CASE old \notin {NoSession, s}
      <4>1. Goto(t, [do |-> "close", on |-> old, then |-> s])
        BY <2>2, <3>2 DEF Bind
      <4>2. t \in Sessions => s = t
        BY <1>1 DEF SeenInv
      <4> QED BY <3>2, <4>1, <4>2
    <3> QED BY <3>1, <3>2
  <2> QED BY <2>1, <2>2
<1> QED BY <1>1, <1>2, <1>3, StartSees

\* A closing comes back to its caller.
LEMMA ReturnSees ==
  ASSUME ServerTypeOK, SeenInv, NEW t \in Threads, NEW s \in Sessions, s = task[t].on,
         IsClosing(t), Return(t), once'[s] # "running",
         \A x \in Sessions : x # s => once'[x] = once[x],
         task[t].do # "hangup", Told(s, "destroyed") \/ t = s,
         \A x \in Sessions : x # s => (Told(x, "destroyed")' => Told(x, "destroyed"))
  PROVE  SeenInv'
<1>1. /\ \A u \in Threads : u # t => task'[u] = task[u]
      /\ task'[t].do \in {"idle", "registered"}
  BY ReturnsTo DEF Return
<1>2. /\ \A x \in Sessions : x # t => conn'[x] = conn[x]
      /\ t = s => conn'[s] = "closed"
      /\ t # s => conn' = conn
  <2>1. conn' = IF t = s THEN [conn EXCEPT ![t] = "closed"] ELSE conn
    BY DEF Return
  <2> QED BY <2>1 DEF ServerTypeOK
<1>3. \A x \in Sessions : Inside(t, x) => x = s
  BY DEF Inside
<1>4. KeepsSeeing(t)
  BY <1>1, <1>2, <1>3 DEF KeepsSeeing
<1> QED BY <1>4, SeeingKeeps

LEMMA EnterSees ==
  ASSUME ServerTypeOK, OnceInv, SeenInv, NEW t \in Threads, Enter(t)
  PROVE  SeenInv'
<1>s. PICK s \in Sessions : s = task[t].on
  BY TaskFields DEF Enter, Does
<1>1. /\ task[t].do = "close" /\ IsClosing(t) /\ once[s] # "running" /\ heard' = heard
  BY <1>s DEF Enter, Does, IsClosing
<1>2. \A x \in Sessions : Told(x, "destroyed")' <=> Told(x, "destroyed")
  BY <1>1 DEF Told
<1>3. CASE once[s] = "idle"
  <2>1. /\ \A u \in Threads : u # t => task'[u] = task[u]
        /\ task'[t].do = "remove" /\ task'[t].on = s
    BY <1>s, <1>1, <1>3, GoesOnTo DEF Enter
  <2>2. /\ \A x \in Sessions : once'[x] = IF x = s THEN "running" ELSE once[x]
        /\ conn' = conn
    BY <1>s, <1>1, <1>3 DEF Enter, ServerTypeOK
  <2>3. Inside(t, s)' /\ \A x \in Sessions : ~Inside(t, x)
    BY <1>1, <2>1 DEF Inside
  <2>4. t \in Sessions /\ s = t => conn[t] = "lost"
    BY <1>s, <1>1 DEF SeenInv
  <2>5. KeepsSeeing(t)
    BY <1>1, <1>2, <2>1, <2>2, <2>3, <2>4 DEF KeepsSeeing
  <2> QED BY <2>5, SeeingKeeps
<1>4. CASE once[s] # "idle"
  <2>1. once' = once /\ Return(t) /\ once[s] = "done"
    BY <1>s, <1>1, <1>4 DEF Enter, ServerTypeOK
  <2>2. Told(s, "destroyed")
    BY <2>1 DEF OnceInv
  <2> QED BY <1>s, <1>1, <1>2, <2>1, <2>2, ReturnSees
<1> QED BY <1>3, <1>4

LEMMA RemoveSees ==
  ASSUME ServerTypeOK, SeenInv, NEW t \in Threads, Remove(t)
  PROVE  SeenInv'
<1>s. PICK s \in Sessions : s = task[t].on
  BY TaskFields DEF Remove, Does
<1>1. /\ task[t].do = "remove" /\ IsClosing(t) /\ UNCHANGED <<conn, once, heard>>
  BY DEF Remove, Does, IsClosing
<1>2. \A x \in Sessions : Told(x, "destroyed")' <=> Told(x, "destroyed")
  BY <1>1 DEF Told
<1>3. /\ \A u \in Threads : u # t => task'[u] = task[u]
      /\ task'[t].do = "destroyed" /\ task'[t].on = s
  BY <1>s, <1>1, GoesOnTo DEF Remove
<1>4. Inside(t, s)' /\ \A x \in Sessions : Inside(t, x) => x = s
  BY <1>s, <1>3 DEF Inside
<1>5. t \in Sessions /\ s = t => conn[t] = "lost"
  BY <1>s, <1>1 DEF SeenInv
<1>6. KeepsSeeing(t)
  BY <1>1, <1>2, <1>3, <1>4, <1>5 DEF KeepsSeeing
<1> QED BY <1>6, SeeingKeeps

LEMMA DestroyedSees ==
  ASSUME ServerTypeOK, SeenInv, NEW t \in Threads, Destroyed(t)
  PROVE  SeenInv'
<1>s. PICK s \in Sessions : s = task[t].on
  BY TaskFields DEF Destroyed, Does
<1>1. /\ task[t].do = "destroyed" /\ IsClosing(t) /\ Tell(s, "destroyed")
  BY <1>s DEF Destroyed, Does, IsClosing
<1>2. \A x \in Sessions : x # s => (Told(x, "destroyed")' => Told(x, "destroyed"))
  BY <1>1, Tells DEF Events
<1>3. CASE t = s
  <2>1. once' = [once EXCEPT ![s] = "done"] /\ Return(t)
    BY <1>s, <1>3 DEF Destroyed
  <2>2. once'[s] # "running" /\ \A x \in Sessions : x # s => once'[x] = once[x]
    BY <2>1 DEF ServerTypeOK
  <2> QED BY <1>s, <1>1, <1>2, <1>3, <2>1, <2>2, ReturnSees
<1>4. CASE t # s
  <2>1. Goto(t, [task[t] EXCEPT !.do = "hangup"]) /\ UNCHANGED <<conn, once>>
    BY <1>s, <1>4 DEF Destroyed
  <2>2. /\ \A u \in Threads : u # t => task'[u] = task[u]
        /\ task'[t].do = "hangup" /\ task'[t].on = s
    BY <1>s, <1>1, <2>1, GoesOnTo
  <2>3. Inside(t, s)' /\ \A x \in Sessions : Inside(t, x) => x = s
    BY <1>s, <2>2 DEF Inside
  <2>4. KeepsSeeing(t)
    BY <1>1, <1>2, <1>4, <2>1, <2>2, <2>3 DEF KeepsSeeing
  <2> QED BY <2>4, SeeingKeeps
<1> QED BY <1>3, <1>4

LEMMA HangUpSees ==
  ASSUME ServerTypeOK, ManagerInv, SeenInv, NEW t \in Threads, HangUp(t)
  PROVE  SeenInv'
<1>s. PICK s \in Sessions : s = task[t].on
  BY TaskFields DEF HangUp, Does
<1>1. /\ task[t].do = "hangup" /\ IsClosing(t) /\ heard' = heard
      /\ conn' = [conn EXCEPT ![s] = IF @ = "open" THEN "lost" ELSE @]
      /\ once' = [once EXCEPT ![s] = "done"]
  BY <1>s DEF HangUp, Does, IsClosing
<1>2. \A x \in Sessions : Told(x, "destroyed")' <=> Told(x, "destroyed")
  BY <1>1 DEF Told
<1>3. /\ \A u \in Threads : u # t => task'[u] = task[u]
      /\ task'[t].do \in {"idle", "registered"}
  BY <1>1, ReturnsTo DEF HangUp
<1>4. task[t].do # "idle"
  BY <1>1
<1>5. conn[s] # "new"
  BY <1>s, <1>4, BusyThread
<1>6. /\ conn'[s] \in {"lost", "closed"} /\ (conn[s] = "lost" => conn'[s] = "lost")
      /\ once'[s] = "done"
      /\ \A x \in Sessions : x # s => conn'[x] = conn[x] /\ once'[x] = once[x]
  BY <1>1, <1>5 DEF ServerTypeOK
<1>7. \A x \in Sessions : Inside(t, x) => x = s
  BY <1>s DEF Inside
<1>8. KeepsSeeing(t)
  BY <1>s, <1>1, <1>2, <1>3, <1>6, <1>7 DEF KeepsSeeing
<1> QED BY <1>8, SeeingKeeps

LEMMA SeenInit == ServerInit => SeenInv
<1> SUFFICES ASSUME ServerInit PROVE SeenInv
  OBVIOUS
<1>1. /\ \A t \in Threads : task[t].do = "idle"
      /\ \A s \in Sessions : once[s] = "idle" /\ heard[s] = <<>>
      /\ \A s \in Sessions : s \in Threads
  BY DEF ServerInit, Idle, Threads
<1>2. \A s \in Sessions : ~Told(s, "destroyed")
  <2> SUFFICES ASSUME NEW s \in Sessions PROVE ~Told(s, "destroyed")
    OBVIOUS
  <2>1. DOMAIN heard[s] = {}
    <3>1. heard[s] = <<>>
      BY <1>1
    <3>2. DOMAIN <<>> = {}
      OBVIOUS
    <3> QED BY <3>1, <3>2
  <2> QED BY <2>1 DEF Told
<1> QED BY <1>1, <1>2 DEF SeenInv, IsClosing

LEMMA SeenStep ==
  ASSUME ServerTypeOK, ManagerInv, Rest, SeenInv, [ServerNext]_serverVars
  PROVE  SeenInv'
<1>1. ASSUME NEW s \in Sessions, OnClose(s) PROVE SeenInv'
  <2> DEFINE next == [do |-> "close", on |-> s, then |-> NoSession]
  <2>1. /\ s \in Threads /\ Goto(s, next) /\ task[s].do = "idle" /\ conn[s] = "lost"
        /\ UNCHANGED <<conn, once, heard>>
    BY <1>1 DEF OnClose, Does, Threads
  <2>2. \A x \in Sessions : Told(x, "destroyed")' => Told(x, "destroyed")
    BY <2>1 DEF Told
  <2>3. next.do # "bind"
    OBVIOUS
  <2> HIDE DEF next
  <2> QED BY <2>1, <2>2, <2>3, StartSees
<1>2. ASSUME NEW t \in Threads, NEW s \in Sessions, Sweep(t, s) PROVE SeenInv'
  <2> DEFINE next == [do |-> "close", on |-> s, then |-> NoSession]
  <2>1. /\ t \notin Sessions /\ Goto(t, next) /\ task[t].do = "idle"
        /\ UNCHANGED <<conn, once, heard>>
    BY <1>2, ServerAssumption DEF Sweep, Does
  <2>2. \A x \in Sessions : Told(x, "destroyed")' => Told(x, "destroyed")
    BY <2>1 DEF Told
  <2> HIDE DEF next
  <2> QED BY <2>1, <2>2, StartSees
<1>3. ASSUME NEW t \in Threads, NEW s \in Sessions, NEW c \in Clients, Dispatch(t, s, c)
      PROVE  SeenInv'
  <2> DEFINE next == [do |-> "bind", on |-> s, id |-> c]
  <2>1. /\ (t \in Sessions => t = s) /\ Goto(t, next) /\ task[t].do = "idle"
        /\ UNCHANGED <<conn, once, heard>>
    BY <1>3, ServerAssumption DEF Dispatch, Does
  <2>2. \A x \in Sessions : Told(x, "destroyed")' => Told(x, "destroyed")
    BY <2>1 DEF Told
  <2>3. next.do = "bind" /\ next.on = s
    OBVIOUS
  <2> HIDE DEF next
  <2> QED BY <2>1, <2>2, <2>3, StartSees
<1>4. ASSUME NEW t \in Threads, Created(t) \/ Registered(t) PROVE SeenInv'
  <2>1. /\ Goto(t, Idle) /\ task[t].do \in {"created", "registered"} /\ UNCHANGED <<conn, once>>
        /\ Tell(task[t].on, "created") \/ Tell(task[t].on, "registered")
    BY <1>4 DEF Created, Registered, Does
  <2>2. PICK s \in Sessions : s = task[t].on
    BY <2>1, TaskFields
  <2>3. \A x \in Sessions : Told(x, "destroyed")' => Told(x, "destroyed")
    BY <2>1, <2>2, Tells DEF Events
  <2>4. Idle.do = "idle"
    BY DEF Idle
  <2> QED BY <2>1, <2>3, <2>4, StartSees
<1>5. ASSUME NEW s \in Sessions, Lost(s) PROVE SeenInv'
  BY <1>5, NobodySteps, NobodySees
<1>6. CASE Shutdown \/ EngineStopped \/ ShutdownTimesOut \/ UNCHANGED serverVars
  BY <1>6, NobodySteps, NobodySees
<1>7. ASSUME NEW t \in Threads, ThreadStep(t) PROVE SeenInv'
  BY <1>4, <1>7, BindSees, EnterSees, RemoveSees, DestroyedSees, HangUpSees DEF ThreadStep, Rest
<1> QED BY <1>1, <1>2, <1>3, <1>5, <1>6, <1>7, OpenSees DEF ServerNext

\* Whoever waits for the closeOnce of a session waits for exactly one thread, which
\* waits for nobody; every session marked closed is reported and hung up by a
\* thread on its way to it, or was, for any number of sessions and of goroutines.
THEOREM ClosingsAreSeenThrough == ServerSpec => []ClosingsSeenThrough
<1>1. ASSUME OnceInv, TellInv, SeenInv PROVE ClosingsSeenThrough
  <2>1. \A s \in Sessions : once[s] = "running" =>
          \E t \in Threads : Inside(t, s) /\ \A u \in Threads : Inside(u, s) => u = t
    BY <1>1 DEF SeenInv, OnceInv
  <2>2. \A s \in Sessions : shut[s] => Told(s, "destroyed") \/ \E t \in Threads : Ending(t, s)
    BY <1>1 DEF TellInv
  <2>3. \A s \in Sessions : Told(s, "destroyed") =>
          \/ conn[s] \in {"lost", "closed"}
          \/ \E t \in Threads : Does(t, "hangup") /\ task[t].on = s
    BY <1>1 DEF SeenInv, Does
  <2> QED BY <2>1, <2>2, <2>3 DEF ClosingsSeenThrough
<1>2. ServerInit => SeenInv
  BY SeenInit
<1>3. (ServerTypeOK /\ ManagerInv /\ Rest) /\ SeenInv /\ [ServerNext]_serverVars => SeenInv'
  BY SeenStep
<1>4. ServerTypeOK /\ ManagerInv /\ Rest => OnceInv /\ TellInv
  BY DEF Rest
<1> QED BY <1>1, <1>2, <1>3, <1>4, ServerInvariant, PTL DEF ServerSpec
=============================================================================
