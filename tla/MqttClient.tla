------------------------------ MODULE MqttClient ------------------------------
(***************************************************************************)
(* mqttx.Client: which topics are subscribed at the broker, across lost    *)
(* connections.  paho (external) connects and reconnects by itself, starts *)
(* a goroutine for every OnConnect and OnConnectionLost, refuses to        *)
(* subscribe while it reconnects, although IsConnected says yes, and asks  *)
(* for clean sessions: the broker forgets a lost connection.               *)
(*                                                                         *)
(* A goroutine is the OnConnect callback of a connection, named by the     *)
(* number of the connection, or a caller of AddHandler.                    *)
(***************************************************************************)
EXTENDS Naturals

CONSTANTS
  Topics,
  Configured,      \* SubscribeTopics of the configuration
  ReadyTopic,      \* the topic for which onReady adds a handler
  Adders,          \* goroutines that call AddHandler
  Nothing,
  MaxConnections

ASSUME MqttAssumption == /\ MaxConnections \in Nat \ {0} /\ Configured \subseteq Topics
                         /\ ReadyTopic \in Topics
                         /\ Adders \cap (1..MaxConnections) = {}

VARIABLES
  link,        \* paho's connection
  connections, \* how many there have been
  granted,     \* the subscriptions the broker has for this connection
  refused,     \* whether it has refused or not answered one on this connection
  losses,      \* OnConnectionLost goroutines that have not taken the mutex
  overtaken,   \* history: this connection came up before one of them had
  handlers,    \* topics of the handler manager
  subscribed,  \* the set the client keeps
  asked,       \* the subscription for whose answer the mutex is held, or Nothing
  ready,       \* whether onReady has been called
  work         \* what every goroutine is doing

network == <<link, connections, granted, refused, losses, overtaken>>
mqttVars == <<network, handlers, subscribed, asked, ready, work>>

Callbacks == 1..MaxConnections
Goroutines == Callbacks \cup Adders

WorkType == [at : {"idle", "start", "check", "list", "subscribe", "end"},
             todo : SUBSET Topics, next : {"list", "end"}]
Asks == [by : Goroutines, topic : Topics, conn : Callbacks, granted : BOOLEAN]

ASSUME NothingAssumption == Nothing \notin Asks

MqttTypeOK ==
  /\ link \in {"connecting", "up", "down", "closed"}
  /\ connections \in 0..MaxConnections
  /\ granted \subseteq Topics /\ refused \in BOOLEAN /\ losses \in 0..MaxConnections
  /\ overtaken \in BOOLEAN
  /\ handlers \subseteq Topics /\ subscribed \subseteq Topics
  /\ asked \in {Nothing} \cup Asks
  /\ ready \in BOOLEAN
  /\ work \in [Goroutines -> WorkType]

MqttInit ==
  /\ link = "connecting" /\ connections = 0 /\ granted = {} /\ refused = FALSE /\ losses = 0
  /\ overtaken = FALSE
  /\ handlers = {} /\ subscribed = {} /\ asked = Nothing /\ ready = FALSE
  /\ work = [g \in Goroutines |-> [at |-> "idle", todo |-> {}, next |-> "end"]]

At(g, place) == work[g].at = place
Becoming(g, place, topics, then) ==
  work' = [work EXCEPT ![g] = [at |-> place, todo |-> topics, next |-> then]]
MutexFree == asked = Nothing

-----------------------------------------------------------------------------
(* paho. *)

\* paho starts the goroutine of a loss and that of the next connection without
\* waiting for either, so this one may overtake the other.
Connected ==
  /\ link \in {"connecting", "down"} /\ connections < MaxConnections
  /\ link' = "up" /\ connections' = connections + 1
  /\ granted' = {} /\ refused' = FALSE /\ overtaken' = (losses > 0)
  /\ Becoming(connections + 1, "start", {}, "end")
  /\ UNCHANGED <<losses, handlers, subscribed, asked, ready>>

ConnectionLost ==
  /\ link = "up"
  /\ link' = "down" /\ losses' = losses + 1
  /\ UNCHANGED <<connections, granted, refused, overtaken, handlers, subscribed, asked, ready, work>>

\* Mutant: the set is kept.
OnConnectionLostKeeps ==
  /\ losses > 0 /\ MutexFree
  /\ losses' = losses - 1
  /\ UNCHANGED <<link, connections, granted, refused, overtaken, handlers, subscribed, asked, ready, work>>

OnConnectionLost ==
  /\ losses > 0 /\ MutexFree
  /\ losses' = losses - 1 /\ subscribed' = {}
  /\ UNCHANGED <<link, connections, granted, refused, overtaken, handlers, asked, ready, work>>

-----------------------------------------------------------------------------
(* onConnect, AddHandler and restoreSubscriptions. *)

AddTopic(g, t, then) == handlers' = handlers \cup {t} /\ Becoming(g, "check", {t}, then)

\* Mutant: only the first connection is looked after.
OnConnectFirstOnly(n) ==
  /\ At(n, "start") /\ ready' = TRUE
  /\ IF ready THEN Becoming(n, "end", {}, "end") /\ UNCHANGED handlers
              ELSE AddTopic(n, ReadyTopic, "list")
  /\ UNCHANGED <<network, subscribed, asked>>

\* The first callback calls onReady, which adds a handler.
OnConnect(n) ==
  /\ At(n, "start") /\ ready' = TRUE
  /\ IF ready THEN Becoming(n, "list", {}, "end") /\ UNCHANGED handlers
              ELSE AddTopic(n, ReadyTopic, "list")
  /\ UNCHANGED <<network, subscribed, asked>>

\* NewClient has returned, so there has been a connection.
AddHandler(a, t) ==
  /\ At(a, "idle") /\ connections > 0
  /\ AddTopic(a, t, "end")
  /\ UNCHANGED <<network, subscribed, asked, ready>>

\* needSubscribe under the mutex, and IsConnected.
Check(g) ==
  /\ At(g, "check") /\ MutexFree
  /\ Becoming(g, "subscribe", IF link = "closed" THEN {} ELSE work[g].todo \ subscribed,
              work[g].next)
  /\ UNCHANGED <<network, handlers, subscribed, asked, ready>>

\* What is to be restored.
List(n) ==
  /\ At(n, "list")
  /\ Becoming(n, "subscribe", handlers \cup Configured, "end")
  /\ UNCHANGED <<network, handlers, subscribed, asked, ready>>

\* Nothing more to subscribe.
EndOfList(g) ==
  /\ At(g, "subscribe") /\ work[g].todo = {} /\ (~MutexFree => asked.by # g)
  /\ Becoming(g, work[g].next, {}, "end")
  /\ UNCHANGED <<network, handlers, subscribed, asked, ready>>

-----------------------------------------------------------------------------
(* subscribe, which holds the mutex until there is an answer. *)

\* A topic of the set is left alone, and paho refuses without a connection.
SubscribeTopic(g, t) ==
  /\ At(g, "subscribe") /\ t \in work[g].todo /\ MutexFree
  /\ Becoming(g, "subscribe", work[g].todo \ {t}, work[g].next)
  /\ asked' = IF t \in subscribed \/ link # "up" THEN Nothing
              ELSE [by |-> g, topic |-> t, conn |-> connections, granted |-> FALSE]
  /\ UNCHANGED <<network, handlers, subscribed, ready>>

SameConnection == link = "up" /\ asked.conn = connections

\* The broker grants the subscription.
Grant ==
  /\ ~MutexFree /\ ~asked.granted /\ SameConnection
  /\ granted' = granted \cup {asked.topic} /\ asked' = [asked EXCEPT !.granted = TRUE]
  /\ UNCHANGED <<link, connections, refused, losses, overtaken, handlers, subscribed, ready, work>>

\* The answer is there: the topic joins the set, whatever has become of the
\* connection since.
Subscribed ==
  /\ ~MutexFree /\ asked.granted
  /\ subscribed' = subscribed \cup {asked.topic} /\ asked' = Nothing
  /\ UNCHANGED <<network, handlers, ready, work>>

\* Refused, no answer in time, or the connection is lost before the answer.
SubscribeFails ==
  /\ ~MutexFree /\ ~asked.granted
  /\ refused' = (refused \/ SameConnection) /\ asked' = Nothing
  /\ UNCHANGED <<link, connections, granted, losses, overtaken, handlers, subscribed, ready, work>>

Close ==
  /\ link # "closed" /\ connections > 0 /\ MutexFree
  /\ link' = "closed" /\ subscribed' = {}
  /\ UNCHANGED <<connections, granted, refused, losses, overtaken, handlers, asked, ready, work>>

GoroutineStep(g) == \/ g \in Callbacks /\ (OnConnect(g) \/ List(g))
                    \/ Check(g) \/ EndOfList(g) \/ \E t \in Topics : SubscribeTopic(g, t)
Answer == Subscribed \/ SubscribeFails

MqttNext ==
  \/ Connected \/ ConnectionLost \/ OnConnectionLost \/ Grant \/ Answer \/ Close
  \/ \E g \in Goroutines : GoroutineStep(g)
  \/ \E a \in Adders, t \in Topics : AddHandler(a, t)

MqttSpec == MqttInit /\ [][MqttNext]_mqttVars

\* Goroutines go on and paho ends every wait; nobody takes the mutex for ever.
MqttFairness ==
  /\ \A g \in Goroutines : WF_mqttVars(GoroutineStep(g))
  /\ WF_mqttVars(OnConnectionLost)
  /\ WF_mqttVars(Answer)

-----------------------------------------------------------------------------
(* Properties. *)

\* When the callbacks are through (Quiet) and no handler is being added, every topic
\* that has a handler or is configured is subscribed on the connection there is,
\* unless the broker refused one or the connection has overtaken the loss of one
\* before it: the set never claims a subscription of a lost connection.  This holds
\* of the next connection again, whatever an overtaken one has left behind.
Quiet == losses = 0 /\ MutexFree /\ \A g \in Goroutines : At(g, "idle") \/ At(g, "end")

HandlersSubscribed ==
  Quiet /\ link = "up" /\ ~refused /\ ~overtaken => handlers \cup Configured \subseteq granted

\* The last connection, which stays, has its subscriptions some time, whoever
\* takes the mutex before: nobody waits for it for ever.
SubscriptionsRestored ==
  <>[](link = "up" /\ ~refused /\ ~overtaken => Configured \subseteq granted)

\* "Restores all subscriptions after the connection is back" (client.go:262), also
\* when the restoration comes before the loss has emptied the set.
RestoredAfterReconnect ==
  Quiet /\ link = "up" /\ ~refused => handlers \cup Configured \subseteq granted
=============================================================================
