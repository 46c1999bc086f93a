------------------------------- MODULE Emitter -------------------------------
(***************************************************************************)
(* antsx.EventEmitter, one topic of it: Emit, Subscribe, cancel and Close  *)
(* over the streams of the subscribers.  Go panics when a value is sent on *)
(* a closed channel, so a subscriber has a mutex that excludes the two,    *)
(* and send holds it while it waits for room in the stream.                *)
(*                                                                         *)
(* A thread is a call of Emit, named by its value, the cancel of a         *)
(* subscription, named by the subscriber (its further callers wait in      *)
(* cancelOnce), or Close.                                                  *)
(***************************************************************************)
EXTENDS Naturals, Sequences

CONSTANTS
  Values,    \* one call of Emit each
  Subs,      \* one call of Subscribe each
  Closer,    \* the call of Close
  Nobody,
  BufSize    \* the capacity of a stream

ASSUME EmitterAssumption == /\ BufSize \in Nat \ {0}
                            /\ Values \cap Subs = {} /\ Closer \notin Values \cup Subs
                            /\ Nobody \notin Values

VARIABLES
  emClosed,   \* the closed flag of the emitter
  topic,      \* the subscribers of the topic
  joined,     \* who has subscribed
  mutex,      \* who holds the mutex of every subscriber
  stopped,    \* the closed flag of every subscriber
  stopOnce,   \* its once
  items,      \* how many values its stream holds
  itemsClosed, \* whether the writer has closed the stream
  reader,     \* what the reader of every stream is doing: "left" is one that
              \* has stopped reading and not closed its end
  call,       \* what every thread is doing
  due,        \* the subscribers that may expect a value
  put         \* those whose stream it was put into

streams == <<items, itemsClosed>>
emitterVars == <<emClosed, topic, joined, mutex, stopped, stopOnce, streams, reader, call, due, put>>

EmThreads == Values \cup Subs \cup {Closer}

EmitterTypeOK ==
  /\ emClosed \in BOOLEAN
  /\ topic \in Seq(Subs) /\ joined \subseteq Subs
  /\ mutex \in [Subs -> Values \cup {Nobody}]
  /\ stopped \in [Subs -> BOOLEAN] /\ stopOnce \in [Subs -> {"idle", "running", "done"}]
  /\ items \in [Subs -> 0..BufSize] /\ itemsClosed \in [Subs -> BOOLEAN]
  /\ reader \in [Subs -> {"reading", "left", "closed", "ended"}]
  /\ call \in [EmThreads -> [at : {"idle", "send", "sending", "stop", "closing", "end"},
                             todo : Seq(Subs)]]
  /\ due \in [Values -> SUBSET Subs] /\ put \in [Values -> SUBSET Subs]

EmitterInit ==
  /\ emClosed = FALSE /\ topic = <<>> /\ joined = {}
  /\ mutex = [s \in Subs |-> Nobody] /\ stopped = [s \in Subs |-> FALSE]
  /\ stopOnce = [s \in Subs |-> "idle"]
  /\ items = [s \in Subs |-> 0] /\ itemsClosed = [s \in Subs |-> FALSE]
  /\ reader = [s \in Subs |-> "reading"]
  /\ call = [t \in EmThreads |-> [at |-> "idle", todo |-> <<>>]]
  /\ due = [v \in Values |-> {}] /\ put = [v \in Values |-> {}]

CallAt(t, place) == call[t].at = place
First(t) == Head(call[t].todo)
Moves(t, place, list) == call' = [call EXCEPT ![t] = [at |-> place, todo |-> list]]
\* On to the next subscriber of the list.
Next1(t, place) == LET rest == Tail(call[t].todo) IN
  Moves(t, IF rest = <<>> THEN "end" ELSE place, rest)
Begin(t, place, list) == Moves(t, IF list = <<>> THEN "end" ELSE place, list)

-----------------------------------------------------------------------------
(* Subscribe, cancel and Close up to the unlock of the emitter. *)

\* A closed emitter gives a reader that ends at once.
Subscribe(s) ==
  /\ s \notin joined /\ s = CHOOSE q \in Subs \ joined : TRUE
  /\ joined' = joined \cup {s}
  /\ IF emClosed
     THEN /\ stopped' = [stopped EXCEPT ![s] = TRUE] /\ stopOnce' = [stopOnce EXCEPT ![s] = "done"]
          /\ itemsClosed' = [itemsClosed EXCEPT ![s] = TRUE] /\ UNCHANGED topic
     ELSE topic' = Append(topic, s) /\ UNCHANGED <<stopped, stopOnce, itemsClosed>>
  /\ UNCHANGED <<emClosed, mutex, items, reader, call, due, put>>

\* Mutant: whoever subscribed last is taken out of the topic.
CancelLast(s) ==
  /\ s \in joined /\ CallAt(s, "idle")
  /\ topic' = IF \E i \in 1..Len(topic) : topic[i] = s
              THEN SubSeq(topic, 1, Len(topic) - 1) ELSE topic
  /\ Begin(s, "stop", <<s>>)
  /\ UNCHANGED <<emClosed, joined, mutex, stopped, stopOnce, streams, reader, due, put>>

\* By its caller or at the end of the context.
Cancel(s) ==
  /\ s \in joined /\ CallAt(s, "idle")
  /\ \/ \E i \in 1..Len(topic) :
          topic[i] = s /\ topic' = SubSeq(topic, 1, i - 1) \o SubSeq(topic, i + 1, Len(topic))
     \/ (\A i \in 1..Len(topic) : topic[i] # s) /\ UNCHANGED topic
  /\ Begin(s, "stop", <<s>>)
  /\ UNCHANGED <<emClosed, joined, mutex, stopped, stopOnce, streams, reader, due, put>>

CloseEmitter ==
  /\ ~emClosed /\ emClosed' = TRUE
  /\ topic' = <<>> /\ Begin(Closer, "stop", topic)
  /\ UNCHANGED <<joined, mutex, stopped, stopOnce, streams, reader, due, put>>

-----------------------------------------------------------------------------
(* Emit and send. *)

Emit(v) ==
  /\ CallAt(v, "idle") /\ v = CHOOSE w \in Values : CallAt(w, "idle")
  /\ Begin(v, "send", topic)
  /\ due' = [due EXCEPT ![v] = IF emClosed THEN {} ELSE {s \in joined : CallAt(s, "idle")}]
  /\ UNCHANGED <<emClosed, topic, joined, mutex, stopped, stopOnce, streams, reader, put>>

\* A subscriber that was stopped is passed over, and so is one whose reader has
\* closed its end (the first select of stream.send).
Lock(v) ==
  LET s == First(v) IN
  /\ CallAt(v, "send") /\ mutex[s] = Nobody
  /\ IF stopped[s] \/ reader[s] = "closed"
     THEN Next1(v, "send") /\ UNCHANGED mutex
     ELSE Moves(v, "sending", call[v].todo) /\ mutex' = [mutex EXCEPT ![s] = v]
  /\ UNCHANGED <<emClosed, topic, joined, stopped, stopOnce, streams, reader, due, put>>

\* There is room in the stream (the second select of stream.send) ...
Put(v) ==
  LET s == First(v) IN
  /\ CallAt(v, "sending") /\ items[s] < BufSize
  /\ items' = [items EXCEPT ![s] = @ + 1] /\ put' = [put EXCEPT ![v] = @ \cup {s}]
  /\ mutex' = [mutex EXCEPT ![s] = Nobody] /\ Next1(v, "send")
  /\ UNCHANGED <<emClosed, topic, joined, stopped, stopOnce, itemsClosed, reader, due>>

\* ... or the reader closes its end.  When both hold Go picks either.
SendRefused(v) ==
  LET s == First(v) IN
  /\ CallAt(v, "sending") /\ reader[s] = "closed"
  /\ mutex' = [mutex EXCEPT ![s] = Nobody] /\ Next1(v, "send")
  /\ UNCHANGED <<emClosed, topic, joined, stopped, stopOnce, streams, reader, due, put>>

-----------------------------------------------------------------------------
(* stop. *)

EnterStop(t) ==
  LET s == First(t) IN
  /\ CallAt(t, "stop") /\ stopOnce[s] # "running"
  /\ IF stopOnce[s] = "idle"
     THEN stopOnce' = [stopOnce EXCEPT ![s] = "running"] /\ Moves(t, "closing", call[t].todo)
     ELSE UNCHANGED stopOnce /\ Next1(t, "stop")
  /\ UNCHANGED <<emClosed, topic, joined, mutex, stopped, streams, reader, due, put>>

\* Mutant: without the mutex.
StopUnlocked(t) ==
  LET s == First(t) IN
  /\ CallAt(t, "closing")
  /\ stopped' = [stopped EXCEPT ![s] = TRUE] /\ itemsClosed' = [itemsClosed EXCEPT ![s] = TRUE]
  /\ stopOnce' = [stopOnce EXCEPT ![s] = "done"] /\ Next1(t, "stop")
  /\ UNCHANGED <<emClosed, topic, joined, mutex, items, reader, due, put>>

\* Mutant: the stream is not closed.
StopFlagOnly(t) ==
  LET s == First(t) IN
  /\ CallAt(t, "closing") /\ mutex[s] = Nobody
  /\ stopped' = [stopped EXCEPT ![s] = TRUE] /\ UNCHANGED itemsClosed
  /\ stopOnce' = [stopOnce EXCEPT ![s] = "done"] /\ Next1(t, "stop")
  /\ UNCHANGED <<emClosed, topic, joined, mutex, items, reader, due, put>>

Stop(t) ==
  LET s == First(t) IN
  /\ CallAt(t, "closing") /\ mutex[s] = Nobody
  /\ stopped' = [stopped EXCEPT ![s] = TRUE] /\ itemsClosed' = [itemsClosed EXCEPT ![s] = TRUE]
  /\ stopOnce' = [stopOnce EXCEPT ![s] = "done"] /\ Next1(t, "stop")
  /\ UNCHANGED <<emClosed, topic, joined, mutex, items, reader, due, put>>

-----------------------------------------------------------------------------
(* Readers. *)

Receive(s) ==
  /\ s \in joined /\ reader[s] = "reading" /\ items[s] > 0
  /\ items' = [items EXCEPT ![s] = @ - 1]
  /\ UNCHANGED <<emClosed, topic, joined, mutex, stopped, stopOnce, itemsClosed, reader, call, due, put>>

ReaderGoes(s, place) ==
  /\ reader' = [reader EXCEPT ![s] = place]
  /\ UNCHANGED <<emClosed, topic, joined, mutex, stopped, stopOnce, streams, call, due, put>>

EndOfStream(s) == reader[s] = "reading" /\ items[s] = 0 /\ itemsClosed[s] /\ ReaderGoes(s, "ended")

\* A reader that has what it wanted and returns; its deferred cancel is Cancel.
Leave(s) == s \in joined /\ reader[s] = "reading" /\ ReaderGoes(s, "left")

\* StreamReader.Close, by the reader or for it.
CloseReader(s) == s \in joined /\ reader[s] \in {"reading", "left"} /\ ReaderGoes(s, "closed")

EmStep(t) == \/ t \in Values /\ (Lock(t) \/ Put(t) \/ SendRefused(t))
             \/ t \in Subs \cup {Closer} /\ (EnterStop(t) \/ Stop(t))
Reads(s) == Receive(s) \/ EndOfStream(s)

EmitterNext ==
  \/ \E s \in Subs : Subscribe(s) \/ Cancel(s) \/ Reads(s) \/ Leave(s) \/ CloseReader(s)
  \/ \E v \in Values : Emit(v)
  \/ CloseEmitter
  \/ \E t \in EmThreads : EmStep(t)

EmitterSpec == EmitterInit /\ [][EmitterNext]_emitterVars

\* Every goroutine that can go on does, a reader as long as it has not left; no
\* reader has to close its end.  Each makes finitely many steps, so one
\* condition says it of all.
EmitterFairness ==
  WF_emitterVars((\E t \in EmThreads : EmStep(t)) \/ (\E s \in Subs : Reads(s)))

FairEmitterSpec == EmitterSpec /\ EmitterFairness

-----------------------------------------------------------------------------
(* Properties. *)

\* Nothing is ever sent on a closed channel: whoever is about to write holds
\* the mutex, and the stream is not closed in the meantime.
NoSendOnClosed ==
  \A v \in Values : CallAt(v, "sending") => ~itemsClosed[First(v)] /\ mutex[First(v)] = v

\* Waits form no ring: whoever waits for the once of a subscriber waits for a
\* call that is stopping it, whoever waits for its mutex waits for a send to it,
\* and that send waits for its reader, which has not come to the end.
WaitsEndAtReader ==
  /\ \A s \in Subs : stopOnce[s] = "running" =>
       \E t \in Subs \cup {Closer} : CallAt(t, "closing") /\ First(t) = s
  /\ \A s \in Subs : mutex[s] # Nobody =>
       CallAt(mutex[s], "sending") /\ First(mutex[s]) = s
  /\ \A v \in Values : CallAt(v, "sending") => First(v) \in joined /\ reader[First(v)] # "ended"

\* The mutex of a subscriber, which send holds while it waits and stop needs:
\* it keeps the close away from the write, and whoever waits for it waits for
\* a reader in the end.
EmitterLocks == NoSendOnClosed /\ WaitsEndAtReader

\* A value reaches every subscriber that was there when Emit was called, has
\* stayed and has not closed its reader, whoever else came and went meanwhile.
SubscribersServed ==
  \A v \in Values : CallAt(v, "end") =>
    \A s \in due[v] : CallAt(s, "idle") /\ ~emClosed /\ reader[s] # "closed" => s \in put[v]

\* Unless a reader has stopped reading and left its end open, every call of Emit,
\* cancel and Close returns, and after its cancel or the Close a reader comes to
\* the end of its stream.  Every thread makes one call, so this is: at last no
\* call is under way and no reader is left behind, or one has left for good.
EmitterSettles ==
  <>[](\/ \E s \in Subs : reader[s] = "left"
       \/ /\ \A t \in EmThreads : CallAt(t, "idle") \/ CallAt(t, "end")
          /\ \A s \in joined : reader[s] = "reading" => CallAt(s, "idle") /\ ~emClosed)

\* The comment of send (emitter.go:21): stop waits for a send for a bounded time
\* only, so that every cancel returns.
BoundedWaiting == \A s \in Subs : CallAt(s, "stop") ~> CallAt(s, "end")
=============================================================================
