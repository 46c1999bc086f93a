------------------------------ MODULE IecCommands ------------------------------
(***************************************************************************)
(* Control commands of an IEC 104 client that wait for the station's       *)
(* confirmation: Client.sendWithAck and ClientCall.onCommandAck over the   *)
(* ReplyPool of the client.  The key of a command is its target            *)
(* (coa:type:ioa), so every further command to that target uses it again,  *)
(* and a confirmation carries nothing else.                                *)
(*                                                                         *)
(* A station confirms a command it accepts twice, at its activation and at *)
(* its termination, and one it refuses once.  Confirmations are handled by *)
(* goroutines of a task runner, in any order.                              *)
(***************************************************************************)
EXTENDS ReplyPool

\* What a promise is settled with tells the reply of a request from everything else.
ASSUME CommandsAssumption == /\ Requests \cap ({None, "waiting", "closed"} \cup Errors) = {}
                             /\ None # "waiting"

VARIABLES
  cmd,      \* what every call of sendWithAck is doing, and its key
  station,  \* what the station has said to every command
  acks,     \* confirmations on the wire ("sent") or past the check of Has
  crossed   \* commands registered before the timer of an earlier entry of their
            \* target was removed (a history)

commandVars == <<cmd, station, acks, crossed, poolVars>>
callers == <<cmd, station, acks, crossed>>

Phases == {"con", "term", "refusal"}
CmdType == {[pc |-> "new"]} \cup
           [pc : {"inserted", "sending", "over"}, key : Keys]

CommandsTypeOK ==
  /\ cmd \in [Requests -> CmdType]
  /\ station \in [Requests -> {"idle", "asked", "active", "over"}]
  /\ acks \subseteq [req : Requests, phase : Phases, at : {"sent", "found"}]
  /\ crossed \subseteq Requests
  /\ PoolTypeOK

CommandsInit ==
  /\ cmd = [r \in Requests |-> [pc |-> "new"]]
  /\ station = [r \in Requests |-> "idle"] /\ acks = {} /\ crossed = {}
  /\ PoolInit

Pc(r, pc) == cmd[r].pc = pc
Becomes(r, pc) == cmd' = [cmd EXCEPT ![r].pc = pc]
CommandKey(r) == cmd[r].key

-----------------------------------------------------------------------------
(* sendWithAck. *)

\* Resolve and Reject have taken an entry of this target out and are about to
\* remove its timer, by key.
RemovalToCome(k) == \E t \in taken : t.key = k /\ t.how # "expired"

\* Commands are interchangeable until they are sent.  A closed pool and a target
\* that waits already refuse the command; nothing else is waited for.
Register(r, k) ==
  /\ Pc(r, "new") /\ r = CHOOSE q \in Requests : Pc(q, "new")
  /\ \/ /\ ~Accepts \/ Duplicate(k)
        /\ cmd' = [cmd EXCEPT ![r] = [pc |-> "over", key |-> k]]
        /\ UNCHANGED <<crossed, poolVars>>
     \/ /\ cmd' = [cmd EXCEPT ![r] = [pc |-> "inserted", key |-> k]] /\ Insert(r, k)
        /\ crossed' = IF RemovalToCome(k) THEN crossed \cup {r} ELSE crossed
  /\ UNCHANGED <<station, acks>>

StartTimer(r) ==
  /\ Pc(r, "inserted")
  /\ Becomes(r, IF WheelRuns THEN "sending" ELSE "over")
  /\ SetTimer(CommandKey(r))
  /\ UNCHANGED <<station, acks, crossed>>

\* The caller then waits for the promise or for its own context; the entry stays
\* whichever ends first.
DoSend(r) ==
  /\ Pc(r, "sending") /\ Becomes(r, "over")
  /\ station' = [station EXCEPT ![r] = "asked"]
  /\ UNCHANGED <<acks, crossed, poolVars>>

\* Not connected, a value of the wrong type, or the write fails: the entry stays.
DoSendFails(r) ==
  /\ Pc(r, "sending") /\ Becomes(r, "over")
  /\ UNCHANGED <<station, acks, crossed, poolVars>>

-----------------------------------------------------------------------------
(* The station and onCommandAck. *)

Confirm(r, phase) ==
  /\ \/ station[r] = "asked" /\ phase = "con" /\ station' = [station EXCEPT ![r] = "active"]
     \/ station[r] = "asked" /\ phase = "refusal" /\ station' = [station EXCEPT ![r] = "over"]
     \/ station[r] = "active" /\ phase = "term" /\ station' = [station EXCEPT ![r] = "over"]
  /\ acks' = acks \cup {[req |-> r, phase |-> phase, at |-> "sent"]}
  /\ UNCHANGED <<cmd, crossed, poolVars>>

\* The station says nothing more: it is gone, or the connection is.
Silence(r) ==
  /\ station[r] \in {"asked", "active"} /\ station' = [station EXCEPT ![r] = "over"]
  /\ UNCHANGED <<cmd, acks, crossed, poolVars>>

\* HasCommandAck; a confirmation nobody waits for is dropped.
OnCommandAck(a) ==
  /\ a \in acks /\ a.at = "sent"
  /\ acks' = (acks \ {a}) \cup (IF Duplicate(CommandKey(a.req))
                                THEN {[a EXCEPT !.at = "found"]} ELSE {})
  /\ UNCHANGED <<cmd, station, crossed, poolVars>>

\* ResolveCommandAck or RejectCommandAck up to the unlock.
ApplyAck(a) ==
  /\ a \in acks /\ a.at = "found"
  /\ acks' = acks \ {a}
  /\ TakeOut(CommandKey(a.req), IF a.phase = "refusal" THEN "failed" ELSE a.req)
  /\ UNCHANGED <<cmd, station, crossed, promise, wheel, closing>>

-----------------------------------------------------------------------------

PoolGoes(k) ==
  /\ Fire(k) \/ HandleTimeout(k) \/ \E t \in taken : t.key = k /\ Settle(t)
  /\ UNCHANGED callers

\* Client.Close as far as the pool is concerned.
ClosePool == (CloseMark \/ CloseStop \/ CloseReject) /\ UNCHANGED callers

CommandsNext ==
  \/ \E r \in Requests : \/ \E k \in Keys : Register(r, k)
                         \/ StartTimer(r) \/ DoSend(r) \/ DoSendFails(r) \/ Silence(r)
                         \/ \E phase \in Phases : Confirm(r, phase)
  \/ \E a \in acks : OnCommandAck(a) \/ ApplyAck(a)
  \/ \E k \in Keys : PoolGoes(k)
  \/ ClosePool

CommandsSpec == CommandsInit /\ [][CommandsNext]_commandVars

\* Timers and goroutines go on; nobody has to confirm, to cancel or to close.
CommandsFairness ==
  /\ \A k \in Keys : WF_commandVars(PoolGoes(k))
  /\ \A r \in Requests : WF_commandVars(StartTimer(r))

-----------------------------------------------------------------------------
(* Properties. *)

\* The entry of a target has a timer that runs or has fired, or is about to get
\* one.
HasTimer(k) == k \in timers \cup fired \/ Pc(pending[k], "inserted")

\* An entry is never left without a timer, which alone frees its target when no
\* confirmation comes, unless it was registered while the timer of an earlier
\* entry of the target was still to be removed.  Timers are known by the target
\* only and are set and removed outside the mutex.
EntriesExpire == \A k \in Keys : pending[k] \in crossed \cup {None} \/ HasTimer(k)

\* A target whose command could not be written, was given up or is never
\* confirmed is free again some time (a failed write leaves its entry behind),
\* with the same exception: when the last command is over, all are free.
TargetsFreed == <>[](\A k \in Keys : pending[k] \in crossed \cup {None})

\* "Rejected with ErrReplyExpired after the timeout" in the comment of Register
\* (replypool.go:166): no entry at all is left without a timer.
EveryEntryExpires == \A k \in Keys : pending[k] # None => HasTimer(k)

\* A command answers with what the station echoed of it (iec104-command.md:247):
\* it is reported as accepted on a confirmation of its own only.
OwnConfirmation ==
  \A r \in Requests : promise[r] \in Requests => promise[r] = r
=============================================================================
