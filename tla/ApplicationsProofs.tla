-------------------------- MODULE ApplicationsProofs --------------------------
(***************************************************************************)
(* Proofs about IecCommands, for any number of commands and targets: type  *)
(* correctness, the promise of the reply pool, and that every entry has a  *)
(* timer, but for those registered while a timer of their target is to be  *)
(* removed.  And the applications of MCApplications side by side keep      *)
(* their types.                                                            *)
(***************************************************************************)
EXTENDS MCApplications, MeetingRecordingProofs, ReplyPoolProofs

\* Something of the command is still on its way.
Underway(r) == \/ cmd[r].pc \in {"inserted", "sending"}
               \/ station[r] \in {"asked", "active"}
               \/ \E a \in acks : a.req = r

UnderwayInv == \A r \in Requests : Underway(r) => ~Pc(r, "new")

LEMMA CommandFields ==
  ASSUME NEW c \in CmdType, c.pc # "new"
  PROVE  /\ c.pc \in {"inserted", "sending", "over"} /\ c.key \in Keys
         /\ \A pc \in {"inserted", "sending", "over"} :
              /\ [c EXCEPT !.pc = pc] \in CmdType
              /\ [c EXCEPT !.pc = pc].pc = pc /\ [c EXCEPT !.pc = pc].key = c.key
BY DEF CmdType

-----------------------------------------------------------------------------
(* Type correctness. *)

LEMMA InitTypeOK == CommandsInit => CommandsTypeOK /\ UnderwayInv
BY DEF CommandsInit, PoolInit, CommandsTypeOK, PoolTypeOK, UnderwayInv, Underway, Pc, CmdType

\* A caller goes on: nothing new is underway but what it sends.
LEMMA CallerTypeOK ==
  ASSUME CommandsTypeOK, UnderwayInv, NEW r \in Requests, ~Pc(r, "new"), UNCHANGED acks,
         NEW pc \in {"sending", "over"}, Becomes(r, pc),
         station' = station \/ station' = [station EXCEPT ![r] = "asked"],
         UNCHANGED crossed, PoolTypeOK'
  PROVE  CommandsTypeOK' /\ UnderwayInv'
<1>1. cmd[r] \in CmdType /\ cmd[r].pc # "new"
  BY DEF CommandsTypeOK, Pc
<1>2. /\ cmd'[r] = [cmd[r] EXCEPT !.pc = pc]
      /\ \A q \in Requests : q # r => cmd'[q] = cmd[q]
  BY DEF Becomes, CommandsTypeOK
<1>3. cmd'[r] \in CmdType /\ cmd'[r].pc = pc
  <2>1. cmd[r] \in [pc : {"inserted", "sending", "over"}, key : Keys]
    BY <1>1 DEF CmdType
  <2>2. pc \in {"inserted", "sending", "over"}
    OBVIOUS
  <2>3. [cmd[r] EXCEPT !.pc = pc] \in CmdType /\ [cmd[r] EXCEPT !.pc = pc].pc = pc
    BY <2>1, <2>2 DEF CmdType
  <2> QED BY <1>2, <2>3
<1>4. cmd' \in [Requests -> CmdType]
  BY <1>2, <1>3 DEF Becomes, CommandsTypeOK
<1>5. CommandsTypeOK'
  <2>1. station' \in [Requests -> {"idle", "asked", "active", "over"}]
    BY DEF CommandsTypeOK
  <2> QED BY <1>4, <2>1 DEF CommandsTypeOK
<1>6. UnderwayInv'
  <2> SUFFICES ASSUME NEW q \in Requests, Underway(q)' PROVE cmd'[q].pc # "new"
    BY DEF UnderwayInv, Pc
  <2>1. CASE q = r
    BY <1>3, <2>1
  <2>2. CASE q # r
    <3>1. Underway(q)
      BY <1>2, <2>2 DEF Underway, CommandsTypeOK
    <3> QED BY <1>2, <2>2, <3>1 DEF UnderwayInv, Pc
  <2> QED BY <2>1, <2>2
<1> QED BY <1>5, <1>6

\* Everybody else: no command moves, and nothing of it is underway that was not.
LEMMA RestTypeOK ==
  ASSUME CommandsTypeOK, UnderwayInv, UNCHANGED <<cmd, crossed>>,
         station' \in [Requests -> {"idle", "asked", "active", "over"}],
         acks' \subseteq [req : Requests, phase : Phases, at : {"sent", "found"}],
         \A q \in Requests : Underway(q)' => Underway(q),
         PoolTypeOK'
  PROVE  CommandsTypeOK' /\ UnderwayInv'
<1>1. CommandsTypeOK'
  BY DEF CommandsTypeOK
<1>2. UnderwayInv'
  BY DEF UnderwayInv, Pc
<1> QED BY <1>1, <1>2

LEMMA TakeOutType ==
  ASSUME PoolTypeOK, NEW k \in Keys, NEW how \in Requests \cup Errors, TakeOut(k, how)
  PROVE  /\ pending' \in [Keys -> Requests \cup {None}]
         /\ taken' \subseteq [req : Requests, key : Keys, how : Requests \cup Errors]
<1>1. pending' \in [Keys -> Requests \cup {None}]
  BY DEF TakeOut, PoolTypeOK
<1>2. CASE pending[k] = None
  BY <1>1, <1>2 DEF TakeOut, PoolTypeOK
<1>3. CASE pending[k] # None
  <2>1. [req |-> pending[k], key |-> k, how |-> how]
          \in [req : Requests, key : Keys, how : Requests \cup Errors]
    BY <1>3 DEF PoolTypeOK
  <2> QED BY <1>1, <1>3, <2>1 DEF TakeOut, PoolTypeOK
<1> QED BY <1>2, <1>3

LEMMA StepTypeOK ==
  ASSUME CommandsTypeOK, UnderwayInv, [CommandsNext]_commandVars
  PROVE  CommandsTypeOK' /\ UnderwayInv'
<1>p. PoolTypeOK
  BY DEF CommandsTypeOK
<1>1. ASSUME NEW r \in Requests, NEW k \in Keys, Register(r, k)
      PROVE  CommandsTypeOK' /\ UnderwayInv'
  <2>1. PICK c \in CmdType : cmd' = [cmd EXCEPT ![r] = c] /\ c.pc # "new"
    <3>1. /\ [pc |-> "over", key |-> k] \in CmdType
          /\ [pc |-> "inserted", key |-> k] \in CmdType
      BY DEF CmdType
    <3> QED BY <1>1, <3>1 DEF Register
  <2>2. UNCHANGED <<station, acks>>
    BY <1>1 DEF Register
  <2>3. PoolTypeOK'
    <3>1. CASE UNCHANGED poolVars
      BY <1>p, <3>1 DEF poolVars, PoolTypeOK
    <3>2. CASE Insert(r, k)
      BY <1>p, <3>2 DEF Insert, PoolTypeOK, wheel, closing
    <3> QED BY <1>1, <3>1, <3>2 DEF Register
  <2>4. cmd' \in [Requests -> CmdType] /\ cmd'[r] = c
        /\ \A q \in Requests : q # r => cmd'[q] = cmd[q]
    BY <2>1 DEF CommandsTypeOK
  <2>5. CommandsTypeOK'
    BY <1>1, <2>2, <2>3, <2>4 DEF Register, CommandsTypeOK
  <2>6. UnderwayInv'
    BY <2>1, <2>2, <2>4 DEF UnderwayInv, Underway, Pc
  <2> QED BY <2>5, <2>6
<1>2. ASSUME NEW r \in Requests, StartTimer(r)
      PROVE  CommandsTypeOK' /\ UnderwayInv'
  <2>1. cmd[r] \in CmdType /\ cmd[r].pc # "new" /\ ~Pc(r, "new")
    BY <1>2 DEF StartTimer, Pc, CommandsTypeOK
  <2>2. CommandKey(r) \in Keys
    BY <2>1, CommandFields DEF CommandKey
  <2>3. PoolTypeOK'
    BY <1>2, <1>p, <2>2 DEF StartTimer, SetTimer, PoolTypeOK, closing
  <2>4. /\ Becomes(r, "sending") \/ Becomes(r, "over")
        /\ UNCHANGED <<station, acks, crossed>>
    BY <1>2 DEF StartTimer
  <2> QED BY <2>1, <2>3, <2>4, CallerTypeOK
<1>3. ASSUME NEW r \in Requests, DoSend(r) \/ DoSendFails(r)
      PROVE  CommandsTypeOK' /\ UnderwayInv'
  <2>1. ~Pc(r, "new") /\ Becomes(r, "over") /\ UNCHANGED <<acks, crossed, poolVars>>
        /\ (station' = station \/ station' = [station EXCEPT ![r] = "asked"])
    BY <1>3 DEF DoSend, DoSendFails, Pc
  <2>2. PoolTypeOK'
    BY <1>p, <2>1 DEF poolVars, PoolTypeOK
  <2> QED BY <2>1, <2>2, CallerTypeOK
<1>4. ASSUME NEW r \in Requests, Silence(r) \/ \E phase \in Phases : Confirm(r, phase)
      PROVE  CommandsTypeOK' /\ UnderwayInv'
  <2>1. /\ UNCHANGED <<cmd, crossed, poolVars>> /\ station[r] \in {"asked", "active"}
        /\ \E s \in {"active", "over"} : station' = [station EXCEPT ![r] = s]
        /\ acks' = acks \/ \E phase \in Phases : acks' = acks \cup {[req |-> r, phase |-> phase, at |-> "sent"]}
    BY <1>4 DEF Silence, Confirm
  <2>2. PoolTypeOK'
    BY <1>p, <2>1 DEF poolVars, PoolTypeOK
  <2>3. /\ acks' \subseteq [req : Requests, phase : Phases, at : {"sent", "found"}]
        /\ \A a \in acks' : a \in acks \/ a.req = r
    BY <2>1 DEF CommandsTypeOK
  <2>4. /\ station' \in [Requests -> {"idle", "asked", "active", "over"}]
        /\ \A q \in Requests : q # r => station'[q] = station[q]
    BY <2>1 DEF CommandsTypeOK
  <2>5. \A q \in Requests : Underway(q)' => Underway(q)
    BY <2>1, <2>3, <2>4 DEF Underway
  <2> QED BY <2>1, <2>2, <2>3, <2>4, <2>5, RestTypeOK
<1>5. ASSUME NEW a \in acks, OnCommandAck(a) \/ ApplyAck(a)
      PROVE  CommandsTypeOK' /\ UnderwayInv'
  <2>1. /\ a \in [req : Requests, phase : Phases, at : {"sent", "found"}]
        /\ a.req \in Requests /\ Underway(a.req)
    BY DEF CommandsTypeOK, Underway
  <2>2. cmd[a.req] \in CmdType /\ cmd[a.req].pc # "new"
    BY <2>1 DEF UnderwayInv, Pc, CommandsTypeOK
  <2>3. CommandKey(a.req) \in Keys
    BY <2>2, CommandFields DEF CommandKey
  <2>4. UNCHANGED <<cmd, station, crossed>>
    BY <1>5 DEF OnCommandAck, ApplyAck
  <2>5. /\ acks' \subseteq [req : Requests, phase : Phases, at : {"sent", "found"}]
        /\ \A b \in acks' : b \in acks \/ b.req = a.req
    <3>1. /\ [a EXCEPT !.at = "found"] \in [req : Requests, phase : Phases, at : {"sent", "found"}]
          /\ [a EXCEPT !.at = "found"].req = a.req
      BY <2>1
    <3>2. acks' \subseteq (acks \ {a}) \cup {[a EXCEPT !.at = "found"]}
      BY <1>5 DEF OnCommandAck, ApplyAck
    <3> QED BY <3>1, <3>2 DEF CommandsTypeOK
  <2>6. PoolTypeOK'
    <3>1. CASE OnCommandAck(a)
      BY <1>p, <3>1 DEF OnCommandAck, poolVars, PoolTypeOK
    <3>2. CASE ApplyAck(a)
      <4>1. PICK how \in Requests \cup Errors : TakeOut(CommandKey(a.req), how)
        BY <2>1, <3>2 DEF ApplyAck, Errors
      <4>2. UNCHANGED <<promise, wheel, closing>>
        BY <3>2 DEF ApplyAck
      <4> QED BY <1>p, <2>3, <4>1, <4>2, TakeOutType DEF PoolTypeOK, wheel, closing
    <3> QED BY <1>5, <3>1, <3>2
  <2>7. \A q \in Requests : Underway(q)' => Underway(q)
    BY <2>4, <2>5 DEF Underway
  <2>8. station' \in [Requests -> {"idle", "asked", "active", "over"}]
    BY <2>4 DEF CommandsTypeOK
  <2> QED BY <2>4, <2>5, <2>6, <2>7, <2>8, RestTypeOK
<1>6. ASSUME UNCHANGED callers, PoolTypeOK'
      PROVE  CommandsTypeOK' /\ UnderwayInv'
  <2>1. /\ UNCHANGED <<cmd, station, acks, crossed>>
        /\ \A q \in Requests : Underway(q)' => Underway(q)
    BY <1>6 DEF callers, Underway
  <2>2. /\ station' \in [Requests -> {"idle", "asked", "active", "over"}]
        /\ acks' \subseteq [req : Requests, phase : Phases, at : {"sent", "found"}]
    BY <2>1 DEF CommandsTypeOK
  <2> QED BY <1>6, <2>1, <2>2, RestTypeOK
<1>7. ASSUME NEW k \in Keys, PoolGoes(k)
      PROVE  CommandsTypeOK' /\ UnderwayInv'
  <2>1. CASE Fire(k)
    <3>1. PoolTypeOK'
      BY <1>p, <2>1 DEF Fire, PoolTypeOK, entries, closing
    <3> QED BY <1>6, <1>7, <3>1 DEF PoolGoes
  <2>2. CASE HandleTimeout(k)
    <3>1. TakeOut(k, "expired") /\ UNCHANGED <<timers, promise, closing>> /\ fired' \subseteq fired
      BY <2>2 DEF HandleTimeout
    <3>2. PoolTypeOK'
      BY <1>p, <3>1, TakeOutType DEF PoolTypeOK, closing, Errors
    <3> QED BY <1>6, <1>7, <3>2 DEF PoolGoes
  <2>3. CASE \E t \in taken : Settle(t)
    <3>1. PICK t \in taken : Settle(t)
      BY <2>3
    <3>2. t.req \in Requests /\ t.how \in Requests \cup Errors
      BY <1>p DEF PoolTypeOK
    <3>3. PoolTypeOK'
      BY <1>p, <3>1, <3>2 DEF Settle, PoolTypeOK, closing
    <3> QED BY <1>6, <1>7, <3>3 DEF PoolGoes
  <2> QED BY <1>7, <2>1, <2>2, <2>3 DEF PoolGoes
<1>8. ASSUME ClosePool PROVE CommandsTypeOK' /\ UnderwayInv'
  <2>1. CASE CloseMark
    <3>1. PoolTypeOK'
      BY <1>p, <2>1 DEF CloseMark, PoolTypeOK, wheel
    <3> QED BY <1>6, <1>8, <3>1 DEF ClosePool
  <2>2. CASE CloseStop
    <3>1. PoolTypeOK'
      BY <1>p, <2>2 DEF CloseStop, PoolTypeOK, entries
    <3> QED BY <1>6, <1>8, <3>1 DEF ClosePool
  <2>3. CASE CloseReject
    <3>1. PoolTypeOK'
      BY <1>p, <2>3 DEF CloseReject, PoolTypeOK, wheel
    <3> QED BY <1>6, <1>8, <3>1 DEF ClosePool
  <2> QED BY <1>8, <2>1, <2>2, <2>3 DEF ClosePool
<1>9. CASE UNCHANGED commandVars
  <2>1. PoolTypeOK' /\ UNCHANGED callers
    BY <1>9, <1>p DEF commandVars, poolVars, callers, PoolTypeOK
  <2> QED BY <1>6, <2>1
<1> QED BY <1>1, <1>2, <1>3, <1>4, <1>5, <1>7, <1>8, <1>9 DEF CommandsNext

\* Type correctness of the commands and the pool below them, whatever callers do.
THEOREM CommandsTypeCorrect == CommandsSpec => []CommandsTypeOK
<1> QED BY InitTypeOK, StepTypeOK, PTL DEF CommandsSpec

-----------------------------------------------------------------------------
(* What the pool promises its callers. *)

\* A command that is not sent yet was never in the pool.
UnsentInv == \A r \in Requests : Pc(r, "new") => promise[r] = None

LEMMA CommandNames == PoolNames
BY CommandsAssumption DEF PoolNames

LEMMA CommandMoves ==
  ASSUME CommandsTypeOK, UnderwayInv, [CommandsNext]_commandVars
  PROVE  /\ \A q \in Requests : Pc(q, "new")' => Pc(q, "new")
         /\ \/ \E r \in Requests, k \in Keys : Pc(r, "new") /\ ~Pc(r, "new")' /\ Insert(r, k)
            \/ PoolWorks
<1>t. PoolTypeOK /\ cmd \in [Requests -> CmdType]
  BY DEF CommandsTypeOK
<1>c. UNCHANGED cmd => \A q \in Requests : Pc(q, "new")' => Pc(q, "new")
  BY DEF Pc
<1>b. ASSUME NEW r \in Requests, NEW pc \in {"sending", "over"}, Becomes(r, pc)
      PROVE  \A q \in Requests : Pc(q, "new")' => Pc(q, "new")
  BY <1>b, <1>t DEF Becomes, Pc
<1>u. UNCHANGED poolVars => PoolWorks
  BY DEF PoolWorks
<1>1. ASSUME NEW r \in Requests, NEW k \in Keys, Register(r, k)
      PROVE  /\ \A q \in Requests : Pc(q, "new")' => Pc(q, "new")
             /\ (Pc(r, "new") /\ ~Pc(r, "new")' /\ Insert(r, k)) \/ PoolWorks
  <2>1. Pc(r, "new") /\ (Insert(r, k) \/ UNCHANGED poolVars)
    BY <1>1 DEF Register
  <2>2. PICK pc \in {"over", "inserted"} : cmd' = [cmd EXCEPT ![r] = [pc |-> pc, key |-> k]]
    BY <1>1 DEF Register
  <2>3. cmd'[r].pc = pc /\ \A q \in Requests : q # r => cmd'[q] = cmd[q]
    BY <2>2, <1>t
  <2> QED BY <1>u, <2>1, <2>3 DEF Pc
<1>2. ASSUME NEW r \in Requests, StartTimer(r)
      PROVE  PoolWorks /\ \A q \in Requests : Pc(q, "new")' => Pc(q, "new")
  <2>1. cmd[r] \in CmdType /\ cmd[r].pc # "new"
    BY <1>2, <1>t DEF StartTimer, Pc
  <2>2. CommandKey(r) \in Keys
    BY <2>1, CommandFields DEF CommandKey
  <2> QED BY <1>2, <1>b, <2>2 DEF StartTimer, PoolWorks
<1>3. ASSUME NEW r \in Requests, DoSend(r) \/ DoSendFails(r) \/ Silence(r)
                                 \/ \E phase \in Phases : Confirm(r, phase)
      PROVE  PoolWorks /\ \A q \in Requests : Pc(q, "new")' => Pc(q, "new")
  <2>1. UNCHANGED poolVars /\ (UNCHANGED cmd \/ Becomes(r, "over"))
    BY <1>3 DEF DoSend, DoSendFails, Silence, Confirm
  <2> QED BY <1>b, <1>c, <1>u, <2>1
<1>4. ASSUME NEW a \in acks, OnCommandAck(a)
      PROVE  PoolWorks /\ \A q \in Requests : Pc(q, "new")' => Pc(q, "new")
  BY <1>4, <1>c, <1>u DEF OnCommandAck
<1>5. ASSUME NEW a \in acks, ApplyAck(a)
      PROVE  PoolWorks /\ \A q \in Requests : Pc(q, "new")' => Pc(q, "new")
  <2>1. a.req \in Requests /\ Underway(a.req)
    BY DEF CommandsTypeOK, Underway
  <2>2. cmd[a.req] \in CmdType /\ cmd[a.req].pc # "new"
    BY <1>t, <2>1 DEF UnderwayInv, Pc
  <2>3. CommandKey(a.req) \in Keys
    BY <2>2, CommandFields DEF CommandKey
  <2>4. PICK how \in Requests \cup Errors : TakeOut(CommandKey(a.req), how)
    BY <2>1, <1>5 DEF ApplyAck, Errors
  <2>5. UNCHANGED <<cmd, promise, closing>>
    BY <1>5 DEF ApplyAck
  <2> QED BY <1>c, <2>3, <2>4, <2>5 DEF PoolWorks
<1>6. ASSUME NEW k \in Keys, PoolGoes(k)
      PROVE  PoolWorks /\ \A q \in Requests : Pc(q, "new")' => Pc(q, "new")
  <2>1. UNCHANGED cmd /\ (Fire(k) \/ HandleTimeout(k) \/ \E t \in taken : Settle(t))
    BY <1>6 DEF PoolGoes, callers
  <2>2. CASE HandleTimeout(k)
    <3>1. TakeOut(k, "expired") /\ UNCHANGED <<promise, closing>> /\ "expired" \in Requests \cup Errors
      BY <2>2 DEF HandleTimeout, Errors
    <3> QED BY <1>c, <2>1, <3>1 DEF PoolWorks
  <2> QED BY <1>c, <2>1, <2>2 DEF PoolWorks
<1>7. CASE ClosePool
  BY <1>7, <1>c DEF ClosePool, callers, PoolWorks
<1>8. CASE UNCHANGED commandVars
  BY <1>8, <1>c, <1>u DEF commandVars
<1> QED BY <1>1, <1>2, <1>3, <1>4, <1>5, <1>6, <1>7, <1>8 DEF CommandsNext

LEMMA CommandPoolStep ==
  ASSUME CommandsTypeOK, UnderwayInv, PlacedInv, UnsentInv, [CommandsNext]_commandVars,
         CommandsTypeOK'
  PROVE  PlacedInv' /\ UnsentInv' /\ [Replies!PendingNext]_(Replies!pendingReplies)
<1>t. PoolTypeOK /\ PoolTypeOK' /\ PoolNames
  BY CommandNames DEF CommandsTypeOK
<1>n. \A q \in Requests : Pc(q, "new")' => Pc(q, "new")
  BY CommandMoves
<1>1. CASE PoolWorks
  <2>1. PlacedInv' /\ [Replies!PendingNext]_(Replies!pendingReplies)
    BY <1>1, <1>t, PoolMoveShown DEF PoolMoves
  <2>2. UnsentInv'
    BY <1>1, <1>t, <1>n, NobodyEnters DEF UnsentInv
  <2> QED BY <2>1, <2>2
<1>2. ASSUME NEW r \in Requests, NEW k \in Keys, Pc(r, "new"), ~Pc(r, "new")', Insert(r, k)
      PROVE  PlacedInv' /\ UnsentInv' /\ [Replies!PendingNext]_(Replies!pendingReplies)
  <2>1. promise[r] = None
    BY <1>2 DEF UnsentInv
  <2>2. PlacedInv' /\ [Replies!PendingNext]_(Replies!pendingReplies)
    BY <1>2, <1>t, <2>1, PoolMoveShown DEF PoolMoves
  <2>3. \A q \in Requests \ {r} : promise'[q] = promise[q]
    BY <1>2, <1>t DEF Insert, PoolTypeOK
  <2>4. UnsentInv'
    BY <1>2, <1>n, <2>3 DEF UnsentInv
  <2> QED BY <2>2, <2>4
<1> QED BY <1>1, <1>2, CommandMoves

\* The pool keeps its promise to the IEC 104 client too, whose keys are used again
\* by every command to a target and whose confirmations name no command: a command
\* may take the confirmation of another, but it is decided once, and for good.
THEOREM CommandsDecidedOnce == CommandsSpec => PoolImplemented
<1>1. CommandsInit => /\ CommandsTypeOK /\ UnderwayInv /\ PlacedInv /\ UnsentInv
                      /\ Replies!PendingInit
  <2>1. CommandsInit => UnsentInv
    BY DEF CommandsInit, PoolInit, UnsentInv
  <2> QED BY <2>1, InitTypeOK, PoolStarts, CommandNames DEF CommandsInit
<1>2. CommandsTypeOK /\ UnderwayInv /\ PlacedInv /\ UnsentInv /\ [CommandsNext]_commandVars
        => /\ CommandsTypeOK' /\ UnderwayInv' /\ PlacedInv' /\ UnsentInv'
           /\ [Replies!PendingNext]_(Replies!pendingReplies)
  BY StepTypeOK, CommandPoolStep
<1> QED BY <1>1, <1>2, PTL DEF CommandsSpec, PoolImplemented, Replies!PendingSpec

-----------------------------------------------------------------------------
(* Timers.  Whoever removes a timer by its key has taken an entry of the key out   *)
(* before, so what it finds there now was registered in between.                  *)

\* An entry is one of a registered command under its own target, and there is none
\* in a closed pool.
EntryInv == \A k \in Keys : pending[k] # None =>
  ~Pc(pending[k], "new") /\ CommandKey(pending[k]) = k /\ pool = "open"

\* The entry of a target whose timer is going to be removed for an earlier one.
CrossInv == \A t \in taken : t.how # "expired" => pending[t.key] \in crossed \cup {None}

IecInv == EntryInv /\ CrossInv /\ EntriesExpire

LEMMA InitIec == CommandsInit => IecInv
BY DEF CommandsInit, PoolInit, IecInv, EntryInv, CrossInv, EntriesExpire

\* A step that inserts no entry: what stays in the pool is as good as it was.
LEMMA EntriesOnlyGo ==
  ASSUME CommandsTypeOK, IecInv, UNCHANGED crossed,
         \A q \in Requests : ~Pc(q, "new") => cmd'[q].pc # "new" /\ cmd'[q].key = cmd[q].key,
         \A k \in Keys : pending'[k] \in {None, pending[k]},
         \A t \in taken' : t \in taken \/ pending'[t.key] = None,
         \A k \in Keys : pending'[k] # None =>
           /\ pool' = pool
           /\ k \in timers \cup fired => k \in timers' \cup fired' \/ pending[k] \in crossed
           /\ Pc(pending[k], "inserted") =>
                cmd'[pending[k]].pc = "inserted" \/ k \in timers' \cup fired'
  PROVE  IecInv'
<1>1. ASSUME NEW k \in Keys, pending'[k] # None
      PROVE  /\ pending'[k] = pending[k] /\ pending[k] \in Requests
             /\ ~Pc(pending[k], "new") /\ cmd[pending[k]].key = k /\ pool = "open"
  BY <1>1 DEF IecInv, EntryInv, CommandKey, CommandsTypeOK, PoolTypeOK
<1>2. EntryInv'
  <2> SUFFICES ASSUME NEW k \in Keys, pending'[k] # None
               PROVE  cmd'[pending'[k]].pc # "new" /\ cmd'[pending'[k]].key = k /\ pool' = "open"
    BY DEF EntryInv, Pc, CommandKey
  <2> QED BY <1>1
<1>3. CrossInv'
  <2> SUFFICES ASSUME NEW t \in taken', t.how # "expired", pending'[t.key] # None
               PROVE  pending'[t.key] \in crossed
    BY DEF CrossInv
  <2>1. t \in taken /\ t.key \in Keys
    BY DEF CommandsTypeOK, PoolTypeOK
  <2>2. pending[t.key] \in crossed \cup {None}
    BY <2>1 DEF IecInv, CrossInv
  <2> QED BY <2>1, <2>2
<1>4. EntriesExpire'
  <2> SUFFICES ASSUME NEW k \in Keys, pending'[k] # None, pending'[k] \notin crossed
               PROVE  k \in timers' \cup fired' \/ cmd'[pending'[k]].pc = "inserted"
    BY DEF EntriesExpire, HasTimer, Pc
  <2>1. pending[k] \notin crossed \cup {None}
    BY <1>1
  <2>2. k \in timers \cup fired \/ Pc(pending[k], "inserted")
    BY <2>1 DEF IecInv, EntriesExpire, HasTimer
  <2> QED BY <1>1, <2>1, <2>2
<1> QED BY <1>2, <1>3, <1>4 DEF IecInv

\* The same when no command moves.
LEMMA EntriesOnlyGoAlone ==
  ASSUME CommandsTypeOK, IecInv, UNCHANGED <<cmd, crossed>>,
         \A k \in Keys : pending'[k] \in {None, pending[k]},
         \A t \in taken' : t \in taken \/ pending'[t.key] = None,
         \A k \in Keys : pending'[k] # None =>
           /\ pool' = pool
           /\ k \in timers \cup fired => k \in timers' \cup fired' \/ pending[k] \in crossed
  PROVE  IecInv'
<1>1. \A q \in Requests : ~Pc(q, "new") => cmd'[q].pc # "new" /\ cmd'[q].key = cmd[q].key
  BY DEF Pc
<1>2. \A k \in Keys : Pc(pending[k], "inserted") => cmd'[pending[k]].pc = "inserted"
  BY DEF Pc
<1> QED BY <1>1, <1>2, EntriesOnlyGo

\* The entry of a target is taken out.
LEMMA TakeOutIec ==
  ASSUME CommandsTypeOK, IecInv, NEW k \in Keys, NEW how, TakeOut(k, how),
         UNCHANGED <<cmd, crossed, pool, timers>>, fired' \in {fired, fired \ {k}}
  PROVE  IecInv'
<1>1. /\ pending'[k] = None
      /\ \A j \in Keys : j # k => pending'[j] = pending[j]
      /\ \A t \in taken' : t \in taken \/ t.key = k
  BY DEF TakeOut, CommandsTypeOK, PoolTypeOK
<1>2. \A j \in Keys : pending'[j] # None /\ j \in timers \cup fired => j \in timers' \cup fired'
  BY <1>1
<1> QED BY <1>1, <1>2, EntriesOnlyGoAlone

LEMMA RegisterIec ==
  ASSUME CommandsTypeOK, IecInv, NEW r \in Requests, NEW k \in Keys, Register(r, k)
  PROVE  IecInv'
<1>1. Pc(r, "new") /\ \A q \in Requests : q # r => cmd'[q] = cmd[q]
  BY DEF Register, CommandsTypeOK
<1>2. ASSUME NEW j \in Keys, pending[j] # None
      PROVE  pending[j] # r /\ pending[j] \in Requests
  BY <1>1, <1>2 DEF IecInv, EntryInv, CommandsTypeOK, PoolTypeOK
<1>3. CASE UNCHANGED <<crossed, poolVars>>
  <2>1. UNCHANGED <<pending, taken, timers, fired, pool>>
    BY <1>3 DEF poolVars
  <2>2. EntryInv'
    BY <1>1, <1>2, <2>1 DEF IecInv, EntryInv, Pc, CommandKey
  <2>3. CrossInv'
    BY <1>3, <2>1 DEF IecInv, CrossInv
  <2>4. EntriesExpire'
    BY <1>1, <1>2, <1>3, <2>1 DEF IecInv, EntriesExpire, HasTimer, Pc
  <2> QED BY <2>2, <2>3, <2>4 DEF IecInv
<1>4. CASE /\ Insert(r, k) /\ cmd' = [cmd EXCEPT ![r] = [pc |-> "inserted", key |-> k]]
           /\ crossed' = IF RemovalToCome(k) THEN crossed \cup {r} ELSE crossed
  <2>1. /\ cmd'[r].pc = "inserted" /\ cmd'[r].key = k
        /\ pending'[k] = r /\ \A j \in Keys : j # k => pending'[j] = pending[j]
        /\ UNCHANGED <<taken, timers, fired, pool>> /\ pool = "open"
    BY <1>4 DEF Insert, Accepts, wheel, closing, CommandsTypeOK, PoolTypeOK
  <2>2. EntryInv'
    BY <1>1, <1>2, <2>1 DEF IecInv, EntryInv, Pc, CommandKey
  <2>3. CrossInv'
    <3> SUFFICES ASSUME NEW t \in taken, t.how # "expired"
                 PROVE  pending'[t.key] \in crossed' \cup {None}
      BY <2>1 DEF CrossInv
    <3>1. t.key \in Keys
      BY DEF CommandsTypeOK, PoolTypeOK
    <3>2. CASE t.key = k
      BY <1>4, <2>1, <3>2 DEF RemovalToCome
    <3>3. CASE t.key # k
      BY <1>4, <2>1, <3>1, <3>3 DEF IecInv, CrossInv
    <3> QED BY <3>2, <3>3
  <2>4. EntriesExpire'
    <3> SUFFICES ASSUME NEW j \in Keys, pending'[j] # None, pending'[j] \notin crossed'
                 PROVE  j \in timers \cup fired \/ cmd'[pending'[j]].pc = "inserted"
      BY <2>1 DEF EntriesExpire, HasTimer, Pc
    <3>1. CASE j = k
      BY <2>1, <3>1
    <3>2. CASE j # k
      <4>1. pending[j] \notin crossed \cup {None} /\ pending'[j] = pending[j]
        BY <1>4, <2>1, <3>2
      <4>2. HasTimer(j) /\ cmd'[pending[j]] = cmd[pending[j]]
        BY <1>1, <1>2, <4>1 DEF IecInv, EntriesExpire
      <4> QED BY <4>1, <4>2 DEF HasTimer, Pc
    <3> QED BY <3>1, <3>2
  <2> QED BY <2>2, <2>3, <2>4 DEF IecInv
<1> QED BY <1>3, <1>4 DEF Register

\* A registered caller goes on: it starts its timer or ends its sending.
LEMMA CallerIec ==
  ASSUME CommandsTypeOK, IecInv, NEW r \in Requests,
         StartTimer(r) \/ DoSend(r) \/ DoSendFails(r)
  PROVE  IecInv'
<1>1. /\ cmd[r].pc \in {"inserted", "sending"} /\ cmd[r] \in CmdType
      /\ UNCHANGED <<crossed, taken, pool, fired>>
      /\ \A q \in Requests : q # r => cmd'[q] = cmd[q]
  BY DEF StartTimer, DoSend, DoSendFails, SetTimer, Pc, Becomes, poolVars, closing,
         CommandsTypeOK
<1>2. cmd'[r].pc \in {"sending", "over"} /\ cmd'[r].key = cmd[r].key
  <2>1. cmd[r] \in [pc : {"inserted", "sending", "over"}, key : Keys]
    BY <1>1 DEF CmdType
  <2>2. Becomes(r, "sending") \/ Becomes(r, "over")
    BY DEF StartTimer, DoSend, DoSendFails
  <2> QED BY <2>1, <2>2 DEF Becomes, CommandsTypeOK
<1>3. \A q \in Requests : ~Pc(q, "new") => cmd'[q].pc # "new" /\ cmd'[q].key = cmd[q].key
  BY <1>1, <1>2 DEF Pc
<1>4. CASE StartTimer(r)
  <2>1. \A k \in Keys : pending'[k] \in {None, pending[k]}
    BY <1>4 DEF StartTimer, SetTimer, CommandsTypeOK, PoolTypeOK
  <2>2. ASSUME NEW k \in Keys, pending'[k] # None
        PROVE  /\ k \in timers \cup fired => k \in timers' \cup fired'
               /\ Pc(pending[k], "inserted") =>
                    cmd'[pending[k]].pc = "inserted" \/ k \in timers' \cup fired'
    <3>1. pending[k] # None /\ pool = "open" /\ CommandKey(pending[k]) = k
          /\ pending[k] \in Requests
      BY <2>1, <2>2 DEF IecInv, EntryInv, CommandsTypeOK, PoolTypeOK
    <3>2. timers' = timers \cup {cmd[r].key}
      BY <1>4, <3>1 DEF StartTimer, SetTimer, WheelRuns, CommandKey
    <3> QED BY <1>1, <3>1, <3>2 DEF CommandKey, Pc
  <2> QED BY <1>1, <1>3, <2>1, <2>2, EntriesOnlyGo
<1>5. CASE DoSend(r) \/ DoSendFails(r)
  <2>1. UNCHANGED <<pending, timers>> /\ ~Pc(r, "inserted")
    BY <1>5 DEF DoSend, DoSendFails, Pc, poolVars
  <2>2. ASSUME NEW k \in Keys, pending'[k] # None, Pc(pending[k], "inserted")
        PROVE  cmd'[pending[k]].pc = "inserted"
    <3>1. pending[k] \in Requests /\ pending[k] # r
      BY <2>1, <2>2 DEF CommandsTypeOK, PoolTypeOK
    <3> QED BY <1>1, <2>2, <3>1 DEF Pc
  <2> QED BY <1>1, <1>3, <2>1, <2>2, EntriesOnlyGo
<1> QED BY <1>4, <1>5

\* The pool: nobody else moves.
LEMMA PoolIec ==
  ASSUME CommandsTypeOK, IecInv, UNCHANGED <<cmd, crossed>>,
         \/ \E k \in Keys : \/ Fire(k) \/ HandleTimeout(k)
                            \/ \E t \in taken : t.key = k /\ Settle(t)
         \/ CloseMark \/ CloseStop \/ CloseReject
         \/ UNCHANGED poolVars
  PROVE  IecInv'
<1>1. ASSUME NEW k \in Keys, Fire(k) PROVE IecInv'
  <2>1. /\ UNCHANGED <<pending, taken, pool>>
        /\ timers \cup fired \subseteq timers' \cup fired'
    BY <1>1 DEF Fire, entries, closing
  <2> QED BY <2>1, EntriesOnlyGoAlone
<1>2. ASSUME NEW k \in Keys, HandleTimeout(k) PROVE IecInv'
  <2>1. TakeOut(k, "expired") /\ UNCHANGED <<pool, timers>> /\ fired' = fired \ {k}
    BY <1>2 DEF HandleTimeout, closing
  <2> QED BY <2>1, TakeOutIec
<1>3. ASSUME NEW t \in taken, Settle(t) PROVE IecInv'
  <2>1. /\ UNCHANGED <<pending, fired, pool>> /\ taken' \subseteq taken
        /\ timers' = IF t.how = "expired" THEN timers ELSE timers \ {t.key}
    BY <1>3 DEF Settle, closing
  <2>2. t.how # "expired" => pending[t.key] \in crossed \cup {None}
    BY DEF IecInv, CrossInv
  <2>3. \A k \in Keys : pending[k] # None /\ k \in timers \cup fired =>
          k \in timers' \cup fired' \/ pending[k] \in crossed
    BY <2>1, <2>2
  <2> QED BY <2>1, <2>3, EntriesOnlyGoAlone
<1>4. CASE CloseMark
  <2>1. (\A k \in Keys : pending'[k] = None) /\ UNCHANGED taken
    BY <1>4 DEF CloseMark
  <2> QED BY <2>1, EntriesOnlyGoAlone
<1>5. CASE CloseStop \/ CloseReject
  <2>1. UNCHANGED <<pending, taken>> /\ pool # "open"
    BY <1>5 DEF CloseStop, CloseReject, entries
  <2>2. \A k \in Keys : pending'[k] = None
    BY <2>1 DEF IecInv, EntryInv
  <2> QED BY <2>1, <2>2, EntriesOnlyGoAlone
<1>6. CASE UNCHANGED poolVars
  <2>1. UNCHANGED <<pending, timers, fired, taken, pool>>
    BY <1>6 DEF poolVars
  <2> QED BY <2>1, EntriesOnlyGoAlone
<1> QED BY <1>1, <1>2, <1>3, <1>4, <1>5, <1>6

LEMMA StepIec ==
  ASSUME CommandsTypeOK, UnderwayInv, IecInv, [CommandsNext]_commandVars
  PROVE  IecInv'
<1>1. ASSUME NEW r \in Requests, NEW k \in Keys, Register(r, k) PROVE IecInv'
  BY <1>1, RegisterIec
<1>2. ASSUME NEW r \in Requests, StartTimer(r) \/ DoSend(r) \/ DoSendFails(r) PROVE IecInv'
  BY <1>2, CallerIec
<1>3. ASSUME NEW r \in Requests, Silence(r) \/ \E phase \in Phases : Confirm(r, phase)
      PROVE  IecInv'
  BY <1>3, PoolIec DEF Silence, Confirm
<1>4. ASSUME NEW a \in acks, OnCommandAck(a) PROVE IecInv'
  BY <1>4, PoolIec DEF OnCommandAck
<1>5. ASSUME NEW a \in acks, ApplyAck(a) PROVE IecInv'
  <2>1. a.req \in Requests /\ Underway(a.req)
    BY DEF CommandsTypeOK, Underway
  <2>2. cmd[a.req] \in CmdType /\ cmd[a.req].pc # "new"
    BY <2>1 DEF UnderwayInv, Pc, CommandsTypeOK
  <2>3. CommandKey(a.req) \in Keys
    BY <2>2, CommandFields DEF CommandKey
  <2>4. PICK how : TakeOut(CommandKey(a.req), how)
    BY <1>5 DEF ApplyAck
  <2>5. UNCHANGED <<cmd, crossed, pool, timers, fired>>
    BY <1>5 DEF ApplyAck, wheel, closing
  <2> QED BY <2>3, <2>4, <2>5, TakeOutIec
<1>6. ASSUME NEW k \in Keys, PoolGoes(k) PROVE IecInv'
  BY <1>6, PoolIec DEF PoolGoes, callers
<1>7. CASE ClosePool
  BY <1>7, PoolIec DEF ClosePool, callers
<1>8. CASE UNCHANGED commandVars
  BY <1>8, PoolIec DEF commandVars
<1> QED BY <1>1, <1>2, <1>3, <1>4, <1>5, <1>6, <1>7, <1>8 DEF CommandsNext

\* No entry is left without a timer that runs or has fired, or is about to be
\* started, unless it was registered while the removal of an earlier entry of its
\* target was still to come.
THEOREM NoEntryWithoutTimer == CommandsSpec => []EntriesExpire
<1>1. CommandsInit => CommandsTypeOK /\ UnderwayInv /\ IecInv
  BY InitTypeOK, InitIec
<1>2. CommandsTypeOK /\ UnderwayInv /\ IecInv /\ [CommandsNext]_commandVars
        => CommandsTypeOK' /\ UnderwayInv' /\ IecInv'
  BY StepTypeOK, StepIec
<1>3. IecInv => EntriesExpire
  BY DEF IecInv
<1> QED BY <1>1, <1>2, <1>3, PTL DEF CommandsSpec

-----------------------------------------------------------------------------
(* The applications side by side. *)

\* A behaviour of MCApplications is one of the commands and one of
\* the recordings: what is proved of each holds of the checked instance.
THEOREM EveryApplicationKept == ApplicationsSpec => CommandsSpec /\ RecordingSpec
<1>1. ApplicationsInit => CommandsInit /\ RecordingInit
  BY DEF ApplicationsInit
<1>2. ASSUME [ApplicationsNext]_applicationVars
      PROVE  [CommandsNext]_commandVars /\ [RecordingNext]_recordingVars
  BY <1>2 DEF ApplicationsNext, applicationVars
<1> QED BY <1>1, <1>2, PTL DEF ApplicationsSpec, CommandsSpec, RecordingSpec

\* All variables of both applications keep their types, whichever moves.
THEOREM ApplicationsTypeCorrect == ApplicationsSpec => []ApplicationsTypeOK
<1>1. CommandsTypeOK /\ RecordingTypeOK => ApplicationsTypeOK
  BY DEF ApplicationsTypeOK
<1> QED BY <1>1, EveryApplicationKept, CommandsTypeCorrect, RecordingTypeCorrect, PTL
=============================================================================
