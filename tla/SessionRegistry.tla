---------------------------- MODULE SessionRegistry ----------------------------
(***************************************************************************)
(* What gnetx.SessionManager promises its users: a session is live from    *)
(* the moment it joins until it leaves or is displaced, it never comes     *)
(* back, and a client id is owned by at most one session, which is live.   *)
(***************************************************************************)
CONSTANTS Sessions, Clients, NoSession

VARIABLES
  live,   \* what All and GetBySessionID show
  gone,   \* sessions that have been live
  owner   \* what GetByClientID shows

registry == <<live, gone, owner>>

RegistryInit == live = {} /\ gone = {} /\ owner = [c \in Clients |-> NoSession]

Join(s) ==
  /\ s \notin live \cup gone
  /\ live' = live \cup {s}
  /\ UNCHANGED <<gone, owner>>

\* The session that owned the client id is gone in the same instant.
Take(s, c) ==
  LET displaced == {owner[c]} \ {NoSession, s} IN
  /\ s \in live
  /\ live' = live \ displaced
  /\ gone' = gone \cup displaced
  /\ owner' = [d \in Clients |-> IF d = c THEN s
                                 ELSE IF owner[d] = s THEN NoSession ELSE owner[d]]

Leave(s) ==
  /\ s \in live
  /\ live' = live \ {s} /\ gone' = gone \cup {s}
  /\ owner' = [d \in Clients |-> IF owner[d] = s THEN NoSession ELSE owner[d]]

RegistryNext == \E s \in Sessions : Join(s) \/ Leave(s) \/ \E c \in Clients : Take(s, c)

RegistrySpec == RegistryInit /\ [][RegistryNext]_registry

-----------------------------------------------------------------------------
(* What follows from it. *)

\* A client id is owned by a live session, and no session owns two ids.
OwnersLive ==
  /\ \A c \in Clients : owner[c] # NoSession => owner[c] \in live
  /\ \A c, d \in Clients : owner[c] = owner[d] /\ owner[c] # NoSession => c = d
  /\ live \cap gone = {}
=============================================================================
