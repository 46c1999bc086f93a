----------------------------- MODULE MCApplications -----------------------------
(***************************************************************************)
(* Small instances of two applications that share no state: the commands   *)
(* of an IEC 104 client and the recordings of a meeting.  A behaviour      *)
(* chooses one of them in its initial state and lets only that one move.   *)
(***************************************************************************)
EXTENDS IecCommands, MeetingRecording

VARIABLE part

applicationVars == <<commandVars, recordingVars, part>>

ApplicationsInit == /\ CommandsInit /\ RecordingInit
                    /\ part \in {"iec", "live"}
                    /\ part = "iec" => left.egresses = 1

ApplicationsNext ==
  \/ part = "iec" /\ CommandsNext /\ UNCHANGED <<recordingVars, part>>
  \/ part = "live" /\ RecordingNext /\ UNCHANGED <<commandVars, part>>

\* An application that does not move stays where no fair action of its own is
\* enabled.
ApplicationsSpec == /\ ApplicationsInit /\ [][ApplicationsNext]_applicationVars
                    /\ CommandsFairness /\ RecordingFairness

ApplicationsTypeOK == CommandsTypeOK /\ RecordingTypeOK

\* Two webhooks over one recording, or two recordings.
MCBounds == {[egresses |-> 1, hooks |-> 2], [egresses |-> 2, hooks |-> 0]}
=============================================================================
