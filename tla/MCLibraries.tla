------------------------------ MODULE MCLibraries ------------------------------
(***************************************************************************)
(* Small instances of libraries that share no state: the gnetx server, the *)
(* MQTT client, and of antsx the emitter, the unbounded channel and        *)
(* Invoke.  A behaviour chooses one of them in its initial state and lets  *)
(* only that one move.                                                     *)
(***************************************************************************)
EXTENDS GnetxServer, MqttClient, Emitter, UnboundedChan, Invoke

VARIABLE part

libraryVars == <<serverVars, mqttVars, emitterVars, chanVars, invokeVars, part>>

LibrariesInit == /\ ServerInit /\ MqttInit /\ EmitterInit /\ ChanInit /\ InvokeInit
                 /\ part \in {"gnetx", "mqttx", "emitter", "channel", "invoke"}

LibrariesNext ==
  \/ /\ part = "gnetx" /\ ServerNext
     /\ UNCHANGED <<mqttVars, emitterVars, chanVars, invokeVars, part>>
  \/ /\ part = "mqttx" /\ MqttNext
     /\ UNCHANGED <<serverVars, emitterVars, chanVars, invokeVars, part>>
  \/ /\ part = "emitter" /\ EmitterNext
     /\ UNCHANGED <<serverVars, mqttVars, chanVars, invokeVars, part>>
  \/ /\ part = "channel" /\ ChanNext
     /\ UNCHANGED <<serverVars, mqttVars, emitterVars, invokeVars, part>>
  \/ /\ part = "invoke" /\ InvokeNext
     /\ UNCHANGED <<serverVars, mqttVars, emitterVars, chanVars, part>>

\* A library that does not move stays where no fair action of its own is enabled.
LibrariesSpec == /\ LibrariesInit /\ [][LibrariesNext]_libraryVars
                 /\ ServerFairness /\ MqttFairness /\ EmitterFairness

LibrariesTypeOK == ServerTypeOK /\ MqttTypeOK /\ EmitterTypeOK /\ ChanTypeOK /\ InvokeTypeOK
=============================================================================
