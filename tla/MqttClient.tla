------------------------------ MODULE MqttClient ------------------------------
(***************************************************************************)
(* The MQTT session: src/src/iotc/iotc_mqtt_client.c, under the calls of   *)
(* iotc_app.c and iotconnect.c that open and close it.                     *)
(*                                                                         *)
(* The net thread connects, publishes telemetry and disconnects; the pump  *)
(* task runs MQTT_ProcessLoop and, inside it, the cloud callbacks, which   *)
(* publish too; the transfer task publishes its acknowledgement.  They     *)
(* share one MQTT context, one TLS session and one recursive mutex.        *)
(*                                                                         *)
(* What the net thread does beside this is in module IotcApp; here it only *)
(* polls s_connected, restarts, retries, publishes and starts transfers.   *)
(*                                                                         *)
(* Taken as given: the pump of the old connection, told to stop and with   *)
(* its session closed under it, is gone when the TLS handshake of the next *)
(* connection ends.                                                        *)
(***************************************************************************)
EXTENDS Integers, FiniteSets

CONSTANTS
  SessionRoom,  \* TLS sessions the heap has room for
  MaxDrops,     \* bound: connections lost
  MaxRestarts   \* bound: restarts asked for on the serial console

ASSUME MqttAssumption ==
  SessionRoom \in Nat \ {0} /\ MaxDrops \in Nat /\ MaxRestarts \in Nat

Tasks == {"net", "pump", "xfer"}
NoTask == "none"

VARIABLES
  net,        \* net thread: where it is in a poll, a connect or a disconnect
  app,        \* s_state of iotc_app.c
  lib,        \* s_ctx.lib_inited: iotcl_init done, iotcl_deinit not yet
  restart,    \* s_restart_req
  connected,  \* s_connected
  stop,       \* s_stop
  tls,        \* the session in s_tls_params: "closed", "open", "broken" (the
              \* peer is gone, the memory is still held)
  leaked,     \* sessions no longer in s_tls_params and never released
  pump,       \* pump task: where it is in its loop, "none" without a task
  holder,     \* task that holds s_api_mutex
  depth,      \* how often it has taken it
  pub,        \* pub[t]: where t is in iotc_mqtt_client_publish
  xfer,       \* transfer task: "idle", "work", "ack"
  cut,        \* history: the session was closed while its pump was alive
  drops, restarts

netVars == <<net, app, lib, restart>>
session == <<connected, stop, tls, leaked>>
mutex == <<holder, depth>>
bounds == <<drops, restarts>>
vars == <<netVars, session, pump, mutex, pub, xfer, cut, bounds>>

Init ==
  /\ net = "poll" /\ app = "idle" /\ lib = FALSE /\ restart = FALSE
  /\ connected = FALSE /\ stop = FALSE /\ tls = "closed" /\ leaked = 0
  /\ pump = "none" /\ holder = NoTask /\ depth = 0
  /\ pub = [t \in Tasks |-> "idle"]
  /\ xfer = "idle" /\ cut = FALSE
  /\ drops = 0 /\ restarts = 0

Busy == xfer # "idle"   \* prv_xfer_busy

Release(t) ==   \* xSemaphoreGiveRecursive
  /\ depth' = depth - 1
  /\ holder' = IF depth = 1 THEN NoTask ELSE t

-----------------------------------------------------------------------------
(* iotc_mqtt_client_publish, in any of the three tasks *)

(* Without a connection the message is dropped. *)
PublishCall(t) ==
  pub' = [pub EXCEPT ![t] = IF connected THEN "take" ELSE "idle"]

(* Mutant: the mutex is not taken. *)
PublishUnlocked(t) ==
  /\ pub[t] = "take"
  /\ holder' = t /\ depth' = depth + 1
  /\ pub' = [pub EXCEPT ![t] = "send"]
  /\ UNCHANGED <<netVars, session, pump, xfer, cut, bounds>>

(* Mutant: the mutex is not recursive. *)
PublishNotRecursive(t) ==
  /\ pub[t] = "take" /\ holder = NoTask
  /\ holder' = t /\ depth' = depth + 1
  /\ pub' = [pub EXCEPT ![t] = "send"]
  /\ UNCHANGED <<netVars, session, pump, xfer, cut, bounds>>

PublishTake(t) ==
  /\ pub[t] = "take" /\ holder \in {NoTask, t}
  /\ holder' = t /\ depth' = depth + 1
  /\ pub' = [pub EXCEPT ![t] = "send"]
  /\ UNCHANGED <<netVars, session, pump, xfer, cut, bounds>>

(* MQTT_Publish is over, well or badly. *)
PublishSent(t) ==
  /\ pub[t] = "send"
  /\ Release(t)
  /\ pub' = [pub EXCEPT ![t] = "idle"]
  /\ UNCHANGED <<netVars, session, pump, xfer, cut, bounds>>

-----------------------------------------------------------------------------
(* Net thread *)

Restarting == restart /\ ~ Busy

PollRestart ==
  /\ net = "poll" /\ Restarting
  /\ restart' = FALSE /\ net' = "disc"
  /\ UNCHANGED <<app, lib, session, pump, mutex, pub, xfer, cut, bounds>>

(* IDLE: iotconnect_sdk_init initialises the library, then discovery fails, *)
(* or the connection is opened.                                             *)
PollIdle ==
  /\ net = "poll" /\ ~ Restarting /\ app = "idle"
  /\ lib' = TRUE
  /\ \/ net' = "tls" /\ app' = "starting"
     \/ net' = "poll" /\ app' = "failed"
  /\ UNCHANGED <<restart, session, pump, mutex, pub, xfer, cut, bounds>>

(* RUNNING: notice a lost connection, start a transfer or send telemetry.   *)
PollRunning ==
  /\ net = "poll" /\ ~ Restarting /\ app = "running"
  /\ IF ~ connected THEN app' = "failed" /\ UNCHANGED <<net, pub, xfer>>
     ELSE \/ xfer = "idle" /\ xfer' = "work" /\ UNCHANGED <<net, app, pub>>
          \/ net' = "publish" /\ PublishCall("net") /\ UNCHANGED <<app, xfer>>
  /\ UNCHANGED <<lib, restart, session, pump, mutex, cut, bounds>>

TelemetrySent ==
  /\ net = "publish" /\ pub["net"] = "idle"
  /\ net' = "poll"
  /\ UNCHANGED <<app, lib, restart, session, pump, mutex, pub, xfer, cut, bounds>>

(* Mutant: the retry does not wait for a transfer in flight. *)
RetryWhileBusy ==
  /\ net = "poll" /\ ~ Restarting /\ app = "failed"
  /\ net' = "disc"
  /\ UNCHANGED <<app, lib, restart, session, pump, mutex, pub, xfer, cut, bounds>>

(* FAILED, after the backoff. *)
PollFailed ==
  /\ net = "poll" /\ ~ Restarting /\ app = "failed" /\ ~ Busy
  /\ net' = "disc"
  /\ UNCHANGED <<app, lib, restart, session, pump, mutex, pub, xfer, cut, bounds>>

(* iotc_mqtt_client_disconnect, by iotconnect_sdk_deinit or, still in       *)
(* "starting", by a connect that got no pump task.                          *)
Disconnected ==
  /\ net' = "poll"
  /\ app' = IF app = "starting" THEN "failed" ELSE "idle"
  /\ lib' = (app = "starting")

Disconnect ==
  /\ net = "disc"
  /\ stop' = TRUE /\ cut' = (pump # "none")
  /\ IF connected THEN net' = "discMqtt" /\ UNCHANGED <<app, lib>>
     ELSE Disconnected
  /\ UNCHANGED <<restart, connected, tls, leaked, pump, mutex, pub, xfer, bounds>>

(* MQTT_Disconnect, then TLS_FreeRTOS_Disconnect, then the flag. *)
DisconnectTls ==
  /\ net = "discMqtt"
  /\ tls' = "closed" /\ net' = "discTls"
  /\ UNCHANGED <<app, lib, restart, connected, stop, leaked, pump, mutex, pub, xfer, cut,
                 bounds>>

DisconnectEnds ==
  /\ net = "discTls"
  /\ connected' = FALSE
  /\ Disconnected
  /\ UNCHANGED <<restart, stop, tls, leaked, pump, mutex, pub, xfer, cut, bounds>>

(* iotc_mqtt_client_connect: s_tls_params is cleared, whatever session it   *)
(* still holds, and a new one opened.                                       *)
TlsConnect ==
  /\ net = "tls" /\ pump = "none"
  /\ leaked' = leaked + (IF tls = "closed" THEN 0 ELSE 1)
  /\ \/ leaked' < SessionRoom /\ tls' = "open" /\ net' = "mqtt" /\ UNCHANGED app
     \/ tls' = "closed" /\ net' = "poll" /\ app' = "failed"
  /\ cut' = FALSE
  /\ UNCHANGED <<lib, restart, connected, stop, pump, mutex, pub, xfer, bounds>>

(* Mutant: a refused CONNECT leaves the TLS session open. *)
MqttConnectLeaks ==
  /\ net = "mqtt"
  /\ \/ tls = "open" /\ net' = "spawn" /\ UNCHANGED app
     \/ net' = "poll" /\ app' = "failed"
  /\ UNCHANGED <<lib, restart, session, pump, mutex, pub, xfer, cut, bounds>>

(* MQTT_Init to MQTT_Connect; the result of MQTT_Subscribe is not used. *)
MqttConnect ==
  /\ net = "mqtt"
  /\ \/ tls = "open" /\ net' = "spawn" /\ UNCHANGED <<app, tls>>
     \/ net' = "poll" /\ app' = "failed" /\ tls' = "closed"
  /\ UNCHANGED <<lib, restart, connected, stop, leaked, pump, mutex, pub, xfer, cut,
                 bounds>>

SetConnected ==
  /\ net = "spawn"
  /\ stop' = FALSE /\ connected' = TRUE /\ net' = "create"
  /\ UNCHANGED <<app, lib, restart, tls, leaked, pump, mutex, pub, xfer, cut, bounds>>

CreatePump ==
  /\ net = "create"
  /\ pump' = "check" /\ net' = "poll" /\ app' = "running"
  /\ UNCHANGED <<lib, restart, session, mutex, pub, xfer, cut, bounds>>

CreateFails ==
  /\ net = "create"
  /\ net' = "disc"
  /\ UNCHANGED <<app, lib, restart, session, pump, mutex, pub, xfer, cut, bounds>>

-----------------------------------------------------------------------------
(* Pump task: prv_pump *)

PumpCheck ==
  /\ pump \in {"check", "sleep"}
  /\ pump' = IF pump = "sleep" THEN "check" ELSE IF stop THEN "none" ELSE "take"
  /\ UNCHANGED <<netVars, session, mutex, pub, xfer, cut, bounds>>

PumpTake ==
  /\ pump = "take" /\ holder = NoTask
  /\ holder' = "pump" /\ depth' = 1 /\ pump' = "loop"
  /\ UNCHANGED <<netVars, session, pub, xfer, cut, bounds>>

(* MQTT_ProcessLoop: nothing to do, a message from the cloud, or an error.  *)
ProcessLoop ==
  /\ pump = "loop"
  /\ \/ tls = "open" /\ pump' = "sleep" /\ Release("pump")
     \/ tls = "open" /\ pump' = "callback" /\ UNCHANGED mutex
     \/ tls # "open" /\ pump' = "lost" /\ Release("pump")
  /\ UNCHANGED <<netVars, session, pub, xfer, cut, bounds>>

(* prv_on_command or prv_on_ota acknowledges at once ... *)
CallbackPublishes ==
  /\ pump = "callback"
  /\ PublishCall("pump") /\ pump' = "acked"
  /\ UNCHANGED <<netVars, session, mutex, xfer, cut, bounds>>

(* ... or leaves a request behind; MQTT_ProcessLoop returns after it. *)
CallbackEnds ==
  /\ pump \in {"callback", "acked"} /\ pub["pump"] = "idle"
  /\ Release("pump")
  /\ pump' = "sleep"
  /\ UNCHANGED <<netVars, session, pub, xfer, cut, bounds>>

(* Mutant: the flag is left set. *)
LossNotReported ==
  /\ pump = "lost"
  /\ pump' = "none"
  /\ UNCHANGED <<netVars, session, mutex, pub, xfer, cut, bounds>>

PumpLost ==
  /\ pump = "lost"
  /\ connected' = FALSE /\ pump' = "none"
  /\ UNCHANGED <<netVars, stop, tls, leaked, mutex, pub, xfer, cut, bounds>>

-----------------------------------------------------------------------------
(* Transfer task *)

TransferAck ==
  /\ xfer = "work"
  /\ PublishCall("xfer") /\ xfer' = "ack"
  /\ UNCHANGED <<netVars, session, pump, mutex, cut, bounds>>

TransferEnds ==
  /\ xfer = "ack" /\ pub["xfer"] = "idle"
  /\ xfer' = "idle"
  /\ UNCHANGED <<netVars, session, pump, mutex, pub, cut, bounds>>

(* Surroundings: the peer or the link is gone; "apply" on the console. *)
Drop ==
  /\ tls = "open" /\ drops < MaxDrops
  /\ tls' = "broken" /\ drops' = drops + 1
  /\ UNCHANGED <<netVars, connected, stop, leaked, pump, mutex, pub, xfer, cut, restarts>>

Apply ==
  /\ restarts < MaxRestarts
  /\ restart' = TRUE /\ restarts' = restarts + 1
  /\ UNCHANGED <<net, app, lib, session, pump, mutex, pub, xfer, cut, drops>>

-----------------------------------------------------------------------------
NetStep ==
  \/ PollRestart \/ PollIdle \/ PollRunning \/ TelemetrySent \/ PollFailed
  \/ Disconnect \/ DisconnectTls \/ DisconnectEnds
  \/ TlsConnect \/ MqttConnect \/ SetConnected \/ CreatePump \/ CreateFails

PumpStep ==
  \/ PumpCheck \/ PumpTake \/ ProcessLoop \/ CallbackPublishes \/ CallbackEnds
  \/ PumpLost

XferStep == TransferAck \/ TransferEnds

Publish(t) == PublishTake(t) \/ PublishSent(t)

Next ==
  \/ NetStep \/ PumpStep \/ XferStep
  \/ \E t \in Tasks : Publish(t)
  \/ Drop \/ Apply

Spec == Init /\ [][Next]_vars

(* Tasks run on, and the mutex goes to its waiters, so each gets it in the  *)
(* end.  Discovery, the handshake and the task creation succeed if they are *)
(* tried again and again and there is memory; a callback returns.           *)
LiveSpec ==
  /\ Spec
  /\ WF_vars(NetStep) /\ WF_vars(PumpStep) /\ WF_vars(XferStep)
  /\ SF_vars(PumpTake) /\ SF_vars(CallbackEnds)
  /\ \A t \in Tasks : SF_vars(Publish(t))
  /\ SF_vars(PollIdle /\ net' = "tls") /\ SF_vars(TlsConnect /\ net' = "mqtt")
  /\ SF_vars(MqttConnect /\ net' = "spawn") /\ SF_vars(CreatePump)

-----------------------------------------------------------------------------
NetPcs == {"poll", "publish", "disc", "discMqtt", "discTls", "tls", "mqtt", "spawn",
           "create"}
InLoop == {"loop", "callback", "acked"}

(* Type correctness; the mutex is held exactly as often as it was taken.    *)
TypeOK ==
  /\ net \in NetPcs /\ app \in {"idle", "starting", "running", "failed"}
  /\ lib \in BOOLEAN /\ restart \in BOOLEAN /\ cut \in BOOLEAN
  /\ connected \in BOOLEAN /\ stop \in BOOLEAN
  /\ tls \in {"closed", "open", "broken"} /\ leaked \in Nat
  /\ pump \in {"none", "check", "sleep", "take", "lost"} \cup InLoop
  /\ holder \in Tasks \cup {NoTask} /\ depth \in 0..2
  /\ (depth = 0) = (holder = NoTask)
  /\ pub \in [Tasks -> {"idle", "take", "send"}]
  /\ xfer \in {"idle", "work", "ack"}
  /\ drops \in Nat /\ restarts \in Nat

(* Tasks inside a coreMQTT call on s_mqtt. *)
Users ==
  {t \in Tasks : \/ pub[t] = "send"
                 \/ t = "pump" /\ pump \in InLoop
                 \/ t = "net" /\ net \in {"mqtt", "discMqtt"}}

(* coreMQTT is not thread-safe: no two tasks are inside it at once, as long *)
(* as no restart from the console closed the session under its pump.        *)
ContextExclusive == cut \/ \A t, u \in Users : t = u

(* A transfer never outlives the connection it acknowledges on: while one   *)
(* is in flight the library stays initialised, and a message being sent has *)
(* a session to go to.                                                      *)
TransferHasSession ==
  /\ Busy => lib
  /\ pub["xfer"] = "send" => tls # "closed"

(* A connection that reports itself connected has a pump to serve it, or is *)
(* being opened or closed.                                                  *)
ConnectionServed ==
  connected => pump # "none" \/ net \in {"create", "disc", "discMqtt", "discTls"}

(* A lost connection is noticed. *)
LossNoticed == connected /\ tls = "broken" ~> ~ connected

(* Every publish returns, also one in a callback inside MQTT_ProcessLoop.   *)
PublishReturns == \A t \in Tasks : pub[t] = "take" ~> pub[t] = "idle"

(* After a lost connection or a failed start the device connects again.     *)
Reconnects == app = "failed" ~> app = "running"
=============================================================================
