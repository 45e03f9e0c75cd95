--------------------------- MODULE MqttClientProofs ---------------------------
(***************************************************************************)
(* The connection of MqttClient, for any number of drops and restarts: the *)
(* three tasks are never inside coreMQTT together, a transfer keeps its    *)
(* connection, and a connection keeps its pump.                            *)
(***************************************************************************)
EXTENDS MqttClient, TLAPS

(* The net thread beyond its poll: connecting, disconnecting. *)
Connecting == {"tls", "mqtt", "spawn", "create"}
Disconnecting == {"disc", "discMqtt", "discTls"}

(* No transfer is in flight while the net thread connects or disconnects,   *)
(* or before it has connected; what the library needs is there with it.     *)
TransferInv ==
  /\ net \in Connecting \cup Disconnecting \/ app \in {"idle", "starting"} => xfer = "idle"
  /\ pub["xfer"] # "idle" => xfer = "ack"
  /\ app \in {"starting", "running"} \/ Busy => lib
  /\ net \in Connecting => app = "starting"
  /\ net = "poll" => app # "starting"
  /\ net = "publish" => app = "running"
  /\ pub["net"] # "idle" => net = "publish"

(* Where the connection flag, the TLS session and the pump task agree. *)
ConnectionInv ==
  /\ net \in {"mqtt", "spawn", "create"} => tls # "closed" /\ pump = "none"
  /\ net \in {"tls", "mqtt", "spawn"} => ~ connected
  /\ connected => tls # "closed" \/ net = "discTls"
  /\ connected /\ net = "poll" => app = "running"
  /\ connected /\ stop => net \in {"discMqtt", "discTls"}
  /\ pub["xfer"] # "idle" => tls # "closed"
  /\ net = "discMqtt" /\ ~ cut => pump = "none"

(* Who holds the mutex, and how often. *)
MutexInv ==
  /\ pub["pump"] # "idle" => pump = "acked"
  /\ \A t \in {"net", "xfer"} : pub[t] = "send" => holder = t
  /\ holder = "pump" <=> pump \in InLoop
  /\ holder \in {"net", "xfer"} => depth = 1 /\ pub[holder] = "send"
  /\ holder = "pump" => depth = IF pub["pump"] = "send" THEN 2 ELSE 1

Inv == TypeOK /\ TransferInv /\ ConnectionInv /\ MutexInv /\ ConnectionServed
-----------------------------------------------------------------------------
LEMMA NetKeeps == Inv /\ NetStep => Inv'
<1> SUFFICES ASSUME Inv, NetStep PROVE Inv'
  OBVIOUS
<1> USE DEF Inv, TypeOK, TransferInv, ConnectionInv, MutexInv, ConnectionServed,
  Connecting, Disconnecting, NetPcs, InLoop, Tasks, NoTask, Busy, Release, netVars,
  session, mutex, bounds
<1>1. CASE PollRestart
  <2>1. TypeOK'
    <3>1. restart' \in BOOLEAN
      BY <1>1, Zenon DEF PollRestart, Restarting
    <3> QED
      BY <1>1, <3>1 DEF PollRestart, Restarting
  <2>2. TransferInv'
    BY <1>1 DEF PollRestart, Restarting
  <2>3. ConnectionInv'
    BY <1>1 DEF PollRestart, Restarting
  <2>4. MutexInv'
    BY <1>1 DEF PollRestart, Restarting
  <2>5. ConnectionServed'
    BY <1>1 DEF PollRestart, Restarting
  <2> QED
    BY <2>1, <2>2, <2>3, <2>4, <2>5
<1>2. CASE PollIdle
  BY <1>2 DEF PollIdle, Restarting
<1>3. CASE PollRunning
  BY <1>3 DEF PollRunning, Restarting, PublishCall
<1>4. CASE TelemetrySent
  BY <1>4 DEF TelemetrySent
<1>5. CASE PollFailed
  BY <1>5 DEF PollFailed, Restarting
<1>6. CASE Disconnect
  BY <1>6 DEF Disconnect, Disconnected
<1>7. CASE DisconnectTls
  BY <1>7 DEF DisconnectTls
<1>8. CASE DisconnectEnds
  <2>1. TypeOK'
    <3>1. lib' \in BOOLEAN
      BY <1>8, Zenon DEF DisconnectEnds, Disconnected
    <3>2. connected' \in BOOLEAN
      BY <1>8, Zenon DEF DisconnectEnds, Disconnected
    <3> QED
      BY <1>8, <3>1, <3>2 DEF DisconnectEnds, Disconnected
  <2>2. TransferInv'
    BY <1>8 DEF DisconnectEnds, Disconnected
  <2>3. ConnectionInv'
    BY <1>8 DEF DisconnectEnds, Disconnected
  <2>4. MutexInv'
    BY <1>8 DEF DisconnectEnds, Disconnected
  <2>5. ConnectionServed'
    BY <1>8 DEF DisconnectEnds, Disconnected
  <2> QED
    BY <2>1, <2>2, <2>3, <2>4, <2>5
<1>9. CASE TlsConnect
  <2>1. TypeOK'
    <3>1. cut' \in BOOLEAN
      BY <1>9, Zenon DEF TlsConnect
    <3>2. leaked' \in Nat
      BY <1>9 DEF TlsConnect
    <3> QED
      BY <1>9, <3>1, <3>2 DEF TlsConnect
  <2>2. TransferInv'
    BY <1>9 DEF TlsConnect
  <2>3. ConnectionInv'
    BY <1>9 DEF TlsConnect
  <2>4. MutexInv'
    BY <1>9 DEF TlsConnect
  <2>5. ConnectionServed'
    BY <1>9 DEF TlsConnect
  <2> QED
    BY <2>1, <2>2, <2>3, <2>4, <2>5
<1>10. CASE MqttConnect
  BY <1>10 DEF MqttConnect
<1>11. CASE SetConnected
  BY <1>11 DEF SetConnected
<1>12. CASE CreatePump
  BY <1>12 DEF CreatePump
<1>13. CASE CreateFails
  BY <1>13 DEF CreateFails
<1> QED
  BY <1>1, <1>2, <1>3, <1>4, <1>5, <1>6, <1>7, <1>8, <1>9, <1>10, <1>11, <1>12, <1>13 DEF NetStep

LEMMA PumpKeeps == Inv /\ PumpStep => Inv'
<1> SUFFICES ASSUME Inv, PumpStep PROVE Inv'
  OBVIOUS
<1> USE DEF Inv, TypeOK, TransferInv, ConnectionInv, MutexInv, ConnectionServed,
  Connecting, Disconnecting, NetPcs, InLoop, Tasks, NoTask, Busy, Release, netVars,
  session, mutex, bounds
<1>1. CASE PumpCheck
  BY <1>1 DEF PumpCheck
<1>2. CASE PumpTake
  BY <1>2 DEF PumpTake
<1>3. CASE ProcessLoop
  BY <1>3 DEF ProcessLoop
<1>4. CASE CallbackPublishes
  BY <1>4 DEF CallbackPublishes, PublishCall
<1>5. CASE CallbackEnds
  BY <1>5 DEF CallbackEnds
<1>6. CASE PumpLost
  <2>1. TypeOK'
    BY <1>6 DEF PumpLost
  <2>2. TransferInv'
    BY <1>6 DEF PumpLost
  <2>3. ConnectionInv'
    BY <1>6 DEF PumpLost
  <2>4. MutexInv'
    BY <1>6 DEF PumpLost
  <2>5. ConnectionServed'
    BY <1>6 DEF PumpLost
  <2> QED
    BY <2>1, <2>2, <2>3, <2>4, <2>5
<1> QED
  BY <1>1, <1>2, <1>3, <1>4, <1>5, <1>6 DEF PumpStep

LEMMA XferKeeps == Inv /\ XferStep => Inv'
<1> SUFFICES ASSUME Inv, XferStep PROVE Inv'
  OBVIOUS
<1> USE DEF Inv, TypeOK, TransferInv, ConnectionInv, MutexInv, ConnectionServed,
  Connecting, Disconnecting, NetPcs, InLoop, Tasks, NoTask, Busy, Release, netVars,
  session, mutex, bounds
<1>1. CASE TransferAck
  BY <1>1 DEF TransferAck, PublishCall
<1>2. CASE TransferEnds
  BY <1>2 DEF TransferEnds
<1> QED
  BY <1>1, <1>2 DEF XferStep

LEMMA PublishKeeps == \A t \in Tasks : Inv /\ Publish(t) => Inv'
<1> SUFFICES ASSUME NEW t \in Tasks, Inv, Publish(t) PROVE Inv'
  OBVIOUS
<1> USE DEF Inv, TypeOK, TransferInv, ConnectionInv, MutexInv, ConnectionServed,
  Connecting, Disconnecting, NetPcs, InLoop, Tasks, NoTask, Busy, Release, netVars,
  session, mutex, bounds
<1>1. CASE PublishTake(t)
  BY <1>1 DEF PublishTake
<1>2. CASE PublishSent(t)
  BY <1>2 DEF PublishSent
<1> QED
  BY <1>1, <1>2 DEF Publish

LEMMA OthersKeep == Inv /\ (Drop \/ Apply \/ UNCHANGED vars) => Inv'
<1> SUFFICES ASSUME Inv, Drop \/ Apply \/ UNCHANGED vars PROVE Inv'
  OBVIOUS
<1> USE DEF Inv, TypeOK, TransferInv, ConnectionInv, MutexInv, ConnectionServed,
  Connecting, Disconnecting, NetPcs, InLoop, Tasks, NoTask, Busy, Release, netVars,
  session, mutex, bounds
<1>1. CASE Drop
  BY <1>1 DEF Drop
<1>2. CASE Apply
  BY <1>2 DEF Apply
<1>3. CASE UNCHANGED vars
  BY <1>3 DEF vars
<1> QED
  BY <1>1, <1>2, <1>3

LEMMA InvStep == Inv /\ [Next]_vars => Inv'
  BY NetKeeps, PumpKeeps, XferKeeps, PublishKeeps, OthersKeep DEF Next

LEMMA InvHolds == Spec => []Inv
<1>1. Init => Inv
  <2> SUFFICES ASSUME Init PROVE Inv
    OBVIOUS
  <2> USE DEF Init, InLoop, Tasks, NoTask
  <2>1. TypeOK
    <3>1. /\ lib \in BOOLEAN /\ restart \in BOOLEAN /\ cut \in BOOLEAN
          /\ connected \in BOOLEAN /\ stop \in BOOLEAN
      BY Zenon
    <3> QED
      BY <3>1 DEF TypeOK, NetPcs
  <2>2. TransferInv
    BY DEF TransferInv, Connecting, Disconnecting, Busy
  <2>3. ConnectionInv
    BY DEF ConnectionInv
  <2>4. MutexInv
    BY DEF MutexInv
  <2>5. ConnectionServed
    BY DEF ConnectionServed
  <2> QED
    BY <2>1, <2>2, <2>3, <2>4, <2>5 DEF Inv
<1> QED
  BY <1>1, InvStep, PTL DEF Spec

-----------------------------------------------------------------------------
(* Every variable keeps its type. *)
THEOREM TypeCorrect == Spec => []TypeOK
  BY InvHolds, PTL DEF Inv

(* A connection that reports itself connected has a pump, or is being made  *)
(* or closed: the pump task clears s_connected before it ends, and a failed *)
(* task creation closes what was opened (iotc_mqtt_client.c).               *)
THEOREM Served == Spec => []ConnectionServed
  BY InvHolds, PTL DEF Inv

(* A transfer in flight keeps the library initialised and, while it sends,  *)
(* its session open: the net thread waits for it to end before it           *)
(* disconnects or retries (iotc_app.c).                                     *)
THEOREM TransferServed == Spec => []TransferHasSession
<1>1. Inv => TransferHasSession
  BY DEF Inv, TransferInv, ConnectionInv, TransferHasSession
<1> QED
  BY <1>1, InvHolds, PTL

(* The mutex, and the order of connecting and disconnecting where it is not *)
(* taken, keep every two tasks from being inside coreMQTT together.         *)
THEOREM Exclusive == Spec => []ContextExclusive
<1>1. Inv => ContextExclusive
  <2> SUFFICES ASSUME Inv, ~ cut, NEW t \in Users, NEW u \in Users PROVE t = u
    BY DEF ContextExclusive
  <2> USE DEF Inv, TypeOK, TransferInv, MutexInv, InLoop, Tasks, NoTask
  <2>1. \A v \in Users : \/ holder = v
                         \/ v = "net" /\ net \in {"mqtt", "discMqtt"}
    BY DEF Users
  <2>2. CASE net \in {"mqtt", "discMqtt"}
    <3>1. pump = "none" /\ xfer = "idle"
      BY <2>2 DEF ConnectionInv, Connecting, Disconnecting
    <3>2. holder = NoTask
      BY <2>2, <3>1
    <3> QED
      BY <2>1, <3>2 DEF Users
  <2>3. CASE net \notin {"mqtt", "discMqtt"}
    BY <2>1, <2>3
  <2> QED
    BY <2>2, <2>3
<1> QED
  BY <1>1, InvHolds, PTL
=============================================================================
