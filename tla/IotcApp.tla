-------------------------------- MODULE IotcApp --------------------------------
(***************************************************************************)
(* Connection, commands and long transfers: src/src/iotc/iotc_app.c.       *)
(*                                                                         *)
(* Four tasks share a handful of volatile flags and no lock.  The net      *)
(* thread polls: it connects, starts transfers, retries and restarts.  The *)
(* MQTT pump runs the cloud callbacks, which only leave a request behind.  *)
(* The transfer task executes one request at a time and acknowledges it.   *)
(* The serial console asks for snapshots and restarts.  Every step below   *)
(* reads or writes one of the shared flags, or blocks.                     *)
(*                                                                         *)
(* Net thread, pump and transfer task have the same priority and no time   *)
(* slices, so one replaces another when it blocks or when a camera or      *)
(* network task preempts it; preempt says whether that happens between     *)
(* the two flags of one condition in iotc_app_poll.                        *)
(*                                                                         *)
(* A push is the tuple s_model_host, s_model_res, s_model_ack_id, which    *)
(* the code sets and frees together.  The delays (20 s backoff, 5 minutes  *)
(* for heap, 2 s before a reboot) are "recent" until a timer step makes    *)
(* them "old".  Telemetry and the commands that answer at once and share   *)
(* no state with these tasks are left out.                                 *)
(*                                                                         *)
(* Taken as given: the pump leaves the callback it is in before the net    *)
(* thread has connected again.                                             *)
(***************************************************************************)
EXTENDS Integers

CONSTANTS
  Snaps,        \* the cloud's snapshot commands
  Pushes,       \* the cloud's model pushes
  NoReq,
  Preempts,     \* the values of preempt to look at
  MaxConsole,   \* bound: snapshots asked for on the serial console
  MaxConfig,    \* bound: configuration changes on the serial console
  MaxDrops,     \* bound: connections lost
  MaxBoots      \* bound: reboot commands

Reqs == Snaps \cup Pushes

ASSUME AppAssumption ==
  /\ NoReq \notin Reqs
  /\ Snaps \cap Pushes = {}
  /\ Preempts \subseteq BOOLEAN
  /\ MaxConsole \in Nat /\ MaxConfig \in Nat /\ MaxDrops \in Nat /\ MaxBoots \in Nat

VARIABLES
  \* net thread
  net,         \* where it is in iotc_app_poll; "sleep" between two polls
  app,         \* s_state
  failAt,      \* s_fail_at: "unset", "recent" or "old"
  used,        \* version of the configuration in s_stored
  selftested,  \* s_fu_tested
  \* connection and configuration
  conn,        \* s_connected of the MQTT client
  stored,      \* version of the configuration on the file system
  restartReq,  \* s_restart_req
  rebootAt,    \* s_reboot_pending and s_reboot_at: "unset", "recent", "old"
  \* model push
  modelPending, modelRunning,
  push,        \* the request in s_model_host, s_model_res, s_model_ack_id
  modelWait,   \* s_model_wait_since: "recent" or "old"
  \* snapshot
  snapPending, snapRunning,
  snapAck,     \* the request in s_snapshot_ack_id
  \* tasks
  xfer,        \* transfer task: where it is in its loop
  fetching,    \* the push whose strings prv_model_push_execute has taken up
  notified,    \* its task notification
  pump,        \* pump task: where it is in a callback, or "loop"
  inHand,      \* the request the callback is about
  \* history
  req,         \* req[r]: "new", "taken", "ended" (acknowledged), "twice"
               \* or "lost" (reset)
  applied,     \* version stored at the last apply
  consoles, drops, boots,
  preempt      \* never changed: the net thread is preempted inside a condition

netVars == <<net, app, failAt, used, selftested>>
configVars == <<stored, applied, restartReq>>
modelVars == <<modelPending, modelRunning, push, modelWait>>
snapVars == <<snapPending, snapRunning, snapAck>>
pumpVars == <<pump, inHand>>
taskVars == <<xfer, fetching, notified, pumpVars>>
bounds == <<consoles, drops, boots, preempt>>
vars == <<netVars, configVars, conn, rebootAt, modelVars, snapVars, taskVars,
          req, bounds>>

PumpLoop == pump = "loop"
EndCallback == pump' = "loop" /\ inHand' = NoReq

Init ==
  /\ net = "sleep" /\ app = "idle" /\ failAt = "unset" /\ used = 0
  /\ selftested = FALSE /\ conn = FALSE
  /\ stored = 0 /\ applied = 0 /\ restartReq = FALSE /\ rebootAt = "unset"
  /\ modelPending = FALSE /\ modelRunning = FALSE
  /\ push = NoReq /\ modelWait = "recent"
  /\ snapPending = FALSE /\ snapRunning = FALSE /\ snapAck = NoReq
  /\ xfer = "wait" /\ fetching = NoReq /\ notified = FALSE /\ pump = "loop" /\ inHand = NoReq
  /\ req = [r \in Reqs |-> "new"]
  /\ consoles = 0 /\ drops = 0 /\ boots = 0 /\ preempt \in Preempts

(* The final acknowledgement of a request ends it.  It is handed to the     *)
(* MQTT client, which publishes it, or drops it if the connection is lost   *)
(* by then or the publish fails; the caller is not told and does not ask,   *)
(* so that the request is over either way.                                  *)
Ended(r) == [req EXCEPT ![r] = IF @ \in {"new", "taken"} THEN "ended" ELSE "twice"]
End(r) == req' = Ended(r)

Busy == modelRunning \/ snapRunning   \* prv_xfer_busy

-----------------------------------------------------------------------------
(* Net thread: iotc_app_poll *)

(* Mutant: a restart asked for during a transfer is forgotten. *)
RestartForgotten ==
  /\ net = "sleep"
  /\ restartReq' = FALSE
  /\ net' = IF restartReq /\ ~ Busy THEN "restart" ELSE "switch"
  /\ UNCHANGED <<app, failAt, used, selftested, stored, applied, conn, rebootAt,
                 modelVars, snapVars, taskVars, req, bounds>>

PollRestart ==
  /\ net = "sleep"
  /\ IF restartReq /\ ~ Busy
     THEN restartReq' = FALSE /\ net' = "restart"
     ELSE net' = "switch" /\ UNCHANGED restartReq
  /\ UNCHANGED <<app, failAt, used, selftested, stored, applied, conn, rebootAt,
                 modelVars, snapVars, taskVars, req, bounds>>

(* iotconnect_sdk_deinit, then the IDLE state: in the same poll after a     *)
(* restart request, in the next one after a failure.                        *)
Deinit ==
  /\ net \in {"restart", "retry"}
  /\ conn' = FALSE /\ app' = "idle"
  /\ net' = IF net = "restart" THEN "switch" ELSE "sleep"
  /\ UNCHANGED <<failAt, used, selftested, configVars, rebootAt, modelVars,
                 snapVars, taskVars, req, bounds>>

(* IDLE: no network or no credentials, or load them and begin. *)
PollIdle ==
  /\ net = "switch" /\ app = "idle"
  /\ \/ net' = "sleep" /\ UNCHANGED <<app, used>>
     \/ net' = "start" /\ app' = "starting" /\ used' = stored
  /\ UNCHANGED <<failAt, selftested, configVars, conn, rebootAt, modelVars,
                 snapVars, taskVars, req, bounds>>

(* No time from SNTP, or discovery or the MQTT connection failed. *)
StartFails ==
  /\ net = "start"
  /\ net' = "sleep" /\ app' \in {"idle", "failed"}
  /\ UNCHANGED <<failAt, used, selftested, configVars, conn, rebootAt,
                 modelVars, snapVars, taskVars, req, bounds>>

(* Mutant: a new connection takes any earlier restart request as done. *)
ConnectClearsRestart ==
  /\ net = "start" /\ PumpLoop
  /\ net' = "sleep" /\ app' = "running" /\ conn' = TRUE /\ restartReq' = FALSE
  /\ UNCHANGED <<failAt, used, selftested, stored, applied, rebootAt, modelVars,
                 snapVars, taskVars, req, bounds>>

Connect ==
  /\ net = "start" /\ PumpLoop
  /\ net' = "sleep" /\ app' = "running" /\ conn' = TRUE
  /\ UNCHANGED <<failAt, used, selftested, configVars, rebootAt, modelVars,
                 snapVars, taskVars, req, bounds>>

(* Mutant: s_fu_tested is never set. *)
SelftestAgain ==
  /\ net = "switch" /\ app = "running"
  /\ IF ~ conn THEN net' = "sleep" /\ app' = "failed"
     ELSE net' = "selftest" /\ UNCHANGED app
  /\ UNCHANGED <<failAt, used, selftested, configVars, conn, rebootAt,
                 modelVars, snapVars, taskVars, req, bounds>>

PollRunning ==
  /\ net = "switch" /\ app = "running"
  /\ IF ~ conn
     THEN net' = "sleep" /\ app' = "failed" /\ UNCHANGED selftested
     ELSE /\ net' = IF selftested THEN "model" ELSE "selftest"
          /\ selftested' = TRUE
          /\ UNCHANGED app
  /\ UNCHANGED <<failAt, used, configVars, conn, rebootAt, modelVars, snapVars,
                 taskVars, req, bounds>>

(* iotc_fu_selftest has fetched the upload credentials. *)
Selftested ==
  /\ net = "selftest"
  /\ net' = "model"
  /\ UNCHANGED <<app, failAt, used, selftested, configVars, conn, rebootAt,
                 modelVars, snapVars, taskVars, req, bounds>>

(* s_model_pending, then s_model_running and the heap ... *)
DecideModel ==
  \/ /\ modelRunning \/ modelWait = "recent"   \* running, or the heap is tight
     /\ net' = "snap" /\ UNCHANGED modelRunning
  \/ /\ ~ modelRunning
     /\ modelRunning' = TRUE /\ net' = "modelNotify"

PollModel ==
  /\ net = "model"
  /\ \/ ~ modelPending /\ net' = "snap" /\ UNCHANGED modelRunning
     \/ modelPending /\ preempt /\ net' = "modelRunning" /\ UNCHANGED modelRunning
     \/ modelPending /\ ~ preempt /\ DecideModel
  /\ UNCHANGED <<app, failAt, used, selftested, configVars, conn, rebootAt,
                 modelPending, push, modelWait, snapVars, taskVars, req,
                 bounds>>

StartModel ==
  /\ net = "modelRunning"
  /\ DecideModel
  /\ UNCHANGED <<app, failAt, used, selftested, configVars, conn, rebootAt,
                 modelPending, push, modelWait, snapVars, taskVars, req,
                 bounds>>

(* ... and s_snapshot_pending, then s_snapshot_running. *)
DecideSnap ==
  IF snapRunning THEN net' = "reboot" /\ UNCHANGED snapRunning
  ELSE snapRunning' = TRUE /\ net' = "snapNotify"

(* Mutant: without a snapshot the poll returns early. *)
SnapReturnsEarly ==
  /\ net = "snap"
  /\ IF snapPending THEN DecideSnap ELSE net' = "sleep" /\ UNCHANGED snapRunning
  /\ UNCHANGED <<app, failAt, used, selftested, configVars, conn, rebootAt,
                 modelVars, snapPending, snapAck, taskVars, req, bounds>>

PollSnap ==
  /\ net = "snap"
  /\ \/ ~ snapPending /\ net' = "reboot" /\ UNCHANGED snapRunning
     \/ snapPending /\ preempt /\ net' = "snapRunning" /\ UNCHANGED snapRunning
     \/ snapPending /\ ~ preempt /\ DecideSnap
  /\ UNCHANGED <<app, failAt, used, selftested, configVars, conn, rebootAt,
                 modelVars, snapPending, snapAck, taskVars, req, bounds>>

StartSnap ==
  /\ net = "snapRunning"
  /\ DecideSnap
  /\ UNCHANGED <<app, failAt, used, selftested, configVars, conn, rebootAt,
                 modelVars, snapPending, snapAck, taskVars, req, bounds>>

(* xTaskNotifyGive in prv_xfer_start *)
Notify ==
  /\ net \in {"modelNotify", "snapNotify"}
  /\ notified' = TRUE
  /\ net' = IF net = "modelNotify" THEN "snap" ELSE "reboot"
  /\ UNCHANGED <<app, failAt, used, selftested, configVars, conn, rebootAt,
                 modelVars, snapVars, xfer, fetching, pumpVars, req,
                 bounds>>

(* The reboot is due: it waits for nothing that is in flight. *)
PollReboot ==
  /\ net = "reboot"
  /\ net' = IF rebootAt = "old" THEN "reset" ELSE "sleep"
  /\ UNCHANGED <<app, failAt, used, selftested, configVars, conn, rebootAt,
                 modelVars, snapVars, taskVars, req, bounds>>

(* Mutant: the retry does not wait for a transfer in flight. *)
RetryWhileBusy ==
  /\ net = "switch" /\ app = "failed"
  /\ IF failAt = "old" THEN failAt' = "unset" /\ net' = "retry"
     ELSE failAt' = "recent" /\ net' = "sleep"
  /\ UNCHANGED <<app, used, selftested, configVars, conn, rebootAt, modelVars,
                 snapVars, taskVars, req, bounds>>

PollFailed ==
  /\ net = "switch" /\ app = "failed"
  /\ IF failAt = "unset"
     THEN failAt' = "recent" /\ net' = "sleep"
     ELSE IF failAt = "old" /\ ~ Busy
     THEN failAt' = "unset" /\ net' = "retry"
     ELSE net' = "sleep" /\ UNCHANGED failAt
  /\ UNCHANGED <<app, used, selftested, configVars, conn, rebootAt, modelVars,
                 snapVars, taskVars, req, bounds>>

(* NVIC_SystemReset: the RAM is gone, with the requests it held. *)
Reset ==
  /\ net = "reset"
  /\ net' = "sleep" /\ app' = "idle" /\ failAt' = "unset" /\ used' = 0
  /\ selftested' = FALSE /\ conn' = FALSE /\ restartReq' = FALSE /\ rebootAt' = "unset"
  /\ modelPending' = FALSE /\ modelRunning' = FALSE
  /\ push' = NoReq /\ modelWait' = "recent"
  /\ snapPending' = FALSE /\ snapRunning' = FALSE /\ snapAck' = NoReq
  /\ xfer' = "wait" /\ fetching' = NoReq /\ notified' = FALSE /\ EndCallback
  /\ req' = [r \in Reqs |-> IF req[r] = "taken" THEN "lost" ELSE req[r]]
  /\ UNCHANGED <<stored, applied, bounds>>

-----------------------------------------------------------------------------
(* MQTT pump: prv_on_command and prv_on_ota *)

Receives == conn /\ PumpLoop

(* Mutant: a snapshot that is pending is not looked for. *)
SnapshotAlwaysTaken(s) ==
  /\ Receives /\ req[s] = "new"
  /\ req' = [req EXCEPT ![s] = "taken"]
  /\ pump' = "snapStore" /\ inHand' = s
  /\ UNCHANGED <<netVars, configVars, conn, rebootAt, modelVars, snapVars, xfer,
                 fetching, notified, bounds>>

(* "snapshot": refused while one is pending, else remembered. *)
SnapshotCommand(s) ==
  /\ Receives /\ req[s] = "new"
  /\ IF snapPending THEN End(s) /\ UNCHANGED pumpVars
     ELSE /\ req' = [req EXCEPT ![s] = "taken"]
          /\ pump' = "snapStore" /\ inHand' = s
  /\ UNCHANGED <<netVars, configVars, conn, rebootAt, modelVars, snapVars, xfer,
                 fetching, notified, bounds>>

SnapStore ==
  /\ pump = "snapStore"
  /\ snapAck' = inHand
  /\ pump' = "snapPend" /\ UNCHANGED inHand
  /\ UNCHANGED <<netVars, configVars, conn, rebootAt, modelVars, snapPending,
                 snapRunning, xfer, fetching, notified, req, bounds>>

SnapPend ==
  /\ pump = "snapPend"
  /\ snapPending' = TRUE
  /\ EndCallback
  /\ UNCHANGED <<netVars, configVars, conn, rebootAt, modelVars, snapRunning,
                 snapAck, xfer, fetching, notified, req, bounds>>

(* prv_on_ota: refused while a push is pending, else the strings are        *)
(* replaced, the wait for heap begins and the push is pending.              *)
PushCommand(p) ==
  /\ Receives /\ req[p] = "new"
  /\ IF modelPending THEN End(p) /\ UNCHANGED pumpVars
     ELSE /\ req' = [req EXCEPT ![p] = "taken"]
          /\ pump' = "pushStore" /\ inHand' = p
  /\ UNCHANGED <<netVars, configVars, conn, rebootAt, modelVars, snapVars, xfer,
                 fetching, notified, bounds>>

(* Mutant: the acknowledgement id of a push goes to the snapshot's. *)
PushStoreWrongAck ==
  /\ pump = "pushStore"
  /\ snapAck' = inHand /\ push' = inHand /\ modelWait' = "recent"
  /\ pump' = "pushPend" /\ UNCHANGED inHand
  /\ UNCHANGED <<netVars, configVars, conn, rebootAt, modelPending,
                 modelRunning, snapPending, snapRunning, xfer, fetching,
                 notified, req, bounds>>

PushStore ==
  /\ pump = "pushStore"
  /\ push' = inHand /\ modelWait' = "recent"
  /\ pump' = "pushPend" /\ UNCHANGED inHand
  /\ UNCHANGED <<netVars, configVars, conn, rebootAt, modelPending,
                 modelRunning, snapVars, xfer, fetching, notified, req,
                 bounds>>

PushPend ==
  /\ pump = "pushPend"
  /\ modelPending' = TRUE
  /\ EndCallback
  /\ UNCHANGED <<netVars, configVars, conn, rebootAt, modelRunning, push,
                 modelWait, snapVars, xfer, fetching, notified, req,
                 bounds>>

RebootCommand ==
  /\ Receives /\ boots < MaxBoots
  /\ rebootAt' = "recent" /\ boots' = boots + 1
  /\ UNCHANGED <<netVars, configVars, conn, modelVars, snapVars, taskVars, req, consoles,
                 drops, preempt>>

(* MQTT_ProcessLoop fails; the pump task ends. *)
Drop ==
  /\ Receives /\ drops < MaxDrops
  /\ conn' = FALSE /\ drops' = drops + 1
  /\ UNCHANGED <<netVars, configVars, rebootAt, modelVars, snapVars, taskVars,
                 req, consoles, boots, preempt>>

-----------------------------------------------------------------------------
(* Transfer task: prv_xfer_task *)

TakeNotify ==
  /\ xfer = "wait" /\ notified
  /\ notified' = FALSE
  /\ xfer' = "checkModel"
  /\ UNCHANGED <<netVars, configVars, conn, rebootAt, modelVars, snapVars,
                 fetching, pumpVars, req, bounds>>

CheckModel ==
  /\ xfer = "checkModel"
  /\ xfer' = IF modelRunning THEN "download" ELSE "checkSnap"
  /\ fetching' = IF modelRunning THEN push ELSE NoReq
  /\ UNCHANGED <<netVars, configVars, conn, rebootAt, modelVars, snapVars,
                 notified, pumpVars, req, bounds>>

(* prv_model_push_execute: the download fails for lack of heap and stays    *)
(* pending with a new wait ...                                              *)
HeapShort ==
  /\ xfer = "download"
  /\ modelWait' = "recent" /\ fetching' = NoReq
  /\ xfer' = "modelEnd"
  /\ UNCHANGED <<netVars, configVars, conn, rebootAt, modelPending,
                 modelRunning, push, snapVars, notified, pumpVars, req,
                 bounds>>

(* ... or it ends, well or badly, and is acknowledged. *)
Downloaded ==
  /\ xfer = "download"
  /\ IF fetching # NoReq THEN End(fetching) ELSE UNCHANGED req
  /\ fetching' = NoReq
  /\ xfer' = "modelFree"
  /\ UNCHANGED <<netVars, configVars, conn, rebootAt, modelVars, snapVars,
                 notified, pumpVars, bounds>>

ModelFree ==
  /\ xfer = "modelFree"
  /\ push' = NoReq
  /\ xfer' = "modelClear"
  /\ UNCHANGED <<netVars, configVars, conn, rebootAt, modelPending,
                 modelRunning, modelWait, snapVars, fetching, notified,
                 pumpVars, req, bounds>>

ModelClear ==
  /\ xfer = "modelClear"
  /\ modelPending' = FALSE
  /\ xfer' = "modelEnd"
  /\ UNCHANGED <<netVars, configVars, conn, rebootAt, modelRunning, push,
                 modelWait, snapVars, fetching, notified, pumpVars, req,
                 bounds>>

(* Mutant: s_model_running stays set after the download. *)
ModelKeepsRunning ==
  /\ xfer = "modelEnd"
  /\ xfer' = "checkSnap"
  /\ UNCHANGED <<netVars, configVars, conn, rebootAt, modelVars, snapVars,
                 fetching, notified, pumpVars, req, bounds>>

ModelEnd ==
  /\ xfer = "modelEnd"
  /\ modelRunning' = FALSE
  /\ xfer' = "checkSnap"
  /\ UNCHANGED <<netVars, configVars, conn, rebootAt, modelPending, push,
                 modelWait, snapVars, fetching, notified, pumpVars, req,
                 bounds>>

CheckSnap ==
  /\ xfer = "checkSnap"
  /\ xfer' = IF snapRunning THEN "capture" ELSE "wait"
  /\ UNCHANGED <<netVars, configVars, conn, rebootAt, modelVars, snapVars,
                 fetching, notified, pumpVars, req, bounds>>

(* iotc_snapshot_capture_upload: the frame is taken, then uploaded. *)
Capture ==
  /\ xfer = "capture"
  /\ xfer' = "upload"
  /\ UNCHANGED <<netVars, configVars, conn, rebootAt, modelVars, snapVars,
                 fetching, notified, pumpVars, req, bounds>>

(* The upload is over; a snapshot of the cloud is acknowledged. *)
Uploaded ==
  /\ xfer = "upload"
  /\ IF snapAck # NoReq
     THEN End(snapAck) /\ xfer' = "snapFree"
     ELSE xfer' = "snapClear" /\ UNCHANGED req
  /\ UNCHANGED <<netVars, configVars, conn, rebootAt, modelVars, snapVars,
                 fetching, notified, pumpVars, bounds>>

(* Mutant: the freed acknowledgement id is kept. *)
SnapFreeKeepsAck ==
  /\ xfer = "snapFree"
  /\ xfer' = "snapClear"
  /\ UNCHANGED <<netVars, configVars, conn, rebootAt, modelVars, snapVars,
                 fetching, notified, pumpVars, req, bounds>>

SnapFree ==
  /\ xfer = "snapFree"
  /\ snapAck' = NoReq
  /\ xfer' = "snapClear"
  /\ UNCHANGED <<netVars, configVars, conn, rebootAt, modelVars, snapPending,
                 snapRunning, fetching, notified, pumpVars, req, bounds>>

SnapClear ==
  /\ xfer = "snapClear"
  /\ snapPending' = FALSE
  /\ xfer' = "snapEnd"
  /\ UNCHANGED <<netVars, configVars, conn, rebootAt, modelVars, snapRunning,
                 snapAck, fetching, notified, pumpVars, req, bounds>>

SnapEnd ==
  /\ xfer = "snapEnd"
  /\ snapRunning' = FALSE
  /\ xfer' = "wait"
  /\ UNCHANGED <<netVars, configVars, conn, rebootAt, modelVars, snapPending,
                 snapAck, fetching, notified, pumpVars, req, bounds>>

-----------------------------------------------------------------------------
(* Serial console, of lower priority than the pump, which does not block    *)
(* between the test and the setting of s_snapshot_pending.                  *)

ConsoleSnapshot ==
  /\ consoles < MaxConsole
  /\ pump \notin {"snapStore", "snapPend"}
  /\ snapPending' = TRUE
  /\ consoles' = consoles + 1
  /\ UNCHANGED <<netVars, configVars, conn, rebootAt, modelVars, snapRunning,
                 snapAck, taskVars, req, drops, boots, preempt>>

ConsoleSet ==
  /\ stored < MaxConfig
  /\ stored' = stored + 1
  /\ UNCHANGED <<netVars, applied, restartReq, conn, rebootAt, modelVars,
                 snapVars, taskVars, req, bounds>>

ConsoleApply ==
  /\ applied < stored
  /\ restartReq' = TRUE /\ applied' = stored
  /\ UNCHANGED <<netVars, stored, conn, rebootAt, modelVars, snapVars, taskVars,
                 req, bounds>>

(* Time passes. *)
Timer ==
  /\ \/ failAt = "recent" /\ failAt' = "old" /\ UNCHANGED <<modelWait, rebootAt>>
     \/ /\ modelPending /\ modelWait = "recent" /\ modelWait' = "old"
        /\ UNCHANGED <<failAt, rebootAt>>
     \/ rebootAt = "recent" /\ rebootAt' = "old" /\ UNCHANGED <<failAt, modelWait>>
  /\ UNCHANGED <<net, app, used, selftested, configVars, conn, modelPending,
                 modelRunning, push, snapVars, taskVars, req, bounds>>

-----------------------------------------------------------------------------
NetStep ==
  \/ PollRestart \/ Deinit \/ PollIdle \/ StartFails \/ Connect \/ PollRunning
  \/ Selftested \/ PollModel \/ StartModel \/ PollSnap \/ StartSnap \/ Notify
  \/ PollReboot \/ PollFailed \/ Reset

Callback == SnapStore \/ SnapPend \/ PushStore \/ PushPend

XferStep ==
  \/ TakeNotify \/ CheckModel \/ HeapShort \/ Downloaded \/ ModelFree \/ ModelClear \/ ModelEnd
  \/ CheckSnap \/ Capture \/ Uploaded \/ SnapFree \/ SnapClear \/ SnapEnd

CloudOrConsole ==
  \/ \E s \in Snaps : SnapshotCommand(s)
  \/ \E p \in Pushes : PushCommand(p)
  \/ RebootCommand \/ Drop
  \/ ConsoleSnapshot \/ ConsoleSet \/ ConsoleApply

Next == NetStep \/ Callback \/ XferStep \/ CloudOrConsole \/ Timer

Spec == Init /\ [][Next]_vars

(* Every task runs on, and time passes.  The network comes up, a start      *)
(* succeeds and a download ends otherwise than for lack of heap, if each is *)
(* tried again and again.                                                   *)
LiveSpec ==
  /\ Spec
  /\ WF_vars(NetStep) /\ WF_vars(Callback) /\ WF_vars(XferStep) /\ WF_vars(Timer)
  /\ SF_vars(PollIdle /\ net' = "start") /\ SF_vars(Connect) /\ SF_vars(Downloaded)

-----------------------------------------------------------------------------
NetPcs == {"sleep", "restart", "retry", "switch", "start", "selftest", "model",
           "modelRunning", "modelNotify", "snap", "snapRunning", "snapNotify",
           "reboot", "reset"}
Downloading == {"download", "modelFree", "modelClear", "modelEnd"}
Uploading == {"capture", "upload", "snapFree", "snapClear", "snapEnd"}
XferPcs == {"wait", "checkModel", "checkSnap"} \cup Downloading \cup Uploading
Ages == {"unset", "recent", "old"}

(* Type correctness; the pump has a request in hand inside a callback only. *)
TypeOK ==
  /\ net \in NetPcs /\ app \in {"idle", "starting", "running", "failed"}
  /\ failAt \in Ages /\ rebootAt \in Ages /\ modelWait \in Ages \ {"unset"}
  /\ used \in 0..stored /\ stored \in Nat /\ applied \in 0..stored
  /\ selftested \in BOOLEAN /\ conn \in BOOLEAN /\ restartReq \in BOOLEAN
  /\ modelPending \in BOOLEAN /\ modelRunning \in BOOLEAN
  /\ snapPending \in BOOLEAN /\ snapRunning \in BOOLEAN
  /\ push \in Pushes \cup {NoReq} /\ fetching \in Pushes \cup {NoReq}
  /\ snapAck \in Snaps \cup {NoReq}
  /\ xfer \in XferPcs /\ notified \in BOOLEAN
  /\ pump \in {"loop", "snapStore", "snapPend", "pushStore", "pushPend"}
  /\ pump = "loop" => inHand = NoReq
  /\ pump \in {"snapStore", "snapPend"} => inHand \in Snaps
  /\ pump \in {"pushStore", "pushPend"} => inHand \in Pushes
  /\ req \in [Reqs -> {"new", "taken", "ended", "twice", "lost"}]
  /\ consoles \in Nat /\ drops \in Nat /\ boots \in Nat /\ preempt \in BOOLEAN

(* The connection is torn down, and the next one made, only when no         *)
(* transfer is running or about to run: its acknowledgement uses the        *)
(* connection and the library it belongs to.                                *)
TransferKeepsConnection ==
  (net \in {"restart", "retry", "start"} \/ app = "idle")
    => ~ Busy /\ xfer \notin Downloading \cup Uploading

(* The response buffer s_fu_buf of iotc_file_upload.c has no lock: the      *)
(* credentials self-test on the net thread and an upload on the transfer    *)
(* task never overlap.                                                      *)
ScratchExclusive == ~ (net = "selftest" /\ xfer \in Uploading)

(* A transfer that was started is executed: its flag is never set with the  *)
(* transfer task asleep and no notification on its way.                     *)
NoLostWakeup ==
  /\ modelRunning => \/ notified \/ net = "modelNotify"
                     \/ xfer \in {"checkModel"} \cup Downloading
  /\ snapRunning => \/ notified \/ net = "snapNotify"
                    \/ xfer \in {"checkModel", "checkSnap"} \cup Downloading \cup Uploading

(* Every request the board has taken is kept, where the transfer task will  *)
(* find it, until it is ended or the board is reset.                        *)
KeptRequest(r) ==
  \/ inHand = r
  \/ r = snapAck /\ snapPending
  \/ r = push /\ modelPending

RequestsKept == \A r \in Reqs : req[r] = "taken" => KeptRequest(r)

(* They are, unless the net thread is preempted between two flags.          *)
RequestsKeptInTurn == ~ preempt => RequestsKept

(* No request gets two final acknowledgements. *)
EndedOnce == \A r \in Reqs : req[r] # "twice"

(* Once the restart a configuration change asked for has been taken up, the *)
(* board does not run under an older configuration.                         *)
AppliedConfigUsed ==
  app \in {"starting", "running", "failed"} /\ ~ restartReq /\ net # "restart"
    => used >= applied

(* Every request taken is carried through to its final acknowledgement,     *)
(* across lost connections, restarts and heap shortages, unless the board   *)
(* is reset.  That the cloud hears of it is not promised: the client drops  *)
(* the acknowledgement of a transfer that outlives its connection.          *)
RequestsCarriedOut ==
  \A r \in Reqs : req[r] = "taken" ~> req[r] \in {"ended", "lost"}

(* An applied configuration comes into use. *)
ApplyTakesEffect ==
  \A v \in 1..MaxConfig : applied = v ~> app = "running" /\ used >= v

(* A reboot command that was acknowledged resets the board. *)
RebootHappens == rebootAt # "unset" ~> rebootAt = "unset"
=============================================================================
