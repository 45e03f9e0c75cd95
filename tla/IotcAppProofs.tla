------------------------------ MODULE IotcAppProofs ------------------------------
(***************************************************************************)
(* Proofs about IotcApp, for any requests and bounds and whether or not    *)
(* the net thread is preempted between the flags it reads.                 *)
(*                                                                         *)
(* What makes the unlocked flags safe is who writes them: only the net     *)
(* thread sets a running flag and it does so in the RUNNING state, after   *)
(* the self-test; only the transfer task clears it, and works on a         *)
(* transfer only while its flag is set.  TransferInv says so.  That a      *)
(* request is never dropped rests on the pending flags instead, and on the *)
(* net thread reading pending and running in one turn: KeptInv.            *)
(***************************************************************************)
EXTENDS IotcApp, TLAPS

Checking == {"model", "modelRunning", "modelNotify", "snap", "snapRunning",
             "snapNotify", "reboot", "reset"}

(* Where the net thread is says what state it polls in, and that the       *)
(* self-test was begun.                                                     *)
PollsInState ==
  /\ net \in Checking \cup {"selftest"} => app = "running" /\ selftested
  /\ net = "start" <=> app = "starting"
  /\ app \in {"idle", "starting", "running", "failed"}
  /\ net \in NetPcs /\ xfer \in XferPcs

(* The transfer task works on a transfer only while its flag is set. *)
WorksOnStarted ==
  /\ xfer \in Downloading => modelRunning
  /\ xfer \in Uploading => snapRunning

(* Nothing is started before the self-test is over, nor kept running while  *)
(* the connection is made or torn down.                                     *)
NothingStarted ==
  (~ selftested \/ net \in {"selftest", "restart", "retry", "start"} \/ app = "idle")
    => ~ Busy

TransferInv == PollsInState /\ WorksOnStarted /\ NothingStarted /\ NoLostWakeup

-----------------------------------------------------------------------------
LEMMA InitTransferInv == Init => TransferInv
  BY DEF Init, TransferInv, PollsInState, WorksOnStarted, NothingStarted, NoLostWakeup,
         Busy, Checking, NetPcs, XferPcs, Downloading, Uploading

LEMMA TransferStep == TransferInv /\ [Next]_vars => TransferInv'
<1>. SUFFICES ASSUME TransferInv, [Next]_vars PROVE TransferInv'
  OBVIOUS
<1>. USE DEF TransferInv, PollsInState, WorksOnStarted, NothingStarted, NoLostWakeup,
             Busy, Checking, NetPcs, XferPcs, Downloading, Uploading, netVars,
             configVars, modelVars, snapVars, taskVars
<1>1. CASE NetStep
  <2>1. CASE PollRestart
    BY <2>1 DEF PollRestart
  <2>2. CASE Deinit
    BY <2>2 DEF Deinit
  <2>3. CASE PollIdle
    BY <2>3 DEF PollIdle
  <2>4. CASE StartFails
    BY <2>4 DEF StartFails
  <2>5. CASE Connect
    BY <2>5 DEF Connect
  <2>6. CASE PollRunning
    BY <2>6 DEF PollRunning
  <2>7. CASE Selftested
    BY <2>7 DEF Selftested
  <2>8. CASE PollModel
    BY <2>8 DEF PollModel, DecideModel
  <2>9. CASE StartModel
    BY <2>9 DEF StartModel, DecideModel
  <2>10. CASE PollSnap
    BY <2>10 DEF PollSnap, DecideSnap
  <2>11. CASE StartSnap
    BY <2>11 DEF StartSnap, DecideSnap
  <2>12. CASE Notify
    BY <2>12 DEF Notify
  <2>13. CASE PollReboot
    BY <2>13 DEF PollReboot
  <2>14. CASE PollFailed
    BY <2>14 DEF PollFailed
  <2>15. CASE Reset
    BY <2>15 DEF Reset
  <2>. QED
    BY <1>1, <2>1, <2>2, <2>3, <2>4, <2>5, <2>6, <2>7, <2>8, <2>9, <2>10,
       <2>11, <2>12, <2>13, <2>14, <2>15 DEF NetStep
<1>2. CASE Callback
  <2>1. CASE SnapStore
    BY <2>1 DEF SnapStore
  <2>2. CASE SnapPend
    BY <2>2 DEF SnapPend
  <2>3. CASE PushStore
    BY <2>3 DEF PushStore
  <2>4. CASE PushPend
    BY <2>4 DEF PushPend
  <2>. QED
    BY <1>2, <2>1, <2>2, <2>3, <2>4 DEF Callback
<1>3. CASE XferStep
  <2>1. CASE TakeNotify
    BY <2>1 DEF TakeNotify
  <2>2. CASE CheckModel
    BY <2>2 DEF CheckModel
  <2>3. CASE HeapShort
    BY <2>3 DEF HeapShort
  <2>4. CASE Downloaded
    BY <2>4 DEF Downloaded
  <2>5. CASE ModelFree
    BY <2>5 DEF ModelFree
  <2>6. CASE ModelClear
    BY <2>6 DEF ModelClear
  <2>7. CASE ModelEnd
    BY <2>7 DEF ModelEnd
  <2>8. CASE CheckSnap
    BY <2>8 DEF CheckSnap
  <2>9. CASE Capture
    BY <2>9 DEF Capture
  <2>10. CASE Uploaded
    BY <2>10 DEF Uploaded
  <2>11. CASE SnapFree
    BY <2>11 DEF SnapFree
  <2>12. CASE SnapClear
    BY <2>12 DEF SnapClear
  <2>13. CASE SnapEnd
    BY <2>13 DEF SnapEnd
  <2>. QED
    BY <1>3, <2>1, <2>2, <2>3, <2>4, <2>5, <2>6, <2>7, <2>8, <2>9, <2>10,
       <2>11, <2>12, <2>13 DEF XferStep
<1>4. CASE CloudOrConsole
  <2>1. ASSUME NEW s \in Snaps, SnapshotCommand(s) PROVE TransferInv'
    BY <2>1 DEF SnapshotCommand
  <2>2. ASSUME NEW p \in Pushes, PushCommand(p) PROVE TransferInv'
    BY <2>2 DEF PushCommand
  <2>3. CASE RebootCommand
    BY <2>3 DEF RebootCommand
  <2>4. CASE Drop
    BY <2>4 DEF Drop
  <2>5. CASE ConsoleSnapshot
    BY <2>5 DEF ConsoleSnapshot
  <2>6. CASE ConsoleSet
    BY <2>6 DEF ConsoleSet
  <2>7. CASE ConsoleApply
    BY <2>7 DEF ConsoleApply
  <2>. QED
    BY <1>4, <2>1, <2>2, <2>3, <2>4, <2>5, <2>6, <2>7 DEF CloudOrConsole
<1>5. CASE Timer
  BY <1>5 DEF Timer
<1>6. CASE UNCHANGED vars
  BY <1>6 DEF vars
<1>. QED  BY <1>1, <1>2, <1>3, <1>4, <1>5, <1>6 DEF Next

THEOREM TransferInvariance == Spec => []TransferInv
<1>. QED  BY InitTransferInv, TransferStep, PTL DEF Spec

(* The connection is never torn down or remade under a transfer, although   *)
(* prv_xfer_busy is read without a lock by the thread that tears it down.   *)
THEOREM ConnectionOutlivesTransfer == Spec => []TransferKeepsConnection
<1>1. TransferInv => TransferKeepsConnection
  BY DEF TransferInv, PollsInState, WorksOnStarted, NothingStarted,
         TransferKeepsConnection, Busy
<1>. QED  BY <1>1, TransferInvariance, PTL

(* The upload code's unlocked response buffer has one user at a time.       *)
THEOREM ResponseBufferExclusive == Spec => []ScratchExclusive
<1>1. TransferInv => ScratchExclusive
  BY DEF TransferInv, WorksOnStarted, NothingStarted, ScratchExclusive, Busy
<1>. QED  BY <1>1, TransferInvariance, PTL

(* Setting the flag before giving the notification loses no transfer.       *)
THEOREM StartedTransferWakes == Spec => []NoLostWakeup
<1>1. TransferInv => NoLostWakeup
  BY DEF TransferInv
<1>. QED  BY <1>1, TransferInvariance, PTL

-----------------------------------------------------------------------------
(* Configuration versions: an older one than the last applied is in use     *)
(* only while a restart is still to come.                                   *)
ConfigInv ==
  /\ stored \in Nat /\ used \in 0..stored /\ applied \in 0..stored
  /\ AppliedConfigUsed

LEMMA InitConfigInv == Init => ConfigInv
  BY DEF Init, ConfigInv, AppliedConfigUsed

LEMMA ConfigStep == TransferInv /\ ConfigInv /\ [Next]_vars => ConfigInv'
<1>. SUFFICES ASSUME TransferInv, ConfigInv, [Next]_vars PROVE ConfigInv'
  OBVIOUS
<1>0. net = "start" => app = "starting"
  BY DEF TransferInv, PollsInState
<1>. USE <1>0 DEF ConfigInv, AppliedConfigUsed, netVars, configVars
<1>1. CASE NetStep
  <2>1. CASE PollRestart
    BY <2>1 DEF PollRestart
  <2>2. CASE Deinit
    BY <2>2 DEF Deinit
  <2>3. CASE PollIdle
    BY <2>3 DEF PollIdle
  <2>4. CASE StartFails
    BY <2>4 DEF StartFails
  <2>5. CASE Connect
    BY <2>5 DEF Connect
  <2>6. CASE PollRunning
    BY <2>6 DEF PollRunning
  <2>7. CASE Selftested
    BY <2>7 DEF Selftested
  <2>8. CASE PollModel
    BY <2>8 DEF PollModel, DecideModel
  <2>9. CASE StartModel
    BY <2>9 DEF StartModel, DecideModel
  <2>10. CASE PollSnap
    BY <2>10 DEF PollSnap, DecideSnap
  <2>11. CASE StartSnap
    BY <2>11 DEF StartSnap, DecideSnap
  <2>12. CASE Notify
    BY <2>12 DEF Notify
  <2>13. CASE PollReboot
    BY <2>13 DEF PollReboot
  <2>14. CASE PollFailed
    BY <2>14 DEF PollFailed
  <2>15. CASE Reset
    BY <2>15 DEF Reset
  <2>. QED
    BY <1>1, <2>1, <2>2, <2>3, <2>4, <2>5, <2>6, <2>7, <2>8, <2>9, <2>10,
       <2>11, <2>12, <2>13, <2>14, <2>15 DEF NetStep
<1>2. CASE Callback
  <2>1. CASE SnapStore
    BY <2>1 DEF SnapStore
  <2>2. CASE SnapPend
    BY <2>2 DEF SnapPend
  <2>3. CASE PushStore
    BY <2>3 DEF PushStore
  <2>4. CASE PushPend
    BY <2>4 DEF PushPend
  <2>. QED
    BY <1>2, <2>1, <2>2, <2>3, <2>4 DEF Callback
<1>3. CASE XferStep
  <2>1. CASE TakeNotify
    BY <2>1 DEF TakeNotify
  <2>2. CASE CheckModel
    BY <2>2 DEF CheckModel
  <2>3. CASE HeapShort
    BY <2>3 DEF HeapShort
  <2>4. CASE Downloaded
    BY <2>4 DEF Downloaded
  <2>5. CASE ModelFree
    BY <2>5 DEF ModelFree
  <2>6. CASE ModelClear
    BY <2>6 DEF ModelClear
  <2>7. CASE ModelEnd
    BY <2>7 DEF ModelEnd
  <2>8. CASE CheckSnap
    BY <2>8 DEF CheckSnap
  <2>9. CASE Capture
    BY <2>9 DEF Capture
  <2>10. CASE Uploaded
    BY <2>10 DEF Uploaded
  <2>11. CASE SnapFree
    BY <2>11 DEF SnapFree
  <2>12. CASE SnapClear
    BY <2>12 DEF SnapClear
  <2>13. CASE SnapEnd
    BY <2>13 DEF SnapEnd
  <2>. QED
    BY <1>3, <2>1, <2>2, <2>3, <2>4, <2>5, <2>6, <2>7, <2>8, <2>9, <2>10,
       <2>11, <2>12, <2>13 DEF XferStep
<1>4. CASE CloudOrConsole
  <2>1. ASSUME NEW s \in Snaps, SnapshotCommand(s) PROVE ConfigInv'
    BY <2>1 DEF SnapshotCommand
  <2>2. ASSUME NEW p \in Pushes, PushCommand(p) PROVE ConfigInv'
    BY <2>2 DEF PushCommand
  <2>3. CASE RebootCommand
    BY <2>3 DEF RebootCommand
  <2>4. CASE Drop
    BY <2>4 DEF Drop
  <2>5. CASE ConsoleSnapshot
    BY <2>5 DEF ConsoleSnapshot
  <2>6. CASE ConsoleSet
    BY <2>6 DEF ConsoleSet
  <2>7. CASE ConsoleApply
    BY <2>7 DEF ConsoleApply
  <2>. QED
    BY <1>4, <2>1, <2>2, <2>3, <2>4, <2>5, <2>6, <2>7 DEF CloudOrConsole
<1>5. CASE Timer
  BY <1>5 DEF Timer
<1>6. CASE UNCHANGED vars
  BY <1>6 DEF vars
<1>. QED  BY <1>1, <1>2, <1>3, <1>4, <1>5, <1>6 DEF Next

(* The restart flag, set by the console and cleared by the net thread with  *)
(* no lock, never loses a configuration change.                             *)
THEOREM ChangedConfigIsUsed == Spec => []AppliedConfigUsed
<1>1. ConfigInv => AppliedConfigUsed
  BY DEF ConfigInv
<1>. QED
  BY <1>1, TransferInvariance, InitConfigInv, ConfigStep, PTL DEF Spec

-----------------------------------------------------------------------------
RequestTypes ==
  /\ push \in Pushes \cup {NoReq} /\ fetching \in Pushes \cup {NoReq}
  /\ snapAck \in Snaps \cup {NoReq}
  /\ pump \in {"loop", "snapStore", "snapPend", "pushStore", "pushPend"}
  /\ req \in [Reqs -> {"new", "taken", "ended", "twice", "lost"}]

(* A request about to be stored is not stored yet, and has not ended. *)
InCallback ==
  /\ pump = "snapStore" =>
       inHand \in Snaps \ {snapAck} /\ req[inHand] = "taken"
  /\ pump = "pushStore" =>
       inHand \in Pushes \ {push, fetching} /\ req[inHand] = "taken"

(* A stored request, and the push taken up for download, has not ended,     *)
(* unless its storage is being freed.                                       *)
Stored ==
  /\ push # NoReq => req[push] # "new"
  /\ snapAck # NoReq => req[snapAck] # "new"
  /\ push # NoReq /\ xfer # "modelFree" => req[push] = "taken"
  /\ snapAck # NoReq /\ xfer # "snapFree" => req[snapAck] = "taken"
  /\ fetching # NoReq => xfer = "download" /\ req[fetching] = "taken"

RequestInv == RequestTypes /\ InCallback /\ Stored /\ EndedOnce

LEMMA InitRequestInv == Init => RequestInv
  BY AppAssumption DEF AppAssumption, Init, RequestInv, RequestTypes, InCallback, Stored,
     EndedOnce, Reqs

LEMMA RequestStep == RequestInv /\ [Next]_vars => RequestInv'
<1>. SUFFICES ASSUME RequestInv, [Next]_vars PROVE RequestInv'
  OBVIOUS
<1>0. NoReq \notin Reqs /\ Snaps \cap Pushes = {}
  BY AppAssumption DEF AppAssumption
<1>. USE <1>0 DEF RequestInv, RequestTypes, InCallback, Stored, EndedOnce, Reqs,
                  modelVars, snapVars, taskVars, pumpVars
<1>1. CASE NetStep
  <2>1. CASE PollRestart
    BY <2>1 DEF PollRestart
  <2>2. CASE Deinit
    BY <2>2 DEF Deinit
  <2>3. CASE PollIdle
    BY <2>3 DEF PollIdle
  <2>4. CASE StartFails
    BY <2>4 DEF StartFails
  <2>5. CASE Connect
    BY <2>5 DEF Connect, PumpLoop
  <2>6. CASE PollRunning
    BY <2>6 DEF PollRunning
  <2>7. CASE Selftested
    BY <2>7 DEF Selftested
  <2>8. CASE PollModel
    BY <2>8 DEF PollModel, DecideModel
  <2>9. CASE StartModel
    BY <2>9 DEF StartModel, DecideModel
  <2>10. CASE PollSnap
    BY <2>10 DEF PollSnap, DecideSnap
  <2>11. CASE StartSnap
    BY <2>11 DEF StartSnap, DecideSnap
  <2>12. CASE Notify
    BY <2>12 DEF Notify
  <2>13. CASE PollReboot
    BY <2>13 DEF PollReboot
  <2>14. CASE PollFailed
    BY <2>14 DEF PollFailed
  <2>15. CASE Reset
    BY <2>15 DEF Reset, EndCallback
  <2>. QED
    BY <1>1, <2>1, <2>2, <2>3, <2>4, <2>5, <2>6, <2>7, <2>8, <2>9, <2>10,
       <2>11, <2>12, <2>13, <2>14, <2>15 DEF NetStep
<1>2. CASE Callback
  <2>1. CASE SnapStore
    BY <2>1 DEF SnapStore
  <2>2. CASE SnapPend
    BY <2>2 DEF SnapPend, EndCallback
  <2>3. CASE PushStore
    BY <2>3 DEF PushStore
  <2>4. CASE PushPend
    BY <2>4 DEF PushPend, EndCallback
  <2>. QED
    BY <1>2, <2>1, <2>2, <2>3, <2>4 DEF Callback
<1>3. CASE XferStep
  <2>1. CASE TakeNotify
    BY <2>1 DEF TakeNotify
  <2>2. CASE CheckModel
    BY <2>2 DEF CheckModel
  <2>3. CASE HeapShort
    BY <2>3 DEF HeapShort
  <2>4. CASE Downloaded
    BY <2>4 DEF Downloaded, End, Ended
  <2>5. CASE ModelFree
    BY <2>5 DEF ModelFree
  <2>6. CASE ModelClear
    BY <2>6 DEF ModelClear
  <2>7. CASE ModelEnd
    BY <2>7 DEF ModelEnd
  <2>8. CASE CheckSnap
    BY <2>8 DEF CheckSnap
  <2>9. CASE Capture
    BY <2>9 DEF Capture
  <2>10. CASE Uploaded
    BY <2>10 DEF Uploaded, End, Ended
  <2>11. CASE SnapFree
    BY <2>11 DEF SnapFree
  <2>12. CASE SnapClear
    BY <2>12 DEF SnapClear
  <2>13. CASE SnapEnd
    BY <2>13 DEF SnapEnd
  <2>. QED
    BY <1>3, <2>1, <2>2, <2>3, <2>4, <2>5, <2>6, <2>7, <2>8, <2>9, <2>10,
       <2>11, <2>12, <2>13 DEF XferStep
<1>4. CASE CloudOrConsole
  <2>1. ASSUME NEW s \in Snaps, SnapshotCommand(s) PROVE RequestInv'
    BY <2>1 DEF SnapshotCommand, Receives, PumpLoop, End, Ended
  <2>2. ASSUME NEW p \in Pushes, PushCommand(p) PROVE RequestInv'
    BY <2>2 DEF PushCommand, Receives, PumpLoop, End, Ended
  <2>3. CASE RebootCommand
    BY <2>3 DEF RebootCommand, Receives, PumpLoop
  <2>4. CASE Drop
    BY <2>4 DEF Drop, Receives, PumpLoop
  <2>5. CASE ConsoleSnapshot
    BY <2>5 DEF ConsoleSnapshot
  <2>6. CASE ConsoleSet
    BY <2>6 DEF ConsoleSet
  <2>7. CASE ConsoleApply
    BY <2>7 DEF ConsoleApply
  <2>. QED
    BY <1>4, <2>1, <2>2, <2>3, <2>4, <2>5, <2>6, <2>7 DEF CloudOrConsole
<1>5. CASE Timer
  BY <1>5 DEF Timer
<1>6. CASE UNCHANGED vars
  BY <1>6 DEF vars
<1>. QED  BY <1>1, <1>2, <1>3, <1>4, <1>5, <1>6 DEF Next

(* However the callbacks, the net thread and the transfer task interleave,  *)
(* and however the flags race, no command is answered twice.                *)
THEOREM NoDoubleAnswer == Spec => []EndedOnce
<1>1. RequestInv => EndedOnce
  BY DEF RequestInv
<1>. QED  BY <1>1, InitRequestInv, RequestStep, PTL DEF Spec

-----------------------------------------------------------------------------
(* The types that no request is part of. *)
ControlTypes ==
  /\ net \in NetPcs /\ app \in {"idle", "starting", "running", "failed"}
  /\ failAt \in Ages /\ rebootAt \in Ages /\ modelWait \in Ages \ {"unset"}
  /\ xfer \in XferPcs /\ consoles \in Nat /\ drops \in Nat /\ boots \in Nat

FlagTypes ==
  /\ selftested \in BOOLEAN /\ conn \in BOOLEAN /\ restartReq \in BOOLEAN
  /\ modelPending \in BOOLEAN /\ modelRunning \in BOOLEAN
  /\ snapPending \in BOOLEAN /\ snapRunning \in BOOLEAN
  /\ notified \in BOOLEAN /\ preempt \in BOOLEAN

(* The request in the pump's hands is of the callback's kind. *)
HandTypes ==
  /\ pump = "loop" => inHand = NoReq
  /\ pump \in {"snapStore", "snapPend"} => inHand \in Snaps
  /\ pump \in {"pushStore", "pushPend"} => inHand \in Pushes

LEMMA InitTypes == Init => ControlTypes /\ FlagTypes /\ HandTypes
<1>. SUFFICES ASSUME Init PROVE ControlTypes /\ FlagTypes /\ HandTypes
  OBVIOUS
<1>1. FlagTypes
  BY AppAssumption, Zenon DEF AppAssumption, Init, FlagTypes
<1>2. ControlTypes /\ HandTypes
  BY DEF Init, ControlTypes, HandTypes, NetPcs, XferPcs, Downloading, Uploading, Ages
<1>. QED  BY <1>1, <1>2

LEMMA ControlStep == ControlTypes /\ [Next]_vars => ControlTypes'
<1>. SUFFICES ASSUME ControlTypes, [Next]_vars PROVE ControlTypes'
  OBVIOUS
<1>. USE DEF ControlTypes, NetPcs, XferPcs, Downloading, Uploading, Ages, netVars,
             configVars, modelVars, snapVars, taskVars, bounds
<1>1. CASE NetStep
  <2>1. CASE PollRestart
    BY <2>1 DEF PollRestart
  <2>2. CASE Deinit
    BY <2>2 DEF Deinit
  <2>3. CASE PollIdle
    BY <2>3 DEF PollIdle
  <2>4. CASE StartFails
    BY <2>4 DEF StartFails
  <2>5. CASE Connect
    BY <2>5 DEF Connect
  <2>6. CASE PollRunning
    BY <2>6 DEF PollRunning
  <2>7. CASE Selftested
    BY <2>7 DEF Selftested
  <2>8. CASE PollModel
    BY <2>8 DEF PollModel, DecideModel
  <2>9. CASE StartModel
    BY <2>9 DEF StartModel, DecideModel
  <2>10. CASE PollSnap
    BY <2>10 DEF PollSnap, DecideSnap
  <2>11. CASE StartSnap
    BY <2>11 DEF StartSnap, DecideSnap
  <2>12. CASE Notify
    BY <2>12 DEF Notify
  <2>13. CASE PollReboot
    BY <2>13 DEF PollReboot
  <2>14. CASE PollFailed
    BY <2>14 DEF PollFailed
  <2>15. CASE Reset
    BY <2>15 DEF Reset
  <2>. QED
    BY <1>1, <2>1, <2>2, <2>3, <2>4, <2>5, <2>6, <2>7, <2>8, <2>9, <2>10,
       <2>11, <2>12, <2>13, <2>14, <2>15 DEF NetStep
<1>2. CASE Callback
  <2>1. CASE SnapStore
    BY <2>1 DEF SnapStore
  <2>2. CASE SnapPend
    BY <2>2 DEF SnapPend
  <2>3. CASE PushStore
    BY <2>3 DEF PushStore
  <2>4. CASE PushPend
    BY <2>4 DEF PushPend
  <2>. QED
    BY <1>2, <2>1, <2>2, <2>3, <2>4 DEF Callback
<1>3. CASE XferStep
  <2>1. CASE TakeNotify
    BY <2>1 DEF TakeNotify
  <2>2. CASE CheckModel
    BY <2>2 DEF CheckModel
  <2>3. CASE HeapShort
    BY <2>3 DEF HeapShort
  <2>4. CASE Downloaded
    BY <2>4 DEF Downloaded
  <2>5. CASE ModelFree
    BY <2>5 DEF ModelFree
  <2>6. CASE ModelClear
    BY <2>6 DEF ModelClear
  <2>7. CASE ModelEnd
    BY <2>7 DEF ModelEnd
  <2>8. CASE CheckSnap
    BY <2>8 DEF CheckSnap
  <2>9. CASE Capture
    BY <2>9 DEF Capture
  <2>10. CASE Uploaded
    BY <2>10 DEF Uploaded
  <2>11. CASE SnapFree
    BY <2>11 DEF SnapFree
  <2>12. CASE SnapClear
    BY <2>12 DEF SnapClear
  <2>13. CASE SnapEnd
    BY <2>13 DEF SnapEnd
  <2>. QED
    BY <1>3, <2>1, <2>2, <2>3, <2>4, <2>5, <2>6, <2>7, <2>8, <2>9, <2>10,
       <2>11, <2>12, <2>13 DEF XferStep
<1>4. CASE CloudOrConsole
  <2>1. ASSUME NEW s \in Snaps, SnapshotCommand(s) PROVE ControlTypes'
    BY <2>1 DEF SnapshotCommand
  <2>2. ASSUME NEW p \in Pushes, PushCommand(p) PROVE ControlTypes'
    BY <2>2 DEF PushCommand
  <2>3. CASE RebootCommand
    BY <2>3 DEF RebootCommand
  <2>4. CASE Drop
    BY <2>4 DEF Drop
  <2>5. CASE ConsoleSnapshot
    BY <2>5 DEF ConsoleSnapshot
  <2>6. CASE ConsoleSet
    BY <2>6 DEF ConsoleSet
  <2>7. CASE ConsoleApply
    BY <2>7 DEF ConsoleApply
  <2>. QED
    BY <1>4, <2>1, <2>2, <2>3, <2>4, <2>5, <2>6, <2>7 DEF CloudOrConsole
<1>5. CASE Timer
  BY <1>5 DEF Timer
<1>6. CASE UNCHANGED vars
  BY <1>6 DEF vars
<1>. QED  BY <1>1, <1>2, <1>3, <1>4, <1>5, <1>6 DEF Next

LEMMA FlagStep == FlagTypes /\ [Next]_vars => FlagTypes'
<1>. SUFFICES ASSUME FlagTypes, [Next]_vars PROVE FlagTypes'
  OBVIOUS
<1>. USE Zenon DEF FlagTypes, netVars, configVars, modelVars, snapVars, taskVars, bounds
<1>1. CASE NetStep
  <2>1. CASE PollRestart
    BY <2>1 DEF PollRestart
  <2>2. CASE Deinit
    BY <2>2 DEF Deinit
  <2>3. CASE PollIdle
    BY <2>3 DEF PollIdle
  <2>4. CASE StartFails
    BY <2>4 DEF StartFails
  <2>5. CASE Connect
    BY <2>5 DEF Connect
  <2>6. CASE PollRunning
    BY <2>6 DEF PollRunning
  <2>7. CASE Selftested
    BY <2>7 DEF Selftested
  <2>8. CASE PollModel
    BY <2>8 DEF PollModel, DecideModel
  <2>9. CASE StartModel
    BY <2>9 DEF StartModel, DecideModel
  <2>10. CASE PollSnap
    BY <2>10 DEF PollSnap, DecideSnap
  <2>11. CASE StartSnap
    BY <2>11 DEF StartSnap, DecideSnap
  <2>12. CASE Notify
    BY <2>12 DEF Notify
  <2>13. CASE PollReboot
    BY <2>13 DEF PollReboot
  <2>14. CASE PollFailed
    BY <2>14 DEF PollFailed
  <2>15. CASE Reset
    BY <2>15 DEF Reset
  <2>. QED
    BY <1>1, <2>1, <2>2, <2>3, <2>4, <2>5, <2>6, <2>7, <2>8, <2>9, <2>10,
       <2>11, <2>12, <2>13, <2>14, <2>15 DEF NetStep
<1>2. CASE Callback
  <2>1. CASE SnapStore
    BY <2>1 DEF SnapStore
  <2>2. CASE SnapPend
    BY <2>2 DEF SnapPend
  <2>3. CASE PushStore
    BY <2>3 DEF PushStore
  <2>4. CASE PushPend
    BY <2>4 DEF PushPend
  <2>. QED
    BY <1>2, <2>1, <2>2, <2>3, <2>4 DEF Callback
<1>3. CASE XferStep
  <2>1. CASE TakeNotify
    BY <2>1 DEF TakeNotify
  <2>2. CASE CheckModel
    BY <2>2 DEF CheckModel
  <2>3. CASE HeapShort
    BY <2>3 DEF HeapShort
  <2>4. CASE Downloaded
    BY <2>4 DEF Downloaded
  <2>5. CASE ModelFree
    BY <2>5 DEF ModelFree
  <2>6. CASE ModelClear
    BY <2>6 DEF ModelClear
  <2>7. CASE ModelEnd
    BY <2>7 DEF ModelEnd
  <2>8. CASE CheckSnap
    BY <2>8 DEF CheckSnap
  <2>9. CASE Capture
    BY <2>9 DEF Capture
  <2>10. CASE Uploaded
    BY <2>10 DEF Uploaded
  <2>11. CASE SnapFree
    BY <2>11 DEF SnapFree
  <2>12. CASE SnapClear
    BY <2>12 DEF SnapClear
  <2>13. CASE SnapEnd
    BY <2>13 DEF SnapEnd
  <2>. QED
    BY <1>3, <2>1, <2>2, <2>3, <2>4, <2>5, <2>6, <2>7, <2>8, <2>9, <2>10,
       <2>11, <2>12, <2>13 DEF XferStep
<1>4. CASE CloudOrConsole
  <2>1. ASSUME NEW s \in Snaps, SnapshotCommand(s) PROVE FlagTypes'
    BY <2>1 DEF SnapshotCommand
  <2>2. ASSUME NEW p \in Pushes, PushCommand(p) PROVE FlagTypes'
    BY <2>2 DEF PushCommand
  <2>3. CASE RebootCommand
    BY <2>3 DEF RebootCommand
  <2>4. CASE Drop
    BY <2>4 DEF Drop
  <2>5. CASE ConsoleSnapshot
    BY <2>5 DEF ConsoleSnapshot
  <2>6. CASE ConsoleSet
    BY <2>6 DEF ConsoleSet
  <2>7. CASE ConsoleApply
    BY <2>7 DEF ConsoleApply
  <2>. QED
    BY <1>4, <2>1, <2>2, <2>3, <2>4, <2>5, <2>6, <2>7 DEF CloudOrConsole
<1>5. CASE Timer
  BY <1>5 DEF Timer
<1>6. CASE UNCHANGED vars
  BY <1>6 DEF vars
<1>. QED  BY <1>1, <1>2, <1>3, <1>4, <1>5, <1>6 DEF Next

LEMMA HandStep == RequestTypes /\ HandTypes /\ [Next]_vars => HandTypes'
<1>. SUFFICES ASSUME RequestTypes, HandTypes, [Next]_vars PROVE HandTypes'
  OBVIOUS
<1>. USE DEF RequestTypes, HandTypes, taskVars, pumpVars
<1>1. CASE NetStep
  <2>1. CASE PollRestart
    BY <2>1 DEF PollRestart
  <2>2. CASE Deinit
    BY <2>2 DEF Deinit
  <2>3. CASE PollIdle
    BY <2>3 DEF PollIdle
  <2>4. CASE StartFails
    BY <2>4 DEF StartFails
  <2>5. CASE Connect
    BY <2>5 DEF Connect, PumpLoop
  <2>6. CASE PollRunning
    BY <2>6 DEF PollRunning
  <2>7. CASE Selftested
    BY <2>7 DEF Selftested
  <2>8. CASE PollModel
    BY <2>8 DEF PollModel
  <2>9. CASE StartModel
    BY <2>9 DEF StartModel
  <2>10. CASE PollSnap
    BY <2>10 DEF PollSnap
  <2>11. CASE StartSnap
    BY <2>11 DEF StartSnap
  <2>12. CASE Notify
    BY <2>12 DEF Notify
  <2>13. CASE PollReboot
    BY <2>13 DEF PollReboot
  <2>14. CASE PollFailed
    BY <2>14 DEF PollFailed
  <2>15. CASE Reset
    BY <2>15 DEF Reset, EndCallback
  <2>. QED
    BY <1>1, <2>1, <2>2, <2>3, <2>4, <2>5, <2>6, <2>7, <2>8, <2>9, <2>10,
       <2>11, <2>12, <2>13, <2>14, <2>15 DEF NetStep
<1>2. CASE Callback
  <2>1. CASE SnapStore
    BY <2>1 DEF SnapStore
  <2>2. CASE SnapPend
    BY <2>2 DEF SnapPend, EndCallback
  <2>3. CASE PushStore
    BY <2>3 DEF PushStore
  <2>4. CASE PushPend
    BY <2>4 DEF PushPend, EndCallback
  <2>. QED
    BY <1>2, <2>1, <2>2, <2>3, <2>4 DEF Callback
<1>3. CASE XferStep
  <2>1. CASE TakeNotify
    BY <2>1 DEF TakeNotify
  <2>2. CASE CheckModel
    BY <2>2 DEF CheckModel
  <2>3. CASE HeapShort
    BY <2>3 DEF HeapShort
  <2>4. CASE Downloaded
    BY <2>4 DEF Downloaded
  <2>5. CASE ModelFree
    BY <2>5 DEF ModelFree
  <2>6. CASE ModelClear
    BY <2>6 DEF ModelClear
  <2>7. CASE ModelEnd
    BY <2>7 DEF ModelEnd
  <2>8. CASE CheckSnap
    BY <2>8 DEF CheckSnap
  <2>9. CASE Capture
    BY <2>9 DEF Capture
  <2>10. CASE Uploaded
    BY <2>10 DEF Uploaded
  <2>11. CASE SnapFree
    BY <2>11 DEF SnapFree
  <2>12. CASE SnapClear
    BY <2>12 DEF SnapClear
  <2>13. CASE SnapEnd
    BY <2>13 DEF SnapEnd
  <2>. QED
    BY <1>3, <2>1, <2>2, <2>3, <2>4, <2>5, <2>6, <2>7, <2>8, <2>9, <2>10,
       <2>11, <2>12, <2>13 DEF XferStep
<1>4. CASE CloudOrConsole
  <2>1. ASSUME NEW s \in Snaps, SnapshotCommand(s) PROVE HandTypes'
    BY <2>1 DEF SnapshotCommand, Receives, PumpLoop, End, Ended
  <2>2. ASSUME NEW p \in Pushes, PushCommand(p) PROVE HandTypes'
    BY <2>2 DEF PushCommand, Receives, PumpLoop, End, Ended
  <2>3. CASE RebootCommand
    BY <2>3 DEF RebootCommand, Receives, PumpLoop
  <2>4. CASE Drop
    BY <2>4 DEF Drop, Receives, PumpLoop
  <2>5. CASE ConsoleSnapshot
    BY <2>5 DEF ConsoleSnapshot
  <2>6. CASE ConsoleSet
    BY <2>6 DEF ConsoleSet
  <2>7. CASE ConsoleApply
    BY <2>7 DEF ConsoleApply
  <2>. QED
    BY <1>4, <2>1, <2>2, <2>3, <2>4, <2>5, <2>6, <2>7 DEF CloudOrConsole
<1>5. CASE Timer
  BY <1>5 DEF Timer
<1>6. CASE UNCHANGED vars
  BY <1>6 DEF vars
<1>. QED  BY <1>1, <1>2, <1>3, <1>4, <1>5, <1>6 DEF Next

(* Every flag, buffer and position stays within the states the code's own   *)
(* checks expect; the pump has a request in hand exactly inside a callback, *)
(* and no version is in use that is not stored.                             *)
THEOREM AppTypeCorrect == Spec => []TypeOK
<1>1. ControlTypes /\ FlagTypes /\ RequestTypes /\ HandTypes /\ ConfigInv => TypeOK
  <2>. USE DEF TypeOK, ControlTypes, FlagTypes, RequestTypes, HandTypes, ConfigInv
  <2>. QED  BY Zenon
<1>2. RequestInv => RequestTypes
  BY DEF RequestInv
<1>. QED
  BY <1>1, <1>2, InitTypes, ControlStep, FlagStep, HandStep, InitRequestInv, RequestStep,
     TransferInvariance, InitConfigInv, ConfigStep, PTL DEF Spec

-----------------------------------------------------------------------------
(* Where a request is while the board has taken it.  A pending flag is up   *)
(* exactly while the stored request may not be replaced: no callback stores *)
(* one then, a running transfer keeps it up until its last step, and it is  *)
(* taken down only when the storage is empty.                               *)
PushHeld ==
  /\ modelPending => pump \notin {"pushStore", "pushPend"}
  /\ modelRunning => modelPending \/ xfer = "modelEnd"
  /\ pump = "pushPend" => push = inHand
  /\ xfer = "download" => fetching = push
  /\ xfer = "modelFree" => push = NoReq \/ req[push] # "taken"
  /\ xfer = "modelClear" => push = NoReq

SnapHeld ==
  /\ snapPending => pump \notin {"snapStore", "snapPend"}
  /\ snapRunning => snapPending \/ xfer = "snapEnd"
  /\ pump = "snapPend" => snapAck = inHand
  /\ xfer = "snapFree" => snapAck = NoReq \/ req[snapAck] # "taken"
  /\ xfer = "snapClear" => snapAck = NoReq

(* The net thread reads the pending flag and the running flag in one turn.  *)
InTurn == ~ preempt /\ net \notin {"modelRunning", "snapRunning"}

KeptInv == preempt \/ (InTurn /\ PushHeld /\ SnapHeld /\ RequestsKept)

LEMMA InitKeptInv == Init => KeptInv
  BY DEF Init, KeptInv, InTurn, PushHeld, SnapHeld, RequestsKept, Reqs

LEMMA KeptStep == RequestTypes /\ HandTypes /\ WorksOnStarted /\ KeptInv /\ [Next]_vars => KeptInv'
<1>. SUFFICES ASSUME RequestTypes, HandTypes, WorksOnStarted, KeptInv, [Next]_vars PROVE KeptInv'
  OBVIOUS
<1>0. NoReq \notin Reqs /\ Snaps \cap Pushes = {}
  BY AppAssumption DEF AppAssumption
<1>. USE <1>0 DEF RequestTypes, HandTypes, WorksOnStarted, KeptInv, InTurn, PushHeld, SnapHeld, RequestsKept,
                  KeptRequest, Reqs, Downloading, Uploading, netVars, modelVars, snapVars,
                  taskVars, pumpVars, bounds
<1>1. CASE NetStep
  <2>1. CASE PollRestart
    BY <2>1 DEF PollRestart
  <2>2. CASE Deinit
    BY <2>2 DEF Deinit
  <2>3. CASE PollIdle
    BY <2>3 DEF PollIdle
  <2>4. CASE StartFails
    BY <2>4 DEF StartFails
  <2>5. CASE Connect
    BY <2>5 DEF Connect, PumpLoop
  <2>6. CASE PollRunning
    BY <2>6 DEF PollRunning
  <2>7. CASE Selftested
    BY <2>7 DEF Selftested
  <2>8. CASE PollModel
    BY <2>8 DEF PollModel, DecideModel
  <2>9. CASE StartModel
    BY <2>9 DEF StartModel, DecideModel
  <2>10. CASE PollSnap
    BY <2>10 DEF PollSnap, DecideSnap
  <2>11. CASE StartSnap
    BY <2>11 DEF StartSnap, DecideSnap
  <2>12. CASE Notify
    BY <2>12 DEF Notify
  <2>13. CASE PollReboot
    BY <2>13 DEF PollReboot
  <2>14. CASE PollFailed
    BY <2>14 DEF PollFailed
  <2>15. CASE Reset
    BY <2>15 DEF Reset, EndCallback
  <2>. QED
    BY <1>1, <2>1, <2>2, <2>3, <2>4, <2>5, <2>6, <2>7, <2>8, <2>9, <2>10,
       <2>11, <2>12, <2>13, <2>14, <2>15 DEF NetStep
<1>2. CASE Callback
  <2>1. CASE SnapStore
    BY <2>1 DEF SnapStore
  <2>2. CASE SnapPend
    BY <2>2 DEF SnapPend, EndCallback
  <2>3. CASE PushStore
    BY <2>3 DEF PushStore
  <2>4. CASE PushPend
    BY <2>4 DEF PushPend, EndCallback
  <2>. QED
    BY <1>2, <2>1, <2>2, <2>3, <2>4 DEF Callback
<1>3. CASE XferStep
  <2>1. CASE TakeNotify
    BY <2>1 DEF TakeNotify
  <2>2. CASE CheckModel
    BY <2>2 DEF CheckModel
  <2>3. CASE HeapShort
    BY <2>3 DEF HeapShort
  <2>4. CASE Downloaded
    BY <2>4 DEF Downloaded, End, Ended
  <2>5. CASE ModelFree
    BY <2>5 DEF ModelFree
  <2>6. CASE ModelClear
    BY <2>6 DEF ModelClear
  <2>7. CASE ModelEnd
    BY <2>7 DEF ModelEnd
  <2>8. CASE CheckSnap
    BY <2>8 DEF CheckSnap
  <2>9. CASE Capture
    BY <2>9 DEF Capture
  <2>10. CASE Uploaded
    BY <2>10 DEF Uploaded, End, Ended
  <2>11. CASE SnapFree
    BY <2>11 DEF SnapFree
  <2>12. CASE SnapClear
    BY <2>12 DEF SnapClear
  <2>13. CASE SnapEnd
    BY <2>13 DEF SnapEnd
  <2>. QED
    BY <1>3, <2>1, <2>2, <2>3, <2>4, <2>5, <2>6, <2>7, <2>8, <2>9, <2>10,
       <2>11, <2>12, <2>13 DEF XferStep
<1>4. CASE CloudOrConsole
  <2>1. ASSUME NEW s \in Snaps, SnapshotCommand(s) PROVE KeptInv'
    BY <2>1 DEF SnapshotCommand, Receives, PumpLoop, End, Ended
  <2>2. ASSUME NEW p \in Pushes, PushCommand(p) PROVE KeptInv'
    BY <2>2 DEF PushCommand, Receives, PumpLoop, End, Ended
  <2>3. CASE RebootCommand
    BY <2>3 DEF RebootCommand, Receives, PumpLoop
  <2>4. CASE Drop
    BY <2>4 DEF Drop, Receives, PumpLoop
  <2>5. CASE ConsoleSnapshot
    BY <2>5 DEF ConsoleSnapshot
  <2>6. CASE ConsoleSet
    BY <2>6 DEF ConsoleSet
  <2>7. CASE ConsoleApply
    BY <2>7 DEF ConsoleApply
  <2>. QED
    BY <1>4, <2>1, <2>2, <2>3, <2>4, <2>5, <2>6, <2>7 DEF CloudOrConsole
<1>5. CASE Timer
  BY <1>5 DEF Timer
<1>6. CASE UNCHANGED vars
  BY <1>6 DEF vars
<1>. QED  BY <1>1, <1>2, <1>3, <1>4, <1>5, <1>6 DEF Next

(* While the net thread is not preempted between the flags of a condition,  *)
(* no request the board has taken is dropped: it is in the pump's hands or  *)
(* stored with its pending flag up, whatever callbacks, transfers and       *)
(* console commands come in between.                                        *)
THEOREM TakenRequestsKept == Spec => []RequestsKeptInTurn
<1>1. KeptInv => RequestsKeptInTurn
  BY DEF KeptInv, RequestsKeptInTurn
<1>2. TransferInv => WorksOnStarted
  BY DEF TransferInv
<1>3. RequestInv => RequestTypes
  BY DEF RequestInv
<1>. QED
  BY <1>1, <1>2, <1>3, TransferInvariance, InitTypes, InitRequestInv, RequestStep, HandStep,
     InitKeptInv, KeptStep, PTL DEF Spec
=============================================================================
