-------------------------------- MODULE HotSwap --------------------------------
(***************************************************************************)
(* Model lifecycle: a cloud push is downloaded by the transfer task into   *)
(* the SDRAM pending buffer, queued, swapped in by the AI thread between   *)
(* two inferences and saved to the flash slot; model-revert (MQTT pump     *)
(* task) erases the slot and queues the compiled-in model, if the build    *)
(* has one; a reset reloads the slot.                                      *)
(*   src/src/ai_application/object_detection/FaceDetection.cc, the model   *)
(*   part of src/src/iotc/iotc_app.c, and module ModelStore for the flash. *)
(*                                                                         *)
(* The pending buffer is shared by the three tasks with no lock but the    *)
(* word s_pending_len, so every pass over it (download, copy to staging,   *)
(* flash programming) is one step per chunk.                               *)
(*                                                                         *)
(* handle_error, and a hard fault, stop the core: the board is halted, all *)
(* of it, until a reset.  A copy longer than the staging buffer and an     *)
(* interpreter built over bytes that are no model are undefined behaviour: *)
(* the board may halt there, or go on.                                     *)
(*                                                                         *)
(* Taken as given: the AI thread has finished face_detection_init before   *)
(* the board is connected and the first push or command arrives; the       *)
(* camera keeps delivering frames, so the AI thread keeps looping.         *)
(***************************************************************************)
EXTENDS Integers

CONSTANTS
  Models,       \* the models the cloud may push, each at most once
  Kind,         \* Kind[b]: what the engine makes of a complete model b, see Outcomes
  Builtin,      \* the compiled-in model, wrapped by model-revert
  Scenes,       \* the scenes to look at, see the variable scene
  MaxAttempts,  \* download attempts (3 in the code)
  Chunks, SlotChunks, BlockChunks, SectorChunks, MaxFaults,
  NoClient, NoBlob, Erased, Garbage

Blobs == Models \cup {Builtin}
Tasks == {"ai", "pump"}   \* the tasks that call the model store

(* What does not change during a run: the build, with a compiled-in model   *)
(* or without (the shipped one, IOTC_CFG_NO_BUILTIN_MODEL = 1); whether the *)
(* operator waits for one push or revert to take effect, and for the next   *)
(* inference, before the next; and, a bound, the models pushed.             *)
Scene == [builtin : BOOLEAN, serial : BOOLEAN, models : SUBSET Models]

(* prv_model_apply, Model::Init and then the first RunInference on a model: *)
(*   wrongSchema  Init gives up before it makes an interpreter              *)
(*   tooBig       an interpreter exists but its tensors do not fit          *)
(*   wrongShape   Init succeeds, prv_model_apply rejects the tensor shapes  *)
(*   failsInvoke  accepted, but every inference fails: compiled for another *)
(*                NPU configuration, say                                    *)
(*   good         accepted, and inference works                             *)
Outcomes == {"wrongSchema", "tooBig", "wrongShape", "failsInvoke", "good"}
Accept == {"failsInvoke", "good"}   \* prv_model_apply returns true

(* The slot has the geometry ModelStore asks for, and every model fits it.  *)
ASSUME SwapAssumption ==
  /\ Scenes \subseteq Scene
  /\ SlotChunks \in Nat \ {0} /\ BlockChunks \in Nat \ {0}
  /\ SectorChunks \in 1..BlockChunks
  /\ MaxFaults \in Nat /\ MaxAttempts \in Nat \ {0}
  /\ Chunks \in [Blobs -> 1..SlotChunks]
  /\ Kind \in [Blobs -> Outcomes]
  /\ NoClient \notin Tasks /\ NoBlob \notin Blobs
  /\ \A b \in Blobs, i \in 1..SlotChunks : <<b, i>> \notin {Erased, Garbage}
  /\ Erased # Garbage

VARIABLES
  slot, fsLock, task, reply, saved, faults,  \* the flash, see ModelStore
  pend,     \* s_model_pending, in chunks
  pendLen,  \* s_pending_len: 0, or the length of the queued blob
  staging,  \* s_model_staging: what the interpreter is built over
  interp,   \* a MicroInterpreter object exists (even one whose Init failed)
  inited,   \* s_model.IsInited()
  name,     \* s_model_name and s_model_ver: the model telemetry reports
  ai,       \* AI thread: [pc, len (length of the swap), at, copy (its model_len)]
  push,     \* s_model_pending flag and s_model_res: the push being handled
  xfer,     \* transfer task: [pc, at, attempt]
  pump,     \* MQTT pump task inside model-revert: [pc, at]
  ack,      \* ack[b]: last OTA acknowledgement of the push of b
  scene,    \* a member of Scenes, never changed
  ran,      \* history: the model accepted last since the start, if any
  reverted, \* history: model-revert was acknowledged, and no push queued since
  spared,   \* history: the model that the last model-revert's erase, failing,
            \* left in the slot, if any
  onReset   \* history: the value of saved when the board was last reset

flash == <<slot, fsLock, task, reply, saved, faults>>
engine == <<staging, interp, inited, name>>
hist == <<scene, reverted, spared, onReset>>
vars == <<flash, pend, pendLen, engine, ai, push, xfer, pump, ack, ran, hist>>

MS == INSTANCE ModelStore WITH Clients <- Tasks

Region == [MS!Cells -> MS!Cell]
Blank == [i \in MS!Cells |-> Garbage]   \* .sdram_noinit after a reset

IdleAI == [pc |-> "idle", len |-> 0, at |-> 0, copy |-> 0]
Booting == [pc |-> "boot", len |-> 0, at |-> 0, copy |-> 0]
Inferring == [pc |-> "infer", len |-> 0, at |-> 0, copy |-> 0]
Halted == [pc |-> "halted", len |-> 0, at |-> 0, copy |-> 0]
Alive == ai.pc # "halted"
XferIdle == [pc |-> "idle", at |-> 0, attempt |-> 0]
PumpIdle == [pc |-> "idle", at |-> 0]

Init ==
  /\ MS!Init
  /\ pend = Blank /\ pendLen = 0
  /\ staging = Blank /\ interp = FALSE /\ inited = FALSE /\ name = NoBlob
  /\ ai = Booting /\ push = NoBlob /\ xfer = XferIdle /\ pump = PumpIdle
  /\ ack = [b \in Models |-> "none"]
  /\ scene \in Scenes
  /\ ran = NoBlob /\ reverted = FALSE /\ spared = NoBlob /\ onReset = NoBlob

-----------------------------------------------------------------------------
(* What applying a staging buffer with contents s comes to; one that is not *)
(* a complete model may do anything, or fault in the interpreter.           *)
ApplyOutcomes(s) ==
  IF \E b \in Blobs : MS!Holds(s, b) THEN {Kind[MS!BlobIn(s)]}
  ELSE Outcomes \cup {"crash"}

(* The engine after applying outcome o, begun with the flags i and d. *)
Apply(o, i, d) ==
  /\ interp' = (i \/ o # "wrongSchema")
  /\ inited' = (d \/ o \in Accept \cup {"wrongShape"})

(* prv_model_teardown: destroy the interpreter, make an empty model object. *)
Teardown == interp' = FALSE /\ inited' = FALSE

(* Model name in the header of a buffer. *)
HeaderName(s) == IF \E b \in Blobs : s[1] = MS!Chunk(b, 1)
                 THEN CHOOSE b \in Blobs : s[1] = MS!Chunk(b, 1)
                 ELSE NoBlob

(* h->model_len, as the number of chunks the copy moves; 32 bits that nobody *)
(* looks at, so out of an unknown header any number, PastEnd standing for    *)
(* all those that leave the buffer.                                          *)
PastEnd == SlotChunks + 1
HeaderLens(s) == IF HeaderName(s) = NoBlob THEN 0..PastEnd ELSE {Chunks[HeaderName(s)]}

Accepted(b) == ran' = b

-----------------------------------------------------------------------------
(* AI thread: face_detection_init *)

BootLoad ==
  /\ ai.pc = "boot"
  /\ MS!Load("ai")
  /\ pend' = IF slot[1] = Erased THEN pend ELSE slot
  /\ ai' = [ai EXCEPT !.pc = IF reply'["ai"].rc = 0 THEN "bootStage" ELSE "fallback"]
  /\ UNCHANGED <<pendLen, engine, push, xfer, pump, ack, ran, hist>>

BootStage ==
  /\ ai.pc = "bootStage"
  /\ Teardown
  /\ \E n \in HeaderLens(pend) :
       staging' = [i \in MS!Cells |-> IF i <= n THEN pend[i] ELSE staging[i]]
  /\ name' = HeaderName(pend)
  /\ ai' = [ai EXCEPT !.pc = "bootApply"]
  /\ UNCHANGED <<flash, pend, pendLen, push, xfer, pump, ack, ran, hist>>

BootApply ==
  /\ ai.pc = "bootApply"
  /\ \E o \in ApplyOutcomes(staging) :
       /\ Apply(o, interp, inited)
       /\ IF o \in Accept
          THEN Accepted(name) /\ ai' = Inferring
          ELSE /\ ai' = IF o = "crash" THEN Halted ELSE [ai EXCEPT !.pc = "bootErase"]
               /\ UNCHANGED ran
  /\ UNCHANGED <<flash, pend, pendLen, staging, name, push, xfer, pump, ack,
                 hist>>

BootErase ==
  /\ ai.pc = "bootErase"
  /\ MS!DiscardLock("ai")
  /\ ai' = [ai EXCEPT !.pc = "bootErasing"]
  /\ UNCHANGED <<pend, pendLen, engine, push, xfer, pump, ack, ran, hist>>

BootErased ==
  /\ ai.pc = "bootErasing"
  /\ MS!EraseSector("ai")
  /\ ai' = [ai EXCEPT !.pc = "fallback"]
  /\ UNCHANGED <<pend, pendLen, engine, push, xfer, pump, ack, ran, hist>>

(* prv_load_builtin_to_staging, after its teardown: staging is overwritten  *)
(* and the caller runs prv_model_apply on it.                               *)
StageBuiltin ==
  /\ staging' = [i \in MS!Cells |-> IF i <= Chunks[Builtin] THEN MS!Chunk(Builtin, i)
                                    ELSE staging[i]]
  /\ name' = Builtin
  /\ Apply(Kind[Builtin], interp, inited)
  /\ IF Kind[Builtin] \in Accept THEN Accepted(Builtin) ELSE UNCHANGED ran

(* Without a built-in model the board idles under the name "none".          *)
BootFallback ==
  /\ ai.pc = "fallback"
  /\ IF scene.builtin
     THEN /\ Teardown
          /\ ai' = [ai EXCEPT !.pc = "bootBuiltin"]
          /\ UNCHANGED name
     ELSE /\ name' = NoBlob
          /\ ai' = Inferring
          /\ UNCHANGED <<interp, inited>>
  /\ UNCHANGED <<flash, pend, pendLen, staging, push, xfer, pump, ack, ran,
                 hist>>

(* If not even the built-in model is accepted, face_detection_init fails.   *)
BootBuiltin ==
  /\ ai.pc = "bootBuiltin"
  /\ StageBuiltin
  /\ ai' = IF Kind[Builtin] \in Accept THEN Inferring ELSE Halted
  /\ UNCHANGED <<flash, pend, pendLen, push, xfer, pump, ack, hist>>

-----------------------------------------------------------------------------
(* AI thread: prv_swap_if_pending *)

(* memcpy of h->model_len bytes: the length is read once. *)
CopyStart ==
  \E n \in HeaderLens(pend) :
    ai' = [pc |-> IF n = 0 THEN "apply" ELSE "copy", len |-> pendLen, at |-> 1, copy |-> n]

(* Mutant: staging is overwritten under the old interpreter. *)
SwapNoTeardown ==
  /\ ai.pc = "idle" /\ pendLen # 0
  /\ CopyStart
  /\ UNCHANGED <<flash, pend, pendLen, engine, push, xfer, pump, ack, ran,
                 hist>>

SwapStart ==
  /\ ai.pc = "idle" /\ pendLen # 0
  /\ Teardown
  /\ CopyStart
  /\ UNCHANGED <<flash, pend, pendLen, staging, name, push, xfer, pump, ack,
                 ran, hist>>

(* Mutant: the copy stops one chunk short. *)
CopyShort ==
  /\ ai.pc = "copy" /\ ai.at <= SlotChunks
  /\ staging' = [staging EXCEPT ![ai.at] = pend[ai.at]]
  /\ ai' = IF ai.at < ai.copy - 1 THEN [ai EXCEPT !.at = @ + 1]
           ELSE [ai EXCEPT !.pc = "apply"]
  /\ UNCHANGED <<flash, pend, pendLen, interp, inited, name, push, xfer, pump,
                 ack, ran, hist>>

CopyChunk ==
  /\ ai.pc = "copy" /\ ai.at <= SlotChunks
  /\ staging' = [staging EXCEPT ![ai.at] = pend[ai.at]]
  /\ ai' = IF ai.at < ai.copy THEN [ai EXCEPT !.at = @ + 1]
           ELSE [ai EXCEPT !.pc = "apply"]
  /\ UNCHANGED <<flash, pend, pendLen, interp, inited, name, push, xfer, pump,
                 ack, ran, hist>>

(* The copy goes on past the staging buffer: a bus fault, or whatever lies   *)
(* there is overwritten, the pending buffer perhaps.                         *)
CopyPast ==
  /\ ai.pc = "copy" /\ ai.at = PastEnd
  /\ \/ ai' = Halted /\ UNCHANGED pend
     \/ ai' = [ai EXCEPT !.pc = "apply"] /\ pend' \in {pend, Blank}
  /\ UNCHANGED <<flash, pendLen, engine, push, xfer, pump, ack, ran, hist>>

(* Mutant: the model is saved before it is known to be accepted. *)
ApplySavesAll ==
  /\ ai.pc = "apply"
  /\ name' = HeaderName(pend)
  /\ \E o \in ApplyOutcomes(staging) :
       /\ Apply(o, interp, inited)
       /\ ran' = IF o \in Accept THEN name' ELSE ran
  /\ ai' = [ai EXCEPT !.pc = IF name' = Builtin THEN "finish" ELSE "save"]
  /\ UNCHANGED <<flash, pend, pendLen, staging, push, xfer, pump, ack,
                 hist>>

(* Mutant: the name of the previous model is kept. *)
ApplyKeepsName ==
  /\ ai.pc = "apply"
  /\ \E o \in ApplyOutcomes(staging) :
       /\ Apply(o, interp, inited)
       /\ ran' = IF o \in Accept THEN HeaderName(pend) ELSE ran
       /\ ai' = [ai EXCEPT !.pc = IF o \notin Accept THEN "reload"
                                  ELSE IF HeaderName(pend) = Builtin THEN "finish"
                                  ELSE "save"]
  /\ UNCHANGED <<flash, pend, pendLen, staging, name, push, xfer, pump, ack,
                 hist>>

SwapApply ==
  /\ ai.pc = "apply"
  /\ name' = HeaderName(pend)
  /\ \E o \in ApplyOutcomes(staging) :
       /\ Apply(o, interp, inited)
       /\ IF o \in Accept
          THEN /\ Accepted(name')
               /\ ai' = [ai EXCEPT !.pc = IF name' = Builtin THEN "finish" ELSE "save"]
          ELSE /\ ai' = IF o = "crash" THEN Halted ELSE [ai EXCEPT !.pc = "reload"]
               /\ UNCHANGED ran
  /\ UNCHANGED <<flash, pend, pendLen, staging, push, xfer, pump, ack,
                 hist>>

SaveSwapped ==
  /\ ai.pc = "save"
  /\ MS!SaveCall("ai", pend, ai.len)
  /\ ai' = [ai EXCEPT !.pc = IF task'["ai"].pc = "idle" THEN "finish" ELSE "saving"]
  /\ UNCHANGED <<pend, pendLen, engine, push, xfer, pump, ack, ran, hist>>

SaveStep ==
  /\ ai.pc = "saving"
  /\ \/ MS!SaveLock("ai")
     \/ MS!EraseBlock("ai") \/ MS!EraseBlockFails("ai")
     \/ MS!ProgramChunk("ai", pend) \/ MS!ProgramChunkFails("ai")
     \/ MS!Verify("ai", pend)
  /\ ai' = IF task'["ai"].pc = "idle" THEN [ai EXCEPT !.pc = "finish"] ELSE ai
  /\ UNCHANGED <<pend, pendLen, engine, push, xfer, pump, ack, ran, hist>>

(* Mutant: without a built-in model a failed swap returns at once. *)
ReloadReturns ==
  /\ ai.pc = "reload"
  /\ IF scene.builtin
     THEN Teardown /\ ai' = [ai EXCEPT !.pc = "builtin"]
     ELSE ai' = Inferring /\ UNCHANGED <<interp, inited>>
  /\ UNCHANGED <<flash, pend, pendLen, staging, name, push, xfer, pump, ack,
                 ran, hist>>

(* "swap failed; reloading builtin": without one, the rejected model is     *)
(* still in staging and is applied once more.                               *)
Reload ==
  /\ ai.pc = "reload"
  /\ IF scene.builtin
     THEN /\ Teardown
          /\ ai' = [ai EXCEPT !.pc = "builtin"]
          /\ UNCHANGED ran
     ELSE /\ \E o \in ApplyOutcomes(staging) :
               /\ Apply(o, interp, inited)
               /\ IF o \in Accept THEN Accepted(name) ELSE UNCHANGED ran
               /\ ai' = IF o = "crash" THEN Halted ELSE [ai EXCEPT !.pc = "finish"]
  /\ UNCHANGED <<flash, pend, pendLen, staging, name, push, xfer, pump, ack,
                 hist>>

ReloadBuiltin ==
  /\ ai.pc = "builtin"
  /\ StageBuiltin
  /\ ai' = [ai EXCEPT !.pc = "finish"]
  /\ UNCHANGED <<flash, pend, pendLen, push, xfer, pump, ack, hist>>

SwapFinish ==
  /\ ai.pc = "finish"
  /\ pendLen' = 0
  /\ ai' = Inferring
  /\ UNCHANGED <<flash, pend, engine, push, xfer, pump, ack, ran, hist>>

(* The rest of face_detection_run: without a model the pass is done.  An    *)
(* error goes to handle_error.  A model that was refused for its shape is   *)
(* run as the last accepted kind, which may fail or not; so may torn bytes. *)
Works(s) ==
  IF ~ inited THEN {TRUE}
  ELSE IF \E b \in Blobs : MS!Holds(s, b) /\ Kind[b] \in Accept
       THEN {Kind[MS!BlobIn(s)] = "good"}
       ELSE BOOLEAN

(* A pass that found nothing queued infers too, and so do the later ones.   *)
Infer ==
  /\ ai.pc \in {"infer", "idle"}
  /\ \E works \in Works(staging) : ai' = IF works THEN IdleAI ELSE Halted
  /\ UNCHANGED <<flash, pend, pendLen, engine, push, xfer, pump, ack, ran, hist>>

-----------------------------------------------------------------------------
(* MQTT pump task: prv_on_ota and the model-revert command *)

(* The AI thread has come up, see the header of this module. *)
BootPcs == {"boot", "bootStage", "bootApply", "bootErase", "bootErasing", "fallback",
            "bootBuiltin"}
Connected == ai.pc \notin BootPcs /\ Alive

(* Nothing is under way, and the engine has been seen to infer since.       *)
Quiet == push = NoBlob /\ pendLen = 0 /\ ai.pc = "idle"

PushArrives(b) ==
  /\ Connected /\ pump.pc = "idle" /\ ack[b] = "none" /\ b \in scene.models
  /\ scene.serial => Quiet
  /\ IF push # NoBlob
     THEN /\ ack' = [ack EXCEPT ![b] = "failed"]   \* another push is in progress
          /\ UNCHANGED push
     ELSE /\ ack' = [ack EXCEPT ![b] = "downloading"]
          /\ push' = b
  /\ UNCHANGED <<flash, pend, pendLen, engine, ai, xfer, pump, ran, hist>>

RevertErase ==
  /\ Connected /\ pump.pc = "idle"
  /\ scene.serial => Quiet
  /\ MS!DiscardLock("pump")
  /\ pump' = [pump EXCEPT !.pc = "erasing"]
  /\ UNCHANGED <<pend, pendLen, engine, ai, push, xfer, ack, ran, hist>>

(* The result of the erase is ignored.  Without a built-in model revert is   *)
(* done then, and acknowledged.                                              *)
RevertErased ==
  /\ Alive /\ pump.pc = "erasing"
  /\ MS!EraseSector("pump")
  /\ spared' = IF reply'["pump"].rc # 0 /\ MS!Validates(slot', SlotChunks)
               THEN MS!BlobIn(slot') ELSE NoBlob
  /\ IF scene.builtin
     THEN /\ pump' = [pc |-> "wrap", at |-> Chunks[Builtin]]
          /\ UNCHANGED reverted
     ELSE /\ pump' = PumpIdle
          /\ reverted' = TRUE
  /\ UNCHANGED <<pend, pendLen, engine, ai, push, xfer, ack, ran, scene, onReset>>

(* Payload first, then iotv_wrap_in_place writes the header. *)
RevertWrap ==
  /\ Alive /\ pump.pc = "wrap"
  /\ pend' = [pend EXCEPT ![pump.at] = MS!Chunk(Builtin, pump.at)]
  /\ pump' = IF pump.at > 1 THEN [pump EXCEPT !.at = @ - 1]
             ELSE [pump EXCEPT !.pc = "queue"]
  /\ UNCHANGED <<flash, pendLen, engine, ai, push, xfer, ack, ran, hist>>

RevertQueue ==
  /\ Alive /\ pump.pc = "queue"
  /\ pendLen' = Chunks[Builtin]
  /\ pump' = PumpIdle
  /\ reverted' = TRUE
  /\ UNCHANGED <<flash, pend, engine, ai, push, xfer, ack, ran, scene, spared, onReset>>

-----------------------------------------------------------------------------
(* Transfer task: prv_model_push_execute *)

PushStart ==
  /\ Alive /\ push # NoBlob /\ xfer.pc = "idle"
  /\ xfer' = [pc |-> "download", at |-> 1, attempt |-> 1]
  /\ UNCHANGED <<flash, pend, pendLen, engine, ai, push, pump, ack, ran,
                 hist>>

(* The file may be damaged or not be an IOTV envelope. *)
DownloadChunk ==
  /\ Alive /\ xfer.pc = "download"
  /\ \E cell \in {MS!Chunk(push, xfer.at), Garbage} :
       pend' = [pend EXCEPT ![xfer.at] = cell]
  /\ xfer' = IF xfer.at < Chunks[push] THEN [xfer EXCEPT !.at = @ + 1]
             ELSE [xfer EXCEPT !.pc = "validate"]
  /\ UNCHANGED <<flash, pendLen, engine, ai, push, pump, ack, ran, hist>>

PushDone(answer) ==
  /\ ack' = [ack EXCEPT ![push] = answer]
  /\ push' = NoBlob
  /\ xfer' = XferIdle

(* Retry from the start; after the last attempt give up, or stay queued     *)
(* when the heap is short.                                                  *)
DownloadFails ==
  /\ Alive /\ xfer.pc = "download"
  /\ \/ /\ xfer.attempt < MaxAttempts
        /\ xfer' = [xfer EXCEPT !.at = 1, !.attempt = @ + 1]
        /\ UNCHANGED <<push, ack>>
     \/ /\ xfer.attempt = MaxAttempts
        /\ PushDone("failed")
     \/ /\ xfer.attempt = MaxAttempts
        /\ xfer' = XferIdle
        /\ UNCHANGED <<push, ack>>
  /\ UNCHANGED <<flash, pend, pendLen, engine, ai, pump, ran, hist>>

(* Mutant: the download is queued unseen. *)
PushUnseen ==
  /\ Alive /\ xfer.pc = "validate"
  /\ xfer' = [xfer EXCEPT !.pc = "queue"]
  /\ UNCHANGED <<flash, pend, pendLen, engine, ai, push, pump, ack, ran, hist>>

(* face_detection_request_swap: iotv_validate over the pending buffer ...   *)
PushValidate ==
  /\ Alive /\ xfer.pc = "validate"
  /\ IF MS!Validates(pend, Chunks[push])
     THEN xfer' = [xfer EXCEPT !.pc = "queue"] /\ UNCHANGED <<push, ack>>
     ELSE PushDone("failed")
  /\ UNCHANGED <<flash, pend, pendLen, engine, ai, pump, ran, hist>>

(* ... then the length word, "swap already pending" if it is taken.         *)
PushQueue ==
  /\ Alive /\ xfer.pc = "queue"
  /\ IF pendLen # 0
     THEN PushDone("failed") /\ UNCHANGED <<pendLen, reverted>>
     ELSE /\ pendLen' = Chunks[push]
          /\ reverted' = FALSE
          /\ PushDone("done")
  /\ UNCHANGED <<flash, pend, engine, ai, pump, ran, scene, spared, onReset>>

-----------------------------------------------------------------------------
(* Power loss or reset (the reboot command does not wait for a swap). *)
Reset ==
  /\ MS!Reset
  /\ pend' = Blank /\ pendLen' = 0
  /\ staging' = Blank /\ interp' = FALSE /\ inited' = FALSE /\ name' = NoBlob
  /\ ai' = Booting /\ push' = NoBlob /\ xfer' = XferIdle /\ pump' = PumpIdle
  /\ ran' = NoBlob /\ onReset' = saved
  /\ UNCHANGED <<ack, scene, reverted, spared>>

(* handle_error's BKPT: nothing happens on a halted board until a reset.     *)
Stopped == ~ Alive /\ UNCHANGED vars

AIStep ==
  \/ BootLoad \/ BootStage \/ BootApply \/ BootErase \/ BootErased
  \/ BootFallback \/ BootBuiltin
  \/ SwapStart \/ CopyChunk \/ CopyPast \/ SwapApply \/ SaveSwapped \/ SaveStep
  \/ Reload \/ ReloadBuiltin \/ SwapFinish \/ Infer

PumpStep == RevertErased \/ RevertWrap \/ RevertQueue

XferStep ==
  \/ PushStart \/ DownloadChunk \/ DownloadFails \/ PushValidate \/ PushQueue

Next ==
  \/ AIStep \/ PumpStep \/ XferStep
  \/ \E b \in Models : PushArrives(b)
  \/ RevertErase
  \/ Reset
  \/ Stopped

Spec == Init /\ [][Next]_vars

(* Tasks that have something to do are scheduled.  The bounded wait of      *)
(* prv_wait_idle returns whatever the flash does, and the flash mutex is    *)
(* handed to its waiters, so the AI thread gets it in the end; a download   *)
(* ends, one way or the other.                                              *)
LiveSpec ==
  /\ Spec
  /\ SF_vars(AIStep) /\ WF_vars(PumpStep) /\ WF_vars(XferStep)

-----------------------------------------------------------------------------
(* Type correctness; the AI thread never saves outside a blob, and copies    *)
(* at most to the first chunk past the staging buffer.                       *)
AIPcs == BootPcs \cup {"idle", "copy", "apply", "save", "saving", "reload", "builtin",
                       "finish", "infer", "halted"}

TypeOK ==
  /\ MS!TypeOK
  /\ pend \in Region /\ staging \in Region
  /\ pendLen \in 0..SlotChunks
  /\ interp \in BOOLEAN /\ inited \in BOOLEAN
  /\ name \in Blobs \cup {NoBlob} /\ ran \in Blobs \cup {NoBlob}
  /\ ai \in [pc : AIPcs, len : 0..SlotChunks, at : 0..PastEnd, copy : 0..PastEnd]
  /\ ai.pc = "copy" => ai.at \in 1..ai.copy
  /\ push \in Models \cup {NoBlob}
  /\ xfer \in [pc : {"idle", "download", "validate", "queue"},
               at : 0..SlotChunks, attempt : 0..MaxAttempts]
  /\ pump \in [pc : {"idle", "erasing", "wrap", "queue"}, at : 0..SlotChunks]
  /\ ack \in [Models -> {"none", "downloading", "failed", "done"}]
  /\ scene \in Scenes /\ reverted \in BOOLEAN
  /\ spared \in Blobs \cup {NoBlob} /\ onReset \in Blobs \cup {NoBlob}

(* The interpreter is destroyed before the flatbuffer it was built on is    *)
(* overwritten: its destructor walks that flatbuffer.                       *)
TeardownFirst ==
  [][staging' # staging => (~ interp \/ ai'.pc = "boot")]_vars

(* A boot never builds an interpreter over a torn model, wherever a reset   *)
(* or a concurrent download interrupted the save it finds in the slot.      *)
BootModelWhole ==
  ai.pc = "bootApply" => \E b \in Blobs : MS!Holds(staging, b)

(* A queued swap request is taken up and finished: the next push does not   *)
(* find "swap already pending" for ever, unless the board has stopped.      *)
SwapConsumed == pendLen # 0 ~> (pendLen = 0 \/ ~ Alive)

(* What follows is promised to an operator who waits for one push or revert *)
(* to take effect before starting the next.                                 *)

(* The copy into staging stays inside it, although its length is taken      *)
(* unchecked from the pending buffer.                                       *)
CopyInBounds == scene.serial /\ ai.pc = "copy" => ai.copy <= SlotChunks

(* The slot only ever holds complete models that the device has accepted    *)
(* before, so the next boot does not reject and erase what it finds.        *)
SlotLoadable ==
  scene.serial =>
    \A b \in Blobs : MS!Holds(slot, b) => Kind[b] \in Accept /\ b # Builtin

(* Between two frames the model that telemetry and model-info name is the   *)
(* one in staging, and it runs; or it was refused, by a build that has no   *)
(* other model to load in its place, or as that other model itself.  No     *)
(* model infers without a name.                                             *)
NameIsRunning ==
  (scene.serial /\ ai.pc \in {"idle", "infer"}) =>
    /\ inited => name # NoBlob
    /\ name # NoBlob =>
         /\ MS!Holds(staging, name)
         /\ \/ inited /\ ran = name
            \/ Kind[name] \notin Accept /\ (scene.builtin => name = Builtin)

(* The board stops only over a model that is not good, never because of how *)
(* a swap, a failed save, a revert or a boot went.                          *)
HaltsOverBadModel ==
  (scene.serial /\ ~ Alive) =>
    \E b \in Blobs : MS!Holds(staging, b) /\ Kind[b] # "good"

(* A model whose save was reported, and not followed by another save or an  *)
(* erase before the reset, is the one the boot brings back: a boot that     *)
(* ends runs it and reports it, and neither erases the slot nor falls back. *)
SavedModelBoots ==
  [][(scene.serial /\ onReset # NoBlob /\ ai.pc \in BootPcs /\ ai'.pc \notin BootPcs)
       => /\ inited' /\ ran' = onReset /\ name' = onReset
          /\ MS!Holds(staging', onReset) /\ MS!Holds(slot', onReset)]_vars

(* After an acknowledged model-revert no boot brings a model back, but the  *)
(* one that the erase, failing unnoticed, left in the slot.                 *)
RevertErasesSlot ==
  (scene.serial /\ reverted) => \A b \in Blobs : MS!Holds(slot, b) => b = spared

(* A queued model the device supports becomes the running one, unless the   *)
(* board is reset first, or stops over the model before it.                 *)
QueuedModelRuns ==
  \A b \in {g \in Blobs : Kind[g] = "good"} :
    (scene.serial /\ pendLen # 0 /\ MS!Holds(pend, b))
      ~> (ran = b \/ ai.pc = "boot" \/ (~ Alive /\ ~ MS!Holds(staging, b)))

-----------------------------------------------------------------------------
(* What the documentation says, and the code does not do. *)

(* The model that is swapped in is one that was validated as a whole.       *)
SwapsValidatedModel ==
  ai.pc = "apply" => \E b \in Blobs : MS!Holds(staging, b)

(* The model that is reported is the one that runs.                         *)
ReportedModelRuns ==
  (ai.pc = "idle" /\ name # NoBlob) => inited /\ ran = name

(* A swap that fails leaves the model accepted before it running.           *)
PreviousKeepsRunning ==
  (ai.pc = "idle" /\ ran # NoBlob) => inited /\ MS!Holds(staging, ran)

(* Once model-revert is acknowledged nothing is stored.                     *)
RevertClearsStore == reverted => \A b \in Blobs : ~ MS!Holds(slot, b)

(* A board that is reset comes up on its stored model and goes on.          *)
StoredModelServes == ~ (~ Alive /\ onReset # NoBlob /\ ran = onReset /\ name = onReset)
=============================================================================
