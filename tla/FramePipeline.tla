---------------------------- MODULE FramePipeline ----------------------------
(***************************************************************************)
(* The vision loop and its controls: the VIN interrupt and its three       *)
(* buffers, the camera, AI inference and display threads, the snapshot's   *)
(* copy of a frame, the brightness and led-auto commands, and the video    *)
(* stream's media task.  They share memory without a lock; what orders     *)
(* them is the event group, the priorities, and the order of their writes. *)
(*                                                                         *)
(* A task runs when no task of a higher priority is ready; the interrupt   *)
(* comes at any time.  Tasks of one priority interleave freely: time       *)
(* slicing is off, but after a preemption FreeRTOS resumes the next ready  *)
(* task of the level, not always the preempted one.                        *)
(*                                                                         *)
(* What a frame and a model's input show, drawing, and the models          *)
(* (HotSwap) are left out; an inference finds any number of boxes.         *)
(***************************************************************************)
EXTENDS Naturals, FiniteSets

CONSTANTS
  MaxBoxes,  \* FD_MAX_BOXES
  Scenes     \* the sets of controls used together, see Controls

Controls == {"snapshot", "brightness", "led", "stream"}

ASSUME PipelineAssumption == MaxBoxes \in Nat /\ Scenes \subseteq SUBSET Controls

Buffers == 1..3
None == 0

(* The pump runs cloud commands, the CLI the console's, xfer the snapshot,  *)
(* kvs the viewers' coming and going.                                       *)
Tasks == {"camera", "display", "pump", "xfer", "ai", "cli", "kvs", "media"}

(* Mutant: the AI thread is given the camera thread's priority. *)
AiPromoted(t) == CASE t \in {"camera", "display", "ai"} -> 3
                   [] t \in {"pump", "xfer"} -> 2
                   [] OTHER -> 1

(* The threads' configuration, and the tasks' xTaskCreate calls. *)
Prio(t) == CASE t \in {"camera", "display"} -> 3
             [] t \in {"pump", "xfer"} -> 2
             [] OTHER -> 1

VARIABLES
  scene,       \* never changed
  pc,          \* where each task is
  bits,        \* g_ai_app_event
  writing,     \* the buffer VIN writes
  half,        \* its upper half is done
  published,   \* gp_next_buffer
  count,       \* s_box_count
  boxes,       \* s_boxes, each "old", "part" or "new": what the current
               \* result has written
  drawn,       \* history: the boxes some reader drew last
  updated,     \* ai_result_updated, of the display thread
  overlay,     \* overlay_drawn
  undrawn,     \* history: a result the display thread has not taken up
  bright,      \* s_brightness_level, s_brightness_dirty, the level written
               \* to the registers last, and whether all of it took effect
  led,         \* s_led_auto, the pin, and a history: the feature was switched
               \* off while the AI thread was about to write the pin
  snap,        \* the snapshot: its buffer, the halves of it VIN has replaced
               \* since, which content each half of the copy has, its boxes
  media        \* ucStreaming, ucForceIdr, the encode's frame type, and a
               \* history: since the viewer came no key frame was encoded
               \* (owed), or none was sent (blind)

frame == <<writing, half, published>>
result == <<count, boxes>>
screen == <<updated, overlay>>
vars == <<scene, pc, bits, frame, result, drawn, screen, undrawn, bright, led, snap, media>>

NoSnap == [from |-> None, top |-> 0, bottom |-> 0, halves |-> 0, n |-> 0]

Init ==
  /\ scene \in Scenes
  /\ pc = [t \in Tasks |-> IF t \in {"camera", "display", "ai"} THEN "init" ELSE "idle"]
  /\ bits = {}
  /\ writing = 1 /\ half = FALSE /\ published = None
  /\ count = 0 /\ boxes = [i \in 1..MaxBoxes |-> "old"] /\ drawn = {}
  /\ updated = FALSE /\ overlay = FALSE /\ undrawn = FALSE
  /\ bright = [level |-> 0, dirty |-> FALSE, wrote |-> 0, took |-> TRUE]
  /\ led = [auto |-> FALSE, lit |-> FALSE, raced |-> FALSE]
  /\ snap = NoSnap
  /\ media = [streaming |-> FALSE, forceIdr |-> FALSE, key |-> FALSE,
              owed |-> FALSE, blind |-> FALSE]

-----------------------------------------------------------------------------
(* Waiting for a bit, a delay, the console or a command. *)
Blocked(t) ==
  \/ pc[t] \in {"idle", "delay", "wait", "print"}
  \/ t = "ai" /\ pc[t] = "init"

(* t, at "from", has the processor and goes on to "to". *)
Step(t, from, to) ==
  /\ pc[t] = from /\ pc' = [pc EXCEPT ![t] = to]
  /\ \A u \in Tasks : Prio(u) > Prio(t) => Blocked(u)
  /\ UNCHANGED scene

SetBit(b) == bits' = bits \cup {b}
ClearBit(b) == bits' = bits \ {b}

(* face_detection_box_get for each of the n boxes counted: beyond the count *)
(* of then, it sets nothing.                                                *)
BoxesRead(n) == {IF i <= count THEN boxes[i] ELSE "unset" : i \in 1..n}

-----------------------------------------------------------------------------
(* VIN, between a snapshot's first read and its last *)

Copying == pc["xfer"] \in {"top", "bottom"}

(* VIN has written the upper half of its buffer. *)
FrameHalf ==
  /\ "camera" \in bits /\ ~ half /\ half' = TRUE
  /\ snap' = IF Copying /\ writing = snap.from THEN [snap EXCEPT !.halves = 1] ELSE snap
  /\ UNCHANGED <<scene, pc, bits, writing, published, result, drawn, screen, undrawn,
                 bright, led, media>>

(* vin0_callback: draw the boxes into the frame, then publish it. *)
FrameComplete ==
  /\ "camera" \in bits /\ half /\ half' = FALSE
  /\ drawn' = BoxesRead(count)
  /\ published' = writing /\ writing' = (writing % 3) + 1
  /\ snap' = IF Copying /\ writing = snap.from THEN [snap EXCEPT !.halves = 2] ELSE snap
  /\ UNCHANGED <<scene, pc, bits, result, screen, undrawn, bright, led, media>>

-----------------------------------------------------------------------------
(* The camera thread *)

CameraInit ==
  /\ Step("camera", "init", "delay") /\ SetBit("camera")
  /\ UNCHANGED <<frame, result, drawn, screen, undrawn, bright, led, snap, media>>

(* camera_apply_brightness_if_pending clears the request, *)
CameraWake ==
  /\ Step("camera", "delay", IF bright.dirty THEN "regs" ELSE "convert")
  /\ bright' = [bright EXCEPT !.dirty = FALSE]
  /\ UNCHANGED <<bits, frame, result, drawn, screen, undrawn, led, snap, media>>

(* reads the level and writes the registers.  A write that is aborted, times *)
(* out or reads back otherwise goes unnoticed.                               *)
CameraRegs ==
  /\ Step("camera", "regs", "print")
  /\ \E took \in BOOLEAN : bright' = [bright EXCEPT !.wrote = bright.level, !.took = took]
  /\ UNCHANGED <<bits, frame, result, drawn, screen, undrawn, led, snap, media>>

(* Mutant: the request is cleared when it is done. *)
PrintThenClear ==
  /\ Step("camera", "print", "convert")
  /\ bright' = [bright EXCEPT !.dirty = FALSE]
  /\ UNCHANGED <<bits, frame, result, drawn, screen, undrawn, led, snap, media>>

(* It prints the level all the same, which waits for the console. *)
CameraPrinted ==
  /\ Step("camera", "print", "convert")
  /\ UNCHANGED <<bits, frame, result, drawn, screen, undrawn, bright, led, snap, media>>

CameraConvert ==
  /\ Step("camera", "convert", "delay") /\ SetBit("image")
  /\ UNCHANGED <<frame, result, drawn, screen, undrawn, bright, led, snap, media>>

-----------------------------------------------------------------------------
(* The AI inference thread *)

AiInit ==
  /\ {"camera", "display"} \subseteq bits
  /\ Step("ai", "init", "wait")
  /\ UNCHANGED <<bits, frame, result, drawn, screen, undrawn, bright, led, snap, media>>

AiTake ==
  /\ "image" \in bits
  /\ Step("ai", "wait", "infer") /\ ClearBit("image")
  /\ UNCHANGED <<frame, result, drawn, screen, undrawn, bright, led, snap, media>>

(* face_detection_run, up to s_box_count = 0 *)
AiInfer ==
  /\ Step("ai", "infer", "store")
  /\ count' = 0 /\ boxes' = [i \in 1..MaxBoxes |-> "old"]
  /\ UNCHANGED <<bits, frame, drawn, screen, undrawn, bright, led, snap, media>>

(* Mutant: the box is counted before it is written. *)
CountThenWrite ==
  /\ count < MaxBoxes /\ count' = count + 1
  /\ Step("ai", "store", "box") /\ boxes' = [boxes EXCEPT ![count + 1] = "part"]
  /\ UNCHANGED <<bits, frame, drawn, screen, undrawn, bright, led, snap, media>>

(* A box is written field by field, then counted. *)
AiWriteBox ==
  /\ count < MaxBoxes
  /\ Step("ai", "store", "box") /\ boxes' = [boxes EXCEPT ![count + 1] = "part"]
  /\ UNCHANGED <<bits, frame, count, drawn, screen, undrawn, bright, led, snap, media>>

AiCountBox ==
  /\ Step("ai", "box", "store")
  /\ boxes' = [boxes EXCEPT ![count + 1] = "new"] /\ count' = count + 1
  /\ UNCHANGED <<bits, frame, drawn, screen, undrawn, bright, led, snap, media>>

(* prv_led_auto_update: the switch is read, *)
AiReadSwitch ==
  /\ Step("ai", "store", IF led.auto THEN "led" ELSE "report")
  /\ UNCHANGED <<bits, frame, result, drawn, screen, undrawn, bright, led, snap, media>>

(* the pin is written, *)
AiWriteLed ==
  /\ Step("ai", "led", "report") /\ led' = [led EXCEPT !.lit = count > 0]
  /\ UNCHANGED <<bits, frame, result, drawn, screen, undrawn, bright, snap, media>>

(* and the display is told. *)
AiReport ==
  /\ Step("ai", "report", "delay") /\ SetBit("result") /\ undrawn' = TRUE
  /\ UNCHANGED <<frame, result, drawn, screen, bright, led, snap, media>>

AiDelay ==
  /\ Step("ai", "delay", "wait")
  /\ UNCHANGED <<bits, frame, result, drawn, screen, undrawn, bright, led, snap, media>>

-----------------------------------------------------------------------------
(* The display thread *)

DisplayInit ==
  /\ Step("display", "init", "delay") /\ SetBit("display")
  /\ UNCHANGED <<frame, result, drawn, screen, undrawn, bright, led, snap, media>>

(* The first result brings up the screen without its boxes, later ones are  *)
(* drawn; the processing time is printed.                                   *)
DisplayDraw ==
  /\ Step("display", "delay", IF overlay \/ updated THEN "print" ELSE "get")
  /\ overlay' = (overlay \/ updated)
  /\ undrawn' = (undrawn /\ ~ updated)
  /\ drawn' = IF overlay /\ updated THEN BoxesRead(count) ELSE drawn
  /\ UNCHANGED <<bits, frame, result, updated, bright, led, snap, media>>

DisplayPrinted ==
  /\ Step("display", "print", "get")
  /\ UNCHANGED <<bits, frame, result, drawn, screen, undrawn, bright, led, snap, media>>

(* The result bit is read, *)
DisplayGet ==
  /\ Step("display", "get", "clear") /\ updated' = ("result" \in bits)
  /\ UNCHANGED <<bits, frame, result, drawn, overlay, undrawn, bright, led, snap, media>>

(* then cleared. *)
DisplayClear ==
  /\ Step("display", "clear", "delay") /\ ClearBit("result")
  /\ UNCHANGED <<frame, result, drawn, screen, undrawn, bright, led, snap, media>>

-----------------------------------------------------------------------------
(* iotc_snapshot_capture_upload, up to the encoding *)

(* gp_next_buffer is read once. *)
SnapBegin ==
  /\ "snapshot" \in scene /\ published # None
  /\ Step("xfer", "idle", "top") /\ snap' = [NoSnap EXCEPT !.from = published]
  /\ UNCHANGED <<bits, frame, result, drawn, screen, undrawn, bright, led, media>>

SnapTop ==
  /\ Step("xfer", "top", "bottom")
  /\ snap' = [snap EXCEPT !.top = IF snap.halves > 0 THEN 1 ELSE 0]
  /\ UNCHANGED <<bits, frame, result, drawn, screen, undrawn, bright, led, media>>

SnapBottom ==
  /\ Step("xfer", "bottom", "count")
  /\ snap' = [snap EXCEPT !.bottom = IF snap.halves > 1 THEN 1 ELSE 0]
  /\ UNCHANGED <<bits, frame, result, drawn, screen, undrawn, bright, led, media>>

SnapCount ==
  /\ Step("xfer", "count", "boxes") /\ snap' = [snap EXCEPT !.n = count]
  /\ UNCHANGED <<bits, frame, result, drawn, screen, undrawn, bright, led, media>>

SnapBoxes ==
  /\ Step("xfer", "boxes", "idle") /\ drawn' = BoxesRead(snap.n) /\ snap' = NoSnap
  /\ UNCHANGED <<bits, frame, result, screen, undrawn, bright, led, media>>

-----------------------------------------------------------------------------
(* Commands, from the cloud and from the console *)

Commanders == {"pump", "cli"}

(* camera_set_brightness_level writes the level, then the request. *)
SetLevel(t, level) ==
  /\ "brightness" \in scene
  /\ Step(t, "idle", "dirty") /\ bright' = [bright EXCEPT !.level = level]
  /\ UNCHANGED <<bits, frame, result, drawn, screen, undrawn, led, snap, media>>

SetDirty(t) ==
  /\ Step(t, "dirty", "idle") /\ bright' = [bright EXCEPT !.dirty = TRUE]
  /\ UNCHANGED <<bits, frame, result, drawn, screen, undrawn, led, snap, media>>

(* led_auto_set; a toggle sets one or the other. *)
LedOn(t) ==
  /\ "led" \in scene
  /\ Step(t, "idle", "idle") /\ led' = [led EXCEPT !.auto = TRUE]
  /\ UNCHANGED <<bits, frame, result, drawn, screen, undrawn, bright, snap, media>>

LedOff(t) ==
  /\ "led" \in scene
  /\ Step(t, "idle", "dark")
  /\ led' = [led EXCEPT !.auto = FALSE, !.raced = (pc["ai"] = "led")]
  /\ UNCHANGED <<bits, frame, result, drawn, screen, undrawn, bright, snap, media>>

(* Mutant: the LED is left as it is. *)
LedFrozen(t) ==
  /\ Step(t, "dark", "idle")
  /\ UNCHANGED <<bits, frame, result, drawn, screen, undrawn, bright, led, snap, media>>

LedDark(t) ==
  /\ Step(t, "dark", "idle") /\ led' = [led EXCEPT !.lit = FALSE]
  /\ UNCHANGED <<bits, frame, result, drawn, screen, undrawn, bright, snap, media>>

-----------------------------------------------------------------------------
(* The media port; the stream is started for the first viewer and stopped   *)
(* with the last.                                                           *)

StreamStart ==
  /\ "stream" \in scene /\ ~ media.streaming
  /\ Step("kvs", "idle", "start")
  /\ media' = [media EXCEPT !.forceIdr = TRUE, !.owed = TRUE, !.blind = TRUE]
  /\ UNCHANGED <<bits, frame, result, drawn, screen, undrawn, bright, led, snap>>

StreamOn ==
  /\ Step("kvs", "start", "idle") /\ media' = [media EXCEPT !.streaming = TRUE]
  /\ UNCHANGED <<bits, frame, result, drawn, screen, undrawn, bright, led, snap>>

StreamStop ==
  /\ media.streaming
  /\ Step("kvs", "idle", "idle")
  /\ media' = [media EXCEPT !.streaming = FALSE, !.owed = FALSE, !.blind = FALSE]
  /\ UNCHANGED <<bits, frame, result, drawn, screen, undrawn, bright, led, snap>>

(* prv_media_task: convert a frame, *)
MediaConvert ==
  /\ media.streaming /\ published # None
  /\ Step("media", "idle", "type")
  /\ UNCHANGED <<bits, frame, result, drawn, screen, undrawn, bright, led, snap, media>>

(* choose the frame type: a key frame if asked for, else as the encoder      *)
(* does, which makes every 30th a key frame,                                 *)
MediaType ==
  /\ Step("media", "type", "encode")
  /\ \E key \in {TRUE, media.forceIdr} :
       media' = [media EXCEPT !.key = key, !.forceIdr = FALSE]
  /\ UNCHANGED <<bits, frame, result, drawn, screen, undrawn, bright, led, snap>>

(* encode and send.  The frame is dropped when the encoder fails, returns    *)
(* nothing or more than 128 KB, or the callback cannot send it, and nothing  *)
(* is asked for again.                                                       *)
Encoded(sent) ==
  [media EXCEPT !.owed = @ /\ ~ media.key, !.blind = @ /\ ~ (media.key /\ sent)]

(* Mutant: the request for a key frame is cleared when a frame is sent. *)
SendClearsIdr ==
  /\ Step("media", "encode", "idle")
  /\ \E sent \in BOOLEAN : media' = [Encoded(sent) EXCEPT !.forceIdr = FALSE]
  /\ UNCHANGED <<bits, frame, result, drawn, screen, undrawn, bright, led, snap>>

MediaSend ==
  /\ Step("media", "encode", "idle")
  /\ \E sent \in BOOLEAN : media' = Encoded(sent)
  /\ UNCHANGED <<bits, frame, result, drawn, screen, undrawn, bright, led, snap>>

-----------------------------------------------------------------------------
Vin == FrameHalf \/ FrameComplete
Camera == CameraInit \/ CameraWake \/ CameraRegs \/ CameraPrinted \/ CameraConvert
Ai ==
  \/ AiInit \/ AiTake \/ AiInfer \/ AiWriteBox \/ AiCountBox
  \/ AiReadSwitch \/ AiWriteLed \/ AiReport \/ AiDelay
Display == DisplayInit \/ DisplayDraw \/ DisplayPrinted \/ DisplayGet \/ DisplayClear
Snapshot == SnapBegin \/ SnapTop \/ SnapBottom \/ SnapCount \/ SnapBoxes
Command(t) == LedOn(t) \/ LedOff(t) \/ SetDirty(t) \/ LedDark(t)
              \/ \E level \in {0, 1} : SetLevel(t, level)
Stream == StreamStart \/ StreamOn \/ StreamStop
Media == MediaConvert \/ MediaType \/ MediaSend

Next ==
  \/ Vin \/ Camera \/ Ai \/ Display \/ Snapshot
  \/ \E t \in Commanders : Command(t)
  \/ Stream \/ Media

Spec == Init /\ [][Next]_vars

-----------------------------------------------------------------------------
(* Type correctness; each task is at a label of its own, gp_next_buffer is  *)
(* the buffer before the one VIN writes, and a counted box is written.      *)
TypeOK ==
  /\ scene \in Scenes
  /\ bits \subseteq {"camera", "display", "image", "result"}
  /\ writing \in Buffers /\ published \in Buffers \cup {None} /\ half \in BOOLEAN
  /\ published # None => published = ((writing + 1) % 3) + 1
  /\ count \in 0..MaxBoxes /\ \A i \in 1..count : boxes[i] = "new"
  /\ pc["ai"] \in {"init", "wait", "infer", "store", "box", "led", "report", "delay"}
  /\ pc["display"] \in {"init", "delay", "print", "get", "clear"}
  /\ pc["camera"] \in {"init", "delay", "regs", "print", "convert"}
  /\ snap.from \in Buffers \cup {None} /\ snap.n \in 0..MaxBoxes
  /\ overlay => "display" \in bits

(* Boxes drawn on a frame, a snapshot or the screen are whole and of one    *)
(* result: none half written, of the result before, or counted and gone.    *)
OneResultDrawn == drawn \subseteq {"new"}

(* No brightness command is missed: once the commands and the camera thread *)
(* are done with it, the level written to the sensor last is the one asked  *)
(* for last.  Whether the sensor took it, nobody looks.                     *)
BrightnessSettled ==
  ~ bright.dirty /\ pc["camera"] # "regs" /\ \A t \in Commanders : pc[t] # "dirty"

LevelWritten == BrightnessSettled => bright.wrote = bright.level

(* Switched off, the LED is dark, unless the AI thread had read the switch  *)
(* and not written the pin when it was thrown.                              *)
LedDarkWhenOff ==
  led.lit => led.auto \/ led.raced \/ \E t \in Commanders : pc[t] = "dark"

(* No result is lost between the AI and the display thread, which reads and *)
(* clears the bit in two calls: until it is taken up it is announced.       *)
NoResultLost == undrawn => "result" \in bits \/ updated

(* A viewer who starts the stream has a key frame encoded, also when the    *)
(* stream stops and starts during an encode: until then it is asked for or  *)
(* under way.                                                               *)
KeyFrameComing == media.forceIdr \/ (media.key /\ pc["media"] = "encode")
KeyFrameKept == media.owed => KeyFrameComing

-----------------------------------------------------------------------------
(* What the documentation and the comments say, and the code does not keep. *)

(* set-brightness: the camera has the level asked for.                      *)
SensorAsSet == BrightnessSettled => bright.wrote = bright.level /\ bright.took

(* A snapshot is one frame of the camera.                                   *)
SnapshotWhole == pc["xfer"] \in {"count", "boxes"} => snap.top = snap.bottom

(* A joining viewer needs a key frame: until one is sent, one is coming.    *)
ViewerGetsKeyFrame == media.blind => KeyFrameComing
=============================================================================
