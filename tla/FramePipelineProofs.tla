------------------------- MODULE FramePipelineProofs -------------------------
(***************************************************************************)
(* What the tasks of FramePipeline share without a lock is kept in order   *)
(* by their priorities and by the order of their writes, for any number of *)
(* boxes and any use of the controls.  The typing of the program counters  *)
(* is proved once; each theorem then adds the few facts that make its      *)
(* property inductive.                                                     *)
(***************************************************************************)
EXTENDS FramePipeline, TLAPS

-----------------------------------------------------------------------------
(* What each component leaves alone. *)

LEMMA VinLeaves == Vin => UNCHANGED <<pc, bits, result, screen, undrawn, bright, led, media>>
  BY DEF Vin, FrameHalf, FrameComplete

LEMMA CameraLeaves ==
  Camera => UNCHANGED <<frame, result, drawn, screen, undrawn, led, snap, media>>
  BY DEF Camera, CameraInit, CameraWake, CameraRegs, CameraPrinted, CameraConvert

LEMMA AiLeaves == Ai => UNCHANGED <<frame, drawn, screen, bright, snap, media>>
  BY DEF Ai, AiInit, AiTake, AiInfer, AiWriteBox, AiCountBox, AiReadSwitch, AiWriteLed,
     AiReport, AiDelay, result

LEMMA DisplayLeaves == Display => UNCHANGED <<frame, result, bright, led, snap, media>>
  BY DEF Display, DisplayInit, DisplayDraw, DisplayPrinted, DisplayGet, DisplayClear

LEMMA SnapshotLeaves ==
  Snapshot => UNCHANGED <<bits, frame, result, screen, undrawn, bright, led, media>>
  BY DEF Snapshot, SnapBegin, SnapTop, SnapBottom, SnapCount, SnapBoxes

LEMMA CommandLeaves ==
  \A t \in Commanders :
    Command(t) => UNCHANGED <<bits, frame, result, drawn, screen, undrawn, snap, media>>
  BY DEF Command, SetLevel, SetDirty, LedOn, LedOff, LedDark

LEMMA StreamLeaves ==
  Stream => UNCHANGED <<bits, frame, result, drawn, screen, undrawn, bright, led, snap>>
  BY DEF Stream, StreamStart, StreamOn, StreamStop

LEMMA MediaLeaves ==
  Media => UNCHANGED <<bits, frame, result, drawn, screen, undrawn, bright, led, snap>>
  BY DEF Media, MediaConvert, MediaType, MediaSend

-----------------------------------------------------------------------------
(* Program counters.  A step of t moves t alone, when every task above it   *)
(* is blocked.                                                              *)

Labels == {"init", "idle", "delay", "wait", "print", "regs", "convert", "infer",
           "store", "box", "led", "report", "get", "clear", "top", "bottom", "count",
           "boxes", "dirty", "dark", "start", "type", "encode"}

PcTyping == pc \in [Tasks -> Labels]

LEMMA StepEffect ==
  ASSUME NEW t \in Tasks, NEW from, NEW to \in Labels, PcTyping, Step(t, from, to)
  PROVE  /\ PcTyping'
         /\ pc[t] = from /\ pc'[t] = to /\ \A u \in Tasks \ {t} : pc'[u] = pc[u]
         /\ \A u \in Tasks : Prio(u) > Prio(t) => Blocked(u)
  BY DEF Step, PcTyping

LEMMA PcTypingStep == PcTyping /\ [Next]_vars => PcTyping'
<1> SUFFICES ASSUME PcTyping, [Next]_vars PROVE PcTyping'
  OBVIOUS
<1>0. /\ Tasks = {"camera", "display", "pump", "xfer", "ai", "cli", "kvs", "media"}
      /\ Labels = {"init", "idle", "delay", "wait", "print", "regs", "convert", "infer",
           "store", "box", "led", "report", "get", "clear", "top", "bottom", "count",
           "boxes", "dirty", "dark", "start", "type", "encode"}
  BY DEF Tasks, Labels
<1>1. CASE Vin
  BY <1>1, VinLeaves DEF PcTyping
<1>2. CASE Camera
  BY <1>0, <1>2, StepEffect DEF Camera, CameraInit, CameraWake, CameraRegs, CameraPrinted,
     CameraConvert
<1>3. CASE Ai
  BY <1>0, <1>3, StepEffect DEF Ai, AiInit, AiTake, AiInfer, AiWriteBox, AiCountBox,
     AiReadSwitch, AiWriteLed, AiReport, AiDelay
<1>4. CASE Display
  BY <1>0, <1>4, StepEffect DEF Display, DisplayInit, DisplayDraw, DisplayPrinted,
     DisplayGet, DisplayClear
<1>5. CASE Snapshot
  BY <1>0, <1>5, StepEffect DEF Snapshot, SnapBegin, SnapTop, SnapBottom, SnapCount,
     SnapBoxes
<1>6. ASSUME NEW t \in Commanders, Command(t) PROVE PcTyping'
  BY <1>0, <1>6, StepEffect DEF Commanders, Command, SetLevel, SetDirty, LedOn, LedOff,
     LedDark
<1>7. CASE Stream
  BY <1>0, <1>7, StepEffect DEF Stream, StreamStart, StreamOn, StreamStop
<1>8. CASE Media
  BY <1>0, <1>8, StepEffect DEF Media, MediaConvert, MediaType, MediaSend
<1>9. CASE UNCHANGED vars
  BY <1>9 DEF vars, PcTyping
<1> QED
  BY <1>1, <1>2, <1>3, <1>4, <1>5, <1>6, <1>7, <1>8, <1>9 DEF Next

LEMMA PcTypingInit == Init => PcTyping
  BY DEF Init, PcTyping, Labels, Tasks

(* Each component moves its own task only. *)
LEMMA OwnPc ==
  ASSUME PcTyping
  PROVE  /\ Camera => \A u \in Tasks \ {"camera"} : pc'[u] = pc[u]
         /\ Ai => \A u \in Tasks \ {"ai"} : pc'[u] = pc[u]
         /\ Display => \A u \in Tasks \ {"display"} : pc'[u] = pc[u]
         /\ Snapshot => \A u \in Tasks \ {"xfer"} : pc'[u] = pc[u]
         /\ \A t \in Commanders : Command(t) => \A u \in Tasks \ {t} : pc'[u] = pc[u]
         /\ Stream => \A u \in Tasks \ {"kvs"} : pc'[u] = pc[u]
         /\ Media => \A u \in Tasks \ {"media"} : pc'[u] = pc[u]
<1> USE DEF PcTyping, Step
<1>1. Camera => \A u \in Tasks \ {"camera"} : pc'[u] = pc[u]
  BY DEF Camera, CameraInit, CameraWake, CameraRegs, CameraPrinted, CameraConvert
<1>2. Ai => \A u \in Tasks \ {"ai"} : pc'[u] = pc[u]
  BY DEF Ai, AiInit, AiTake, AiInfer, AiWriteBox, AiCountBox, AiReadSwitch, AiWriteLed,
     AiReport, AiDelay
<1>3. Display => \A u \in Tasks \ {"display"} : pc'[u] = pc[u]
  BY DEF Display, DisplayInit, DisplayDraw, DisplayPrinted, DisplayGet, DisplayClear
<1>4. Snapshot => \A u \in Tasks \ {"xfer"} : pc'[u] = pc[u]
  BY DEF Snapshot, SnapBegin, SnapTop, SnapBottom, SnapCount, SnapBoxes
<1>5. \A t \in Commanders : Command(t) => \A u \in Tasks \ {t} : pc'[u] = pc[u]
  BY DEF Command, SetLevel, SetDirty, LedOn, LedOff, LedDark
<1>6. Stream => \A u \in Tasks \ {"kvs"} : pc'[u] = pc[u]
  BY DEF Stream, StreamStart, StreamOn, StreamStop
<1>7. Media => \A u \in Tasks \ {"media"} : pc'[u] = pc[u]
  BY DEF Media, MediaConvert, MediaType, MediaSend
<1> QED
  BY <1>1, <1>2, <1>3, <1>4, <1>5, <1>6, <1>7

LEMMA TaskNames ==
  /\ Tasks = {"camera", "display", "pump", "xfer", "ai", "cli", "kvs", "media"}
  /\ Commanders = {"pump", "cli"}
  BY DEF Tasks, Commanders

-----------------------------------------------------------------------------
(* A viewer's key frame *)

MediaTyping ==
  media \in [streaming : BOOLEAN, forceIdr : BOOLEAN, key : BOOLEAN, owed : BOOLEAN,
             blind : BOOLEAN]

KeyFrameInv == PcTyping /\ MediaTyping /\ KeyFrameKept

LEMMA KeyFrameStep == KeyFrameInv /\ [Next]_vars => KeyFrameInv'
<1> SUFFICES ASSUME KeyFrameInv, [Next]_vars PROVE (MediaTyping /\ KeyFrameKept)'
  BY PcTypingStep DEF KeyFrameInv
<1> USE TaskNames DEF KeyFrameInv, MediaTyping, KeyFrameKept, KeyFrameComing
<1>1. CASE Stream
  BY <1>1 DEF Stream, StreamStart, StreamOn, StreamStop, Step, PcTyping
<1>2. CASE Media
  BY <1>2 DEF Media, MediaConvert, MediaType, MediaSend, Encoded, Step, PcTyping
<1>3. CASE UNCHANGED media /\ pc'["media"] = pc["media"]
  BY <1>3
<1> QED
  BY <1>1, <1>2, <1>3, OwnPc, VinLeaves, CameraLeaves, AiLeaves, DisplayLeaves,
     SnapshotLeaves, CommandLeaves DEF Next, vars

(* A viewer who starts the stream has a key frame encoded: the request is   *)
(* cleared only by the encode that takes it over (ra8p1_media_port.c),      *)
(* which may fail, or its frame not be sent.                                *)
THEOREM KeyFrameHolds == Spec => []KeyFrameKept
<1>1. Init => KeyFrameInv
  BY PcTypingInit DEF Init, KeyFrameInv, MediaTyping, KeyFrameKept
<1> QED
  BY <1>1, KeyFrameStep, PTL DEF Spec, KeyFrameInv

-----------------------------------------------------------------------------
(* The brightness written to the sensor *)

BrightTyping ==
  bright \in [level : {0, 1}, dirty : BOOLEAN, wrote : {0, 1}, took : BOOLEAN]

LevelInv == PcTyping /\ BrightTyping /\ LevelWritten

LEMMA LevelStep == LevelInv /\ [Next]_vars => LevelInv'
<1> SUFFICES ASSUME LevelInv, [Next]_vars
             PROVE  (LevelWritten /\ BrightTyping)'
  BY PcTypingStep DEF LevelInv
<1> USE TaskNames DEF LevelInv, BrightTyping, LevelWritten, BrightnessSettled
<1>1. CASE Camera
  BY <1>1 DEF Camera, CameraInit, CameraWake, CameraRegs, CameraPrinted, CameraConvert,
     Step, PcTyping
<1>2. ASSUME NEW t \in Commanders, Command(t)
      PROVE  (LevelWritten /\ BrightTyping)'
  BY <1>2 DEF Command, SetLevel, SetDirty, LedOn, LedOff, LedDark, Step, PcTyping
<1>3. CASE /\ UNCHANGED bright /\ pc'["camera"] = pc["camera"]
           /\ pc'["pump"] = pc["pump"] /\ pc'["cli"] = pc["cli"]
  BY <1>3
<1> QED
  BY <1>1, <1>2, <1>3, OwnPc, VinLeaves, AiLeaves, DisplayLeaves, SnapshotLeaves,
     StreamLeaves, MediaLeaves DEF Next, vars

(* No brightness command is missed: the request is cleared before the level *)
(* is read and set after it is written (camera_control.c), so the level     *)
(* written to the registers last is the one asked for last.                 *)
THEOREM LevelHolds == Spec => []LevelWritten
<1>1. Init => LevelInv
  BY PcTypingInit DEF Init, LevelInv, BrightTyping, LevelWritten
<1> QED
  BY <1>1, LevelStep, PTL DEF Spec, LevelInv

-----------------------------------------------------------------------------
(* The AI thread's result and the display thread *)

LEMMA Prios ==
  /\ Prio("ai") = 1 /\ Prio("xfer") = 2 /\ Prio("display") = 3
  BY DEF Prio

(* The AI thread runs only when the display thread and the transfer wait. *)
LEMMA AiRunsAlone ==
  PcTyping /\ Ai => /\ pc["display"] \in {"idle", "delay", "wait", "print"}
                    /\ pc["xfer"] \in {"idle", "delay", "wait", "print"}
<1> SUFFICES ASSUME PcTyping, Ai PROVE Blocked("display") /\ Blocked("xfer")
  BY DEF Blocked
<1>1. \A u \in Tasks : Prio(u) > Prio("ai") => Blocked(u)
  BY DEF Ai, AiInit, AiTake, AiInfer, AiWriteBox, AiCountBox, AiReadSwitch, AiWriteLed,
     AiReport, AiDelay, Step
<1> QED
  BY <1>1, Prios, TaskNames

(* What the display thread knows of the result bit at each of its labels. *)
ResultKnown ==
  /\ updated \in BOOLEAN /\ undrawn \in BOOLEAN
  /\ pc["display"] \in {"print", "get"} /\ undrawn => "result" \in bits
  /\ pc["display"] = "clear" /\ undrawn => updated

ResultInv == PcTyping /\ ResultKnown /\ NoResultLost

LEMMA ResultStep == ResultInv /\ [Next]_vars => ResultInv'
<1> SUFFICES ASSUME ResultInv, [Next]_vars PROVE (ResultKnown /\ NoResultLost)'
  BY PcTypingStep DEF ResultInv
<1> USE TaskNames DEF ResultInv, ResultKnown, NoResultLost
<1>1. CASE Camera
  <2>1. UNCHANGED <<updated, undrawn>> /\ pc'["display"] = pc["display"]
    BY <1>1, OwnPc, CameraLeaves DEF screen
  <2>2. bits \subseteq bits'
    BY <1>1 DEF Camera, CameraInit, CameraWake, CameraRegs, CameraPrinted, CameraConvert,
       SetBit
  <2> QED
    BY <2>1, <2>2
<1>2. CASE Ai
  <2>1. /\ pc'["display"] = pc["display"] /\ updated' = updated
        /\ pc["display"] \notin {"get", "clear"}
    BY <1>2, OwnPc, AiLeaves, AiRunsAlone DEF screen
  <2>2. CASE AiReport
    BY <2>1, <2>2 DEF AiReport, SetBit
  <2>3. CASE ~ AiReport
    <3>1. undrawn' = undrawn /\ ("result" \in bits => "result" \in bits')
      BY <1>2, <2>3 DEF Ai, AiInit, AiTake, AiInfer, AiWriteBox, AiCountBox, AiReadSwitch,
         AiWriteLed, AiDelay, ClearBit
    <3> QED
      BY <2>1, <3>1
  <2> QED
    BY <2>2, <2>3
<1>3. CASE Display
  <2> USE DEF Step, PcTyping, screen
  <2>1. CASE DisplayInit
    BY <2>1 DEF DisplayInit, SetBit
  <2>2. CASE DisplayDraw
    <3>1. pc'["display"] = IF overlay \/ updated THEN "print" ELSE "get"
      BY <2>2 DEF DisplayDraw
    <3>2. updated' = updated /\ bits' = bits /\ undrawn' = (undrawn /\ ~ updated)
      BY <2>2 DEF DisplayDraw
    <3> QED
      BY <3>1, <3>2
  <2>3. CASE DisplayPrinted
    BY <2>3 DEF DisplayPrinted
  <2>4. CASE DisplayGet
    BY <2>4 DEF DisplayGet
  <2>5. CASE DisplayClear
    BY <2>5 DEF DisplayClear, ClearBit
  <2> QED
    BY <1>3, <2>1, <2>2, <2>3, <2>4, <2>5 DEF Display
<1>4. CASE UNCHANGED <<bits, updated, undrawn>> /\ pc'["display"] = pc["display"]
  BY <1>4
<1> QED
  BY <1>1, <1>2, <1>3, <1>4, OwnPc, VinLeaves, SnapshotLeaves, CommandLeaves, StreamLeaves,
     MediaLeaves DEF Next, vars, screen

(* No result is lost between the display thread's reading and clearing the  *)
(* bit: the AI thread, below it, cannot report in between.                  *)
THEOREM ResultHolds == Spec => []NoResultLost
<1>1. Init => ResultInv
  BY PcTypingInit DEF Init, ResultInv, ResultKnown, NoResultLost
<1> QED
  BY <1>1, ResultStep, PTL DEF Spec, ResultInv

-----------------------------------------------------------------------------
(* The LED *)

LedTyping == led \in [auto : BOOLEAN, lit : BOOLEAN, raced : BOOLEAN]
CountTyping == count \in Nat

(* Past the switch, the AI thread writes the pin of a feature that is on or *)
(* was switched off under it.                                               *)
LedKnown == pc["ai"] = "led" => led.auto \/ led.raced

LedInv == PcTyping /\ LedTyping /\ CountTyping /\ LedKnown /\ LedDarkWhenOff

LEMMA CountStep == CountTyping /\ [Next]_vars => CountTyping'
<1> SUFFICES ASSUME CountTyping, [Next]_vars PROVE CountTyping'
  OBVIOUS
<1>1. CASE Ai
  BY <1>1 DEF CountTyping, Ai, AiInit, AiTake, AiInfer, AiWriteBox, AiCountBox,
     AiReadSwitch, AiWriteLed, AiReport, AiDelay, result
<1>2. CASE ~ Ai
  BY <1>2, VinLeaves, CameraLeaves, DisplayLeaves, SnapshotLeaves, CommandLeaves,
     StreamLeaves, MediaLeaves DEF Next, vars, result, CountTyping
<1> QED
  BY <1>1, <1>2

LEMMA LedStep == LedInv /\ [Next]_vars => LedInv'
<1> SUFFICES ASSUME LedInv, [Next]_vars PROVE (LedTyping /\ LedKnown /\ LedDarkWhenOff)'
  BY PcTypingStep, CountStep DEF LedInv
<1> USE TaskNames DEF LedInv, LedTyping, LedKnown, LedDarkWhenOff
<1>1. CASE Ai
  <2> USE DEF Step, PcTyping
  <2>1. UNCHANGED <<pc["pump"], pc["cli"]>>
    BY <1>1, OwnPc
  <2>2. CASE AiReadSwitch
    BY <2>1, <2>2 DEF AiReadSwitch
  <2>3. CASE AiWriteLed
    <3>1. led' = [led EXCEPT !.lit = count > 0] /\ pc["ai"] = "led" /\ pc'["ai"] = "report"
      BY <2>3 DEF AiWriteLed
    <3>2. (count > 0) \in BOOLEAN
      BY DEF CountTyping
    <3>3. LedTyping' /\ led'.auto = led.auto /\ led'.raced = led.raced
      BY <3>1, <3>2
    <3> QED
      BY <3>1, <3>3
  <2>4. CASE ~ AiReadSwitch /\ ~ AiWriteLed
    BY <1>1, <2>1, <2>4 DEF Ai, AiInit, AiTake, AiInfer, AiWriteBox, AiCountBox, AiReport,
       AiDelay
  <2> QED
    BY <2>2, <2>3, <2>4
<1>2. ASSUME NEW t \in Commanders, Command(t)
      PROVE  (LedTyping /\ LedKnown /\ LedDarkWhenOff)'
  <2> USE <1>2 DEF Step, PcTyping
  <2>1. CASE LedOn(t)
    BY <2>1 DEF LedOn
  <2>2. CASE LedOff(t)
    <3>1. led' = [led EXCEPT !.auto = FALSE, !.raced = (pc["ai"] = "led")]
      BY <2>2 DEF LedOff
    <3>2. pc'[t] = "dark" /\ pc'["ai"] = pc["ai"]
      BY <2>2 DEF LedOff
    <3>3. (pc["ai"] = "led") \in BOOLEAN
      OBVIOUS
    <3>4. led'.auto = FALSE /\ led'.raced = (pc["ai"] = "led") /\ led'.lit = led.lit
      BY <3>1
    <3>5. LedTyping'
      BY <3>1, <3>3
    <3> QED
      BY <3>2, <3>4, <3>5
  <2>3. CASE LedDark(t)
    BY <2>3 DEF LedDark
  <2>4. CASE SetDirty(t) \/ \E level \in {0, 1} : SetLevel(t, level)
    BY <2>4 DEF SetDirty, SetLevel
  <2> QED
    BY <2>1, <2>2, <2>3, <2>4 DEF Command
<1>3. CASE /\ UNCHANGED led /\ pc'["ai"] = pc["ai"]
           /\ pc'["pump"] = pc["pump"] /\ pc'["cli"] = pc["cli"]
  BY <1>3
<1> QED
  BY <1>1, <1>2, <1>3, OwnPc, VinLeaves, CameraLeaves, DisplayLeaves, SnapshotLeaves,
     StreamLeaves, MediaLeaves DEF Next, vars

(* Switched off, the LED goes dark and stays dark, but for the one race     *)
(* ai_inference_thread_entry.c names.                                       *)
THEOREM LedHolds == Spec => []LedDarkWhenOff
<1>1. Init => LedInv
  BY PcTypingInit, TaskNames DEF Init, LedInv, LedTyping, CountTyping, LedKnown, LedDarkWhenOff
<1> QED
  BY <1>1, LedStep, PTL DEF Spec, LedInv
-----------------------------------------------------------------------------
(* The snapshot's record *)

SnapTyping ==
  /\ CountTyping
  /\ writing \in Buffers /\ published \in Buffers \cup {None}
  /\ snap \in [from : Buffers \cup {None}, top : {0, 1}, bottom : {0, 1},
               halves : 0..2, n : Nat]

LEMMA SnapTypingInit == Init => SnapTyping
<1>1. Init => snap = NoSnap /\ writing = 1 /\ published = None /\ count = 0
  BY DEF Init
<1> QED
  BY <1>1 DEF NoSnap, SnapTyping, CountTyping, Buffers, None

LEMMA SnapTypingStep == SnapTyping /\ [Next]_vars => SnapTyping'
<1> SUFFICES ASSUME SnapTyping, [Next]_vars PROVE SnapTyping'
  OBVIOUS
<1>0. CountTyping'
  BY CountStep DEF SnapTyping
<1> USE <1>0 DEF SnapTyping, Buffers, None
<1>1. CASE FrameHalf
  BY <1>1 DEF FrameHalf
<1>2. CASE FrameComplete
  <2>1. /\ writing' = (writing % 3) + 1 /\ published' = writing
        /\ snap' = IF Copying /\ writing = snap.from THEN [snap EXCEPT !.halves = 2] ELSE snap
    BY <1>2 DEF FrameComplete
  <2>2. writing' \in Buffers
    BY <2>1
  <2>3. snap' \in [from : Buffers \cup {None}, top : {0, 1}, bottom : {0, 1},
                   halves : 0..2, n : Nat]
    BY <2>1
  <2> QED
    BY <2>1, <2>2, <2>3
<1>3. CASE Snapshot
  <2>1. UNCHANGED <<writing, published>>
    BY <1>3, SnapshotLeaves DEF frame
  <2>2. CASE SnapBegin \/ SnapBoxes
    BY <2>1, <2>2 DEF SnapBegin, SnapBoxes, NoSnap
  <2>3. CASE SnapTop \/ SnapBottom
    BY <2>1, <2>3 DEF SnapTop, SnapBottom
  <2>4. CASE SnapCount
    BY <2>1, <2>4 DEF SnapCount, CountTyping
  <2> QED
    BY <1>3, <2>2, <2>3, <2>4 DEF Snapshot
<1>4. CASE UNCHANGED <<frame, snap>>
  BY <1>4 DEF frame
<1> QED
  BY <1>1, <1>2, <1>3, <1>4, CameraLeaves, AiLeaves, DisplayLeaves, CommandLeaves,
     StreamLeaves, MediaLeaves DEF Next, Vin, vars

-----------------------------------------------------------------------------
(* The boxes *)

(* What has been counted has been written, and a snapshot draws no more     *)
(* boxes than there are.                                                    *)
BoxesKnown ==
  /\ count \in 0..MaxBoxes /\ boxes \in [1..MaxBoxes -> {"old", "part", "new"}]
  /\ \A i \in 1..count : boxes[i] = "new"
  /\ pc["ai"] = "box" => count < MaxBoxes
  /\ pc["xfer"] = "boxes" => snap.n \in 0..count

BoxesInv == PcTyping /\ SnapTyping /\ BoxesKnown /\ OneResultDrawn

LEMMA BoxesReadNew ==
  ASSUME BoxesKnown, NEW n \in 0..count
  PROVE  BoxesRead(n) \subseteq {"new"}
  BY PipelineAssumption DEF BoxesKnown, BoxesRead

LEMMA BoxesUpToCount == BoxesKnown => count \in 0..count
  BY PipelineAssumption DEF BoxesKnown

LEMMA BoxesStep == BoxesInv /\ [Next]_vars => BoxesInv'
<1> SUFFICES ASSUME BoxesInv, [Next]_vars
             PROVE  BoxesKnown' /\ OneResultDrawn'
  BY PcTypingStep, SnapTypingStep DEF BoxesInv
<1> USE TaskNames, PipelineAssumption DEF BoxesInv, OneResultDrawn
<1>1. CASE Vin
  <2>1. UNCHANGED <<pc, count, boxes>>
    BY <1>1, VinLeaves DEF result
  <2>3. snap'.n = snap.n
    BY <1>1 DEF Vin, FrameHalf, FrameComplete, SnapTyping
  <2>2. drawn' = drawn \/ drawn' = BoxesRead(count)
    BY <1>1 DEF Vin, FrameHalf, FrameComplete
  <2> QED
    BY <2>1, <2>2, <2>3, BoxesReadNew, BoxesUpToCount DEF BoxesKnown
<1>2. CASE Ai
  <2>1. /\ UNCHANGED <<drawn, snap>> /\ pc'["xfer"] = pc["xfer"]
        /\ pc["xfer"] # "boxes"
    BY <1>2, OwnPc, AiLeaves, AiRunsAlone
  <2>2. BoxesKnown'
    <3> USE <2>1 DEF BoxesKnown, Step, PcTyping
    <3>1. CASE AiInfer
      BY <3>1 DEF AiInfer
    <3>2. CASE AiWriteBox
      BY <3>2 DEF AiWriteBox
    <3>3. CASE AiCountBox
      BY <3>3 DEF AiCountBox
    <3>4. CASE ~ AiInfer /\ ~ AiWriteBox /\ ~ AiCountBox
      BY <1>2, <3>4 DEF Ai, AiInit, AiTake, AiReadSwitch, AiWriteLed, AiReport, AiDelay,
         result
    <3> QED
      BY <3>1, <3>2, <3>3, <3>4
  <2> QED
    BY <2>1, <2>2
<1>3. CASE Display
  <2>1. UNCHANGED <<count, boxes, snap, pc["ai"], pc["xfer"]>>
    BY <1>3, OwnPc, DisplayLeaves DEF result
  <2>2. drawn' = drawn \/ drawn' = BoxesRead(count)
    BY <1>3 DEF Display, DisplayInit, DisplayDraw, DisplayPrinted, DisplayGet, DisplayClear
  <2> QED
    BY <2>1, <2>2, BoxesReadNew, BoxesUpToCount DEF BoxesKnown
<1>4. CASE Snapshot
  <2> USE DEF Step, PcTyping
  <2>1. UNCHANGED <<count, boxes, pc["ai"]>>
    BY <1>4, OwnPc, SnapshotLeaves DEF result
  <2>2. BoxesKnown'
    <3> USE <2>1 DEF BoxesKnown, SnapTyping
    <3>1. CASE SnapBegin
      BY <3>1 DEF SnapBegin, NoSnap
    <3>2. CASE SnapTop \/ SnapBottom
      BY <3>2 DEF SnapTop, SnapBottom
    <3>3. CASE SnapCount
      BY <3>3 DEF SnapCount
    <3>4. CASE SnapBoxes
      BY <3>4 DEF SnapBoxes, NoSnap
    <3> QED
      BY <1>4, <3>1, <3>2, <3>3, <3>4 DEF Snapshot
  <2>3. drawn' = drawn \/ (pc["xfer"] = "boxes" /\ drawn' = BoxesRead(snap.n))
    BY <1>4 DEF Snapshot, SnapBegin, SnapTop, SnapBottom, SnapCount, SnapBoxes
  <2>4. OneResultDrawn'
    BY <2>3, BoxesReadNew DEF BoxesKnown
  <2> QED
    BY <2>2, <2>4
<1>5. CASE UNCHANGED <<count, boxes, drawn, snap, pc["ai"], pc["xfer"]>>
  BY <1>5 DEF BoxesKnown
<1> QED
  BY <1>1, <1>2, <1>3, <1>4, <1>5, OwnPc, CameraLeaves, CommandLeaves, StreamLeaves,
     MediaLeaves DEF Next, vars, result

LEMMA BoxesInit == Init => BoxesInv
<1>1. Init => count = 0 /\ boxes = [i \in 1..MaxBoxes |-> "old"] /\ drawn = {}
  BY DEF Init
<1>2. Init => pc["ai"] = "init" /\ pc["xfer"] = "idle"
  BY TaskNames DEF Init
<1> QED
  BY <1>1, <1>2, PcTypingInit, SnapTypingInit, PipelineAssumption
  DEF BoxesInv, BoxesKnown, OneResultDrawn

(* Boxes are drawn whole and of one result on the screen, on a frame and on *)
(* a snapshot: a box is counted after it is written, and the readers are    *)
(* above the AI thread.                                                     *)
THEOREM BoxesHold == Spec => []OneResultDrawn
  BY BoxesInit, BoxesStep, PTL DEF Spec, BoxesInv
-----------------------------------------------------------------------------
(* Types *)

(* gp_next_buffer is the buffer before the one VIN writes. *)
PublishedBefore == published # None => published = ((writing + 1) % 3) + 1

LEMMA PublishedStep == SnapTyping /\ PublishedBefore /\ [Next]_vars => PublishedBefore'
<1> SUFFICES ASSUME SnapTyping, PublishedBefore, [Next]_vars PROVE PublishedBefore'
  OBVIOUS
<1>1. CASE FrameComplete
  <2>1. writing' = (writing % 3) + 1 /\ published' = writing /\ writing \in Buffers
    BY <1>1 DEF FrameComplete, SnapTyping
  <2> QED
    BY <2>1 DEF PublishedBefore, Buffers
<1>2. CASE UNCHANGED <<writing, published>>
  BY <1>2 DEF PublishedBefore
<1>3. FrameHalf => UNCHANGED <<writing, published>>
  BY DEF FrameHalf
<1> QED
  BY <1>1, <1>2, <1>3, CameraLeaves, AiLeaves, DisplayLeaves, SnapshotLeaves, CommandLeaves,
     StreamLeaves, MediaLeaves DEF Next, Vin, vars, frame

(* What TypeOK says beyond the invariants above; overlay needs that the     *)
(* display thread sets its bit before its loop.                             *)
RestTyping ==
  /\ scene \in Scenes /\ half \in BOOLEAN
  /\ bits \subseteq {"camera", "display", "image", "result"}
  /\ pc["ai"] \in {"init", "wait", "infer", "store", "box", "led", "report", "delay"}
  /\ pc["display"] \in {"init", "delay", "print", "get", "clear"}
  /\ pc["camera"] \in {"init", "delay", "regs", "print", "convert"}
  /\ snap.n \in 0..MaxBoxes
  /\ pc["display"] # "init" \/ overlay => "display" \in bits

TypeInv == BoxesInv /\ PublishedBefore /\ RestTyping

LEMMA SceneKept == [Next]_vars => scene' = scene
<1> SUFFICES ASSUME [Next]_vars PROVE scene' = scene
  OBVIOUS
<1> USE DEF Step
<1>1. CASE Vin
  BY <1>1 DEF Vin, FrameHalf, FrameComplete
<1>2. CASE Camera
  BY <1>2 DEF Camera, CameraInit, CameraWake, CameraRegs, CameraPrinted, CameraConvert
<1>3. CASE Ai
  BY <1>3 DEF Ai, AiInit, AiTake, AiInfer, AiWriteBox, AiCountBox, AiReadSwitch,
     AiWriteLed, AiReport, AiDelay
<1>4. CASE Display
  BY <1>4 DEF Display, DisplayInit, DisplayDraw, DisplayPrinted, DisplayGet, DisplayClear
<1>5. CASE Snapshot
  BY <1>5 DEF Snapshot, SnapBegin, SnapTop, SnapBottom, SnapCount, SnapBoxes
<1>6. ASSUME NEW t \in Commanders, Command(t) PROVE scene' = scene
  BY <1>6 DEF Command, SetLevel, SetDirty, LedOn, LedOff, LedDark
<1>7. CASE Stream
  BY <1>7 DEF Stream, StreamStart, StreamOn, StreamStop
<1>8. CASE Media
  BY <1>8 DEF Media, MediaConvert, MediaType, MediaSend
<1>9. CASE UNCHANGED vars
  BY <1>9 DEF vars
<1> QED
  BY <1>1, <1>2, <1>3, <1>4, <1>5, <1>6, <1>7, <1>8, <1>9 DEF Next

LEMMA RestStep == TypeInv /\ [Next]_vars => RestTyping'
<1> SUFFICES ASSUME TypeInv, [Next]_vars PROVE RestTyping'
  OBVIOUS
<1>0. /\ PcTyping /\ RestTyping /\ count \in 0..MaxBoxes /\ SnapTyping
      /\ scene' \in Scenes
  BY SceneKept DEF TypeInv, BoxesInv, BoxesKnown, RestTyping
<1> USE <1>0, TaskNames, PipelineAssumption DEF RestTyping
<1>1. CASE Vin
  <2>1. UNCHANGED <<pc, bits, overlay>>
    BY <1>1, VinLeaves DEF screen
  <2>2. snap'.n = snap.n /\ half' \in BOOLEAN
    BY <1>1 DEF Vin, FrameHalf, FrameComplete, SnapTyping
  <2> QED
    BY <2>1, <2>2
<1>2. CASE Camera
  <2>1. UNCHANGED <<half, snap, overlay, pc["ai"], pc["display"]>>
    BY <1>2, OwnPc, CameraLeaves DEF frame, screen
  <2>2. /\ bits \subseteq bits' /\ bits' \subseteq {"camera", "display", "image", "result"}
        /\ pc'["camera"] \in {"init", "delay", "regs", "print", "convert"}
    BY <1>2 DEF Camera, CameraInit, CameraWake, CameraRegs, CameraPrinted, CameraConvert,
       SetBit, Step, PcTyping
  <2> QED
    BY <2>1, <2>2
<1>3. CASE Ai
  <2>1. UNCHANGED <<half, snap, overlay, pc["camera"], pc["display"]>>
    BY <1>3, OwnPc, AiLeaves DEF frame, screen
  <2>2. /\ bits \ {"image"} \subseteq bits'
        /\ bits' \subseteq {"camera", "display", "image", "result"}
        /\ pc'["ai"] \in {"init", "wait", "infer", "store", "box", "led", "report", "delay"}
    BY <1>3 DEF Ai, AiInit, AiTake, AiInfer, AiWriteBox, AiCountBox, AiReadSwitch,
       AiWriteLed, AiReport, AiDelay, SetBit, ClearBit, Step, PcTyping
  <2> QED
    BY <2>1, <2>2
<1>4. CASE Display
  <2>1. UNCHANGED <<half, snap, pc["ai"], pc["camera"]>>
    BY <1>4, OwnPc, DisplayLeaves DEF frame
  <2>2. pc'["display"] \in {"delay", "print", "get", "clear"}
    BY <1>4 DEF Display, DisplayInit, DisplayDraw, DisplayPrinted, DisplayGet,
       DisplayClear, Step, PcTyping
  <2>3. /\ "display" \in bits'
        /\ bits' \subseteq {"camera", "display", "image", "result"}
    BY <1>4 DEF Display, DisplayInit, DisplayDraw, DisplayPrinted, DisplayGet,
       DisplayClear, SetBit, ClearBit, Step
  <2> QED
    BY <2>1, <2>2, <2>3
<1>5. CASE Snapshot
  <2>1. UNCHANGED <<half, bits, overlay, pc["ai"], pc["camera"], pc["display"]>>
    BY <1>5, OwnPc, SnapshotLeaves DEF frame, screen
  <2>2. snap'.n \in 0..MaxBoxes
    BY <1>5 DEF Snapshot, SnapBegin, SnapTop, SnapBottom, SnapCount, SnapBoxes, NoSnap,
       SnapTyping
  <2> QED
    BY <2>1, <2>2
<1>6. CASE UNCHANGED <<half, bits, snap, overlay, pc["ai"], pc["camera"], pc["display"]>>
  BY <1>6
<1> QED
  BY <1>1, <1>2, <1>3, <1>4, <1>5, <1>6, OwnPc, CommandLeaves, StreamLeaves, MediaLeaves
  DEF Next, vars, frame, screen

(* Every task stays at labels of its own, the published buffer is the one   *)
(* before VIN's, and what is counted is written.                            *)
THEOREM TypeCorrect == Spec => []TypeOK
<1>1. Init => TypeInv
  <2>1. Init => /\ scene \in Scenes /\ half = FALSE /\ bits = {} /\ overlay = FALSE
                /\ pc["ai"] = "init" /\ pc["display"] = "init" /\ pc["camera"] = "init"
                /\ snap = NoSnap
    BY TaskNames DEF Init
  <2>2. NoSnap.n \in 0..MaxBoxes
    BY PipelineAssumption DEF NoSnap
  <2> QED
    BY <2>1, <2>2, BoxesInit DEF TypeInv, RestTyping, PublishedBefore, Init
<1>2. TypeInv /\ [Next]_vars => TypeInv'
  BY BoxesStep, PublishedStep, RestStep DEF TypeInv, BoxesInv
<1>3. TypeInv => TypeOK
  BY DEF TypeInv, BoxesInv, BoxesKnown, SnapTyping, PublishedBefore, RestTyping, TypeOK
<1> QED
  BY <1>1, <1>2, <1>3, PTL DEF Spec
=============================================================================
