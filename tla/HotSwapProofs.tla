----------------------------- MODULE HotSwapProofs -----------------------------
(***************************************************************************)
(* Proofs about HotSwap, for any models and lengths, any slot geometry,    *)
(* any flash faults and any overlap of pushes, reverts and resets.         *)
(*                                                                         *)
(* EngineInv: no interpreter where staging is overwritten.  TypeInv: types *)
(* and which task is inside the store where.  BootInv: a boot has the      *)
(* buffers to itself and one whole model in them.  SerialInv, for an       *)
(* operator who lets one push or revert finish before the next: the AI     *)
(* thread and the other two tasks take turns, so one model is followed     *)
(* from the pending buffer through staging and the engine to the slot.     *)
(***************************************************************************)
EXTENDS HotSwap, TLAPS

Overwrites == {"boot", "bootStage", "copy", "builtin", "bootBuiltin"}

(* Where the AI thread is about to overwrite the staging buffer there is no *)
(* interpreter.                                                             *)
EngineInv ==
  /\ ai = [pc |-> ai.pc, len |-> ai.len, at |-> ai.at, copy |-> ai.copy]
  /\ ai.pc \in Overwrites => interp = FALSE

(* The transfer task and the pump task never touch the engine.              *)
Elsewhere == PumpStep \/ XferStep \/ RevertErase \/ \E b \in Models : PushArrives(b)

LEMMA ElsewhereLeavesEngine == Elsewhere => UNCHANGED <<staging, interp, ai>>
  BY DEF Elsewhere, PumpStep, RevertErased, RevertWrap, RevertQueue, XferStep, PushStart,
         DownloadChunk, DownloadFails, PushValidate, PushQueue, RevertErase,
         PushArrives, engine

LEMMA NextCases == [Next]_vars <=> AIStep \/ Elsewhere \/ Reset \/ UNCHANGED vars
  BY DEF Next, Elsewhere, Stopped

LEMMA InitEngineInv == Init => EngineInv
  BY DEF Init, EngineInv, Booting

LEMMA EngineStep == EngineInv /\ [Next]_vars => EngineInv'
<1>. SUFFICES ASSUME EngineInv, [Next]_vars PROVE EngineInv'
  OBVIOUS
<1>. USE DEF EngineInv, Overwrites, engine
<1>1. CASE AIStep
  <2>1. CASE BootLoad
    BY <2>1 DEF BootLoad
  <2>2. CASE BootStage
    BY <2>2 DEF BootStage, Teardown
  <2>3. CASE BootApply
    BY <2>3 DEF BootApply, Inferring, Halted
  <2>4. CASE BootErase
    BY <2>4 DEF BootErase
  <2>5. CASE BootErased
    BY <2>5 DEF BootErased
  <2>6. CASE BootFallback
    BY <2>6 DEF BootFallback, Teardown, Inferring
  <2>7. CASE BootBuiltin
    BY <2>7 DEF BootBuiltin, Inferring, Halted
  <2>8. CASE SwapStart
    BY <2>8 DEF SwapStart, CopyStart, Teardown
  <2>9. CASE CopyChunk
    BY <2>9 DEF CopyChunk
  <2>10. CASE SwapApply
    BY <2>10 DEF SwapApply, Halted
  <2>11. CASE SaveSwapped
    BY <2>11 DEF SaveSwapped
  <2>12. CASE SaveStep
    BY <2>12 DEF SaveStep
  <2>13. CASE Reload
    BY <2>13 DEF Reload, Teardown, Halted
  <2>14. CASE ReloadBuiltin
    BY <2>14 DEF ReloadBuiltin
  <2>15. CASE SwapFinish
    BY <2>15 DEF SwapFinish, Inferring
  <2>16. CASE CopyPast
    BY <2>16 DEF CopyPast, Halted
  <2>17. CASE Infer
    BY <2>17 DEF Infer, IdleAI, Halted
  <2>. QED
    BY <1>1, <2>1, <2>2, <2>3, <2>4, <2>5, <2>6, <2>7, <2>8, <2>9, <2>10,
       <2>11, <2>12, <2>13, <2>14, <2>15, <2>16, <2>17 DEF AIStep
<1>2. CASE Elsewhere
  BY <1>2, ElsewhereLeavesEngine
<1>3. CASE Reset
  BY <1>3 DEF Reset, Booting
<1>4. CASE UNCHANGED vars
  BY <1>4 DEF vars
<1>. QED  BY <1>1, <1>2, <1>3, <1>4, NextCases

LEMMA StagingWritten ==
  EngineInv /\ [Next]_vars => (staging' # staging => (~ interp \/ ai'.pc = "boot"))
<1>. SUFFICES ASSUME EngineInv, [Next]_vars
              PROVE  staging' = staging \/ ~ interp \/ ai'.pc = "boot"
  OBVIOUS
<1>. USE DEF EngineInv, Overwrites, engine
<1>1. CASE AIStep
  <2>1. CASE BootLoad
    BY <2>1 DEF BootLoad
  <2>2. CASE BootStage
    BY <2>2 DEF BootStage, Teardown
  <2>3. CASE BootApply
    BY <2>3 DEF BootApply, Inferring, Halted
  <2>4. CASE BootErase
    BY <2>4 DEF BootErase
  <2>5. CASE BootErased
    BY <2>5 DEF BootErased
  <2>6. CASE BootFallback
    BY <2>6 DEF BootFallback, Teardown, Inferring
  <2>7. CASE BootBuiltin
    BY <2>7 DEF BootBuiltin, StageBuiltin
  <2>8. CASE SwapStart
    BY <2>8 DEF SwapStart, CopyStart, Teardown
  <2>9. CASE CopyChunk
    BY <2>9 DEF CopyChunk
  <2>10. CASE SwapApply
    BY <2>10 DEF SwapApply, Halted
  <2>11. CASE SaveSwapped
    BY <2>11 DEF SaveSwapped
  <2>12. CASE SaveStep
    BY <2>12 DEF SaveStep
  <2>13. CASE Reload
    BY <2>13 DEF Reload, Teardown, Halted
  <2>14. CASE ReloadBuiltin
    BY <2>14 DEF ReloadBuiltin, StageBuiltin
  <2>15. CASE SwapFinish
    BY <2>15 DEF SwapFinish, Inferring
  <2>16. CASE CopyPast
    BY <2>16 DEF CopyPast, Halted
  <2>17. CASE Infer
    BY <2>17 DEF Infer, IdleAI, Halted
  <2>. QED
    BY <1>1, <2>1, <2>2, <2>3, <2>4, <2>5, <2>6, <2>7, <2>8, <2>9, <2>10,
       <2>11, <2>12, <2>13, <2>14, <2>15, <2>16, <2>17 DEF AIStep
<1>2. CASE Elsewhere
  BY <1>2, ElsewhereLeavesEngine
<1>3. CASE Reset
  BY <1>3 DEF Reset, Booting
<1>4. CASE UNCHANGED vars
  BY <1>4 DEF vars
<1>. QED  BY <1>1, <1>2, <1>3, <1>4, NextCases

(* On every path of the AI thread - boot, swap, and reload after a rejected *)
(* model - the interpreter is gone before the flatbuffer under it changes.  *)
THEOREM InterpreterGoneFirst == Spec => TeardownFirst
<1>1. EngineInv /\ [Next]_vars =>
        [staging' # staging => (~ interp \/ ai'.pc = "boot")]_vars
  BY StagingWritten
<1>. QED
  BY <1>1, InitEngineInv, EngineStep, PTL DEF Spec, TeardownFirst

-----------------------------------------------------------------------------
(* Facts about buffers. *)

LEMMA Geometry ==
  /\ SlotChunks \in Nat /\ 1 \in MS!Cells
  /\ \A b \in Blobs : /\ Chunks[b] \in MS!Cells /\ 1 \in 1..Chunks[b]
                      /\ b # NoBlob /\ Kind[b] \in Outcomes
  /\ \A b \in Blobs, i \in MS!Cells : MS!Chunk(b, i) \notin {Erased, Garbage}
  BY SwapAssumption DEF SwapAssumption, MS!Cells, MS!Chunk

LEMMA CellTypes ==
  /\ Erased \in MS!Cell /\ Garbage \in MS!Cell
  /\ \A b \in Blobs, i \in MS!Cells : MS!Chunk(b, i) \in MS!Cell
  BY DEF MS!Cell

(* The header cell tells the model: its name, its length, what validation,  *)
(* loading and applying make of the buffer.                                  *)
LEMMA HeaderTells ==
  ASSUME NEW s, NEW b \in Blobs, MS!Holds(s, b)
  PROVE  /\ HeaderName(s) = b /\ HeaderLens(s) = {Chunks[b]} /\ MS!BlobIn(s) = b
         /\ ApplyOutcomes(s) = {Kind[b]}
<1>1. \A d \in Blobs : s[1] = MS!Chunk(d, 1) => d = b
  BY Geometry DEF MS!Holds, MS!Chunk
<1>2. s[1] = MS!Chunk(b, 1)
  BY Geometry DEF MS!Holds
<1>3. HeaderName(s) = b
  BY <1>1, <1>2 DEF HeaderName
<1>4. \A d \in Blobs : MS!Holds(s, d) => d = b
  BY <1>1, Geometry DEF MS!Holds
<1>5. MS!BlobIn(s) = b
  BY <1>4 DEF MS!BlobIn
<1>. QED  BY <1>3, <1>5, Geometry DEF HeaderLens, ApplyOutcomes

LEMMA HeaderTypes ==
  ASSUME NEW s
  PROVE  /\ HeaderName(s) \in Blobs \cup {NoBlob}
         /\ HeaderLens(s) \subseteq 0..PastEnd
<1>1. HeaderName(s) \in Blobs \cup {NoBlob}
  BY DEF HeaderName
<1>2. \A b \in Blobs : Chunks[b] \in 0..PastEnd
  BY Geometry DEF MS!Cells, PastEnd
<1>. QED  BY <1>1, <1>2 DEF HeaderLens

(* A buffer that agrees with another over the length of its model holds it. *)
LEMMA HoldsCopies ==
  ASSUME NEW s, NEW t, NEW b \in Blobs, MS!Holds(s, b),
         \A i \in 1..Chunks[b] : t[i] = s[i]
  PROVE  MS!Holds(t, b)
  BY DEF MS!Holds

(* Erasing and spoiling cells makes no model. *)
Spoils == \A i \in MS!Cells : slot'[i] = slot[i] \/ slot'[i] \in {Erased, Garbage}

LEMMA SpoiltHolds ==
  ASSUME Spoils, NEW b \in Blobs, MS!Holds(slot', b)
  PROVE  MS!Holds(slot, b)
<1>1. ASSUME NEW i \in 1..Chunks[b] PROVE slot[i] = MS!Chunk(b, i)
  <2>1. i \in MS!Cells
    BY <1>1, Geometry DEF MS!Cells
  <2>2. slot'[i] = MS!Chunk(b, i)
    BY <1>1 DEF MS!Holds
  <2>. QED  BY <2>1, <2>2, Geometry DEF Spoils
<1>. QED  BY <1>1 DEF MS!Holds

(* A programmed chunk makes no model but the one it is taken from. *)
Programs(src, n) ==
  \E k \in 1..n : /\ k \in MS!Cells /\ slot'[k] \in {src[k], Garbage}
                  /\ \A i \in MS!Cells \ {k} : slot'[i] = slot[i]

LEMMA ProgramsOnly ==
  ASSUME NEW src, NEW d \in Blobs, MS!Holds(src, d), Programs(src, Chunks[d]),
         NEW b \in Blobs, MS!Holds(slot', b)
  PROVE  MS!Holds(slot, b) \/ b = d
<1>. SUFFICES ASSUME b # d PROVE MS!Holds(slot, b)
  OBVIOUS
<1>1. PICK k \in 1..Chunks[d] : /\ k \in MS!Cells /\ slot'[k] \in {src[k], Garbage}
                                /\ \A i \in MS!Cells \ {k} : slot'[i] = slot[i]
  BY DEF Programs
<1>2. slot'[k] # MS!Chunk(b, k)
  BY <1>1, Geometry DEF MS!Holds, MS!Chunk
<1>3. ASSUME NEW i \in 1..Chunks[b] PROVE slot[i] = MS!Chunk(b, i)
  <2>1. i \in MS!Cells
    BY <1>3, Geometry DEF MS!Cells
  <2>2. slot'[i] = MS!Chunk(b, i)
    BY <1>3 DEF MS!Holds
  <2>. QED  BY <1>1, <1>2, <2>1, <2>2
<1>. QED  BY <1>3 DEF MS!Holds

-----------------------------------------------------------------------------
(* What the steps of one task inside the model store do: types stay right,  *)
(* the other task's call is left alone, and the slot changes as said.       *)
SavePcs == {"saveLock", "eraseBlock", "program", "verify"}

Others(c) == \A d \in Tasks \ {c} : task'[d] = task[d] /\ reply'[d] = reply[d]

LEMMA StoreReturn ==
  ASSUME MS!TypeOK, NEW c \in Tasks, NEW r \in MS!Replies, MS!Return(c, r)
  PROVE  /\ task' \in [Tasks -> MS!Task] /\ reply' \in [Tasks -> MS!Replies]
         /\ \A d \in Tasks : MS!WithinBlob(task'[d])
         /\ Others(c) /\ task'[c].pc = "idle" /\ reply'[c] = r
<1>1. MS!Idle \in MS!Task /\ MS!WithinBlob(MS!Idle) /\ MS!Idle.pc = "idle"
  BY Geometry DEF MS!Idle, MS!Task, MS!WithinBlob
<1>. QED  BY <1>1 DEF MS!Return, MS!TypeOK, Others

LEMMA CallStep ==
  ASSUME MS!TypeOK, NEW c \in Tasks, NEW src, NEW len \in 0..SlotChunks,
         MS!SaveCall(c, src, len)
  PROVE  /\ MS!TypeOK' /\ Others(c) /\ slot' = slot
         /\ \/ task'[c].pc = "idle"
            \/ task'[c].pc = "saveLock" /\ task'[c].len = len /\ len \in MS!Cells
<1>1. CASE MS!Validates(src, len)
  <2>1. MS!BlobIn(src) \in Blobs /\ len \in MS!Cells
    BY <1>1, Geometry DEF MS!Validates, MS!BlobIn, MS!Cells
  <2>2. [pc |-> "saveLock", len |-> len, at |-> 0, blob |-> MS!BlobIn(src)] \in MS!Task
    BY <2>1, Geometry DEF MS!Task
  <2>. QED  BY <1>1, <2>1, <2>2 DEF MS!SaveCall, MS!TypeOK, MS!WithinBlob, Others
<1>2. CASE ~ MS!Validates(src, len)
  <2>1. MS!Reply("save", -22, NoBlob) \in MS!Replies
    BY DEF MS!Reply, MS!Replies
  <2>. QED  BY <1>2, <2>1, StoreReturn DEF MS!SaveCall, MS!TypeOK
<1>. QED  BY <1>1, <1>2

LEMMA LoadStep ==
  ASSUME MS!TypeOK, NEW c \in Tasks, MS!Load(c)
  PROVE  /\ MS!TypeOK' /\ Others(c) /\ slot' = slot /\ task'[c].pc = "idle"
         /\ reply'[c].rc = 0 => \E b \in Blobs : MS!Holds(slot, b)
<1>1. CASE MS!Validates(slot, SlotChunks)
  <2>1. MS!BlobIn(slot) \in Blobs /\ \E b \in Blobs : MS!Holds(slot, b)
    BY <1>1 DEF MS!Validates, MS!BlobIn
  <2>2. MS!Reply("load", 0, MS!BlobIn(slot)) \in MS!Replies
    BY <2>1 DEF MS!Reply, MS!Replies
  <2>. QED  BY <1>1, <2>1, <2>2, StoreReturn DEF MS!Load, MS!TypeOK
<1>2. CASE ~ MS!Validates(slot, SlotChunks)
  <2>1. \A rc \in {-2, -12} : /\ MS!Reply("load", rc, NoBlob) \in MS!Replies
                              /\ MS!Reply("load", rc, NoBlob).rc # 0
    BY DEF MS!Reply, MS!Replies
  <2>2. \E rc \in {-2, -12} : MS!Return(c, MS!Reply("load", rc, NoBlob))
    BY <1>2 DEF MS!Load
  <2>. QED  BY <2>1, <2>2, StoreReturn DEF MS!Load, MS!TypeOK
<1>. QED  BY <1>1, <1>2

LEMMA DiscardStep ==
  ASSUME MS!TypeOK, NEW c \in Tasks, MS!DiscardLock(c)
  PROVE  /\ MS!TypeOK' /\ Others(c) /\ slot' = slot
         /\ task'[c].pc = "eraseSector"
  BY DEF MS!DiscardLock, MS!TypeOK, MS!Task, MS!WithinBlob, Others

LEMMA FlashFailsStep ==
  ASSUME MS!TypeOK, NEW c \in Tasks, NEW op \in {"save", "erase"}, NEW S,
         MS!FlashFails(c, op, S), saved' = saved
  PROVE  /\ MS!TypeOK' /\ Others(c) /\ Spoils
         /\ task'[c].pc = "idle" /\ reply'[c].rc # 0
<1>1. slot' \in [MS!Cells -> MS!Cell] /\ Spoils
  BY CellTypes DEF MS!FlashFails, MS!TypeOK, Spoils
<1>2. faults' \in 0..MaxFaults
  BY SwapAssumption DEF MS!FlashFails, MS!Fault, MS!TypeOK, SwapAssumption
<1>3. PICK rc \in {-5, -110} : MS!Return(c, MS!Reply(op, rc, NoBlob))
  BY DEF MS!FlashFails
<1>4. MS!Reply(op, rc, NoBlob) \in MS!Replies /\ MS!Reply(op, rc, NoBlob).rc # 0
  BY DEF MS!Reply, MS!Replies
<1>5. fsLock' = NoClient
  BY DEF MS!FlashFails, MS!Unlock
<1>. QED  BY <1>1, <1>2, <1>3, <1>4, <1>5, StoreReturn DEF MS!TypeOK

LEMMA EraseSectorStep ==
  ASSUME MS!TypeOK, NEW c \in Tasks, MS!EraseSector(c)
  PROVE  /\ MS!TypeOK' /\ Others(c) /\ Spoils /\ task'[c].pc = "idle"
         /\ reply'[c].rc = 0 => slot'[1] = Erased
<1>1. CASE MS!FlashFails(c, "erase", MS!SectorCells)
  BY <1>1, FlashFailsStep DEF MS!EraseSector
<1>2. CASE ~ MS!FlashFails(c, "erase", MS!SectorCells)
  <2>1. MS!Reply("erase", 0, NoBlob) \in MS!Replies
    BY DEF MS!Reply, MS!Replies
  <2>2. /\ slot' = [i \in MS!Cells |-> IF i \in MS!SectorCells THEN Erased ELSE slot[i]]
        /\ MS!Return(c, MS!Reply("erase", 0, NoBlob)) /\ UNCHANGED <<faults, saved>>
        /\ fsLock' = NoClient
    BY <1>2 DEF MS!EraseSector, MS!Unlock
  <2>3. slot' \in [MS!Cells -> MS!Cell] /\ Spoils
    BY <2>2, CellTypes DEF MS!TypeOK, Spoils
  <2>4. 1 \in MS!SectorCells
    BY Geometry, SwapAssumption DEF SwapAssumption, MS!SectorCells
  <2>5. slot'[1] = Erased
    BY <2>2, <2>4, Geometry
  <2>. QED  BY <2>1, <2>2, <2>3, <2>5, StoreReturn DEF MS!TypeOK
<1>. QED  BY <1>1, <1>2

LEMMA EraseBlocksBound == \A len \in MS!Cells : MS!EraseBlocks(len) \in 1..SlotChunks
<1>. SUFFICES ASSUME NEW len \in MS!Cells PROVE MS!EraseBlocks(len) \in 1..SlotChunks
  OBVIOUS
<1>1. \A x \in Nat : x >= BlockChunks => x \div BlockChunks >= 1
  BY SwapAssumption DEF SwapAssumption
<1>2. (len + BlockChunks - 1) \div BlockChunks <= len
  BY SwapAssumption DEF SwapAssumption, MS!Cells
<1>. QED  BY <1>1, <1>2, SwapAssumption DEF SwapAssumption, MS!Cells, MS!EraseBlocks

(* A save in progress: the next step ends it or goes on with the same       *)
(* length; it spoils cells or programs one from the caller's buffer.        *)
SaveWork(c, src) ==
  \/ MS!SaveLock(c)
  \/ MS!EraseBlock(c) \/ MS!EraseBlockFails(c)
  \/ MS!ProgramChunk(c, src) \/ MS!ProgramChunkFails(c)
  \/ MS!Verify(c, src)

LEMMA SaveWorkStep ==
  ASSUME MS!TypeOK, NEW c \in Tasks, NEW src \in Region, SaveWork(c, src),
         task[c].len \in MS!Cells
  PROVE  /\ MS!TypeOK' /\ Others(c)
         /\ \/ task'[c].pc = "idle"
            \/ task'[c].pc \in SavePcs /\ task'[c].len = task[c].len
         /\ Spoils \/ Programs(src, task[c].len)
<1>. DEFINE len == task[c].len  at == task[c].at
<1>0. /\ len \in Int /\ at \in 0..SlotChunks /\ SlotChunks \in Nat
      /\ 1 \in 1..len /\ 1 \in 0..SlotChunks /\ len \in 1..SlotChunks
      /\ MS!EraseBlocks(len) \in 1..SlotChunks
  BY Geometry, EraseBlocksBound DEF MS!TypeOK, MS!Task, MS!Cells
<1>1. CASE MS!SaveLock(c)
  <2>1. 1 \in 1..MS!EraseBlocks(len)
    BY <1>0
  <2>. QED
    BY <1>0, <1>1, <2>1 DEF MS!SaveLock, MS!TypeOK, MS!Task, MS!WithinBlob, Others,
       SavePcs, Spoils
<1>2. CASE MS!EraseBlock(c)
  <2>. DEFINE t == IF at < MS!EraseBlocks(len)
                   THEN [task[c] EXCEPT !.at = at + 1]
                   ELSE [task[c] EXCEPT !.pc = "program", !.at = 1]
  <2>1. slot' \in [MS!Cells -> MS!Cell] /\ Spoils
    BY <1>2, CellTypes DEF MS!EraseBlock, MS!TypeOK, Spoils
  <2>2. /\ at < MS!EraseBlocks(len) =>
             at + 1 \in 1..MS!EraseBlocks(len) /\ at + 1 \in 0..SlotChunks
    BY <1>0
  <2>3. t \in MS!Task /\ MS!WithinBlob(t) /\ t.pc \in SavePcs /\ t.len = len
    BY <1>0, <1>2, <2>2 DEF MS!EraseBlock, MS!TypeOK, MS!Task, MS!WithinBlob, SavePcs
  <2>4. task' = [task EXCEPT ![c] = t]
    BY <1>2 DEF MS!EraseBlock
  <2>. HIDE DEF t
  <2>. QED  BY <1>2, <2>1, <2>3, <2>4 DEF MS!EraseBlock, MS!TypeOK, Others
<1>3. CASE MS!EraseBlockFails(c)
  BY <1>3, FlashFailsStep DEF MS!EraseBlockFails
<1>4. CASE MS!ProgramChunk(c, src)
  <2>. DEFINE t == IF at < len THEN [task[c] EXCEPT !.at = at + 1]
                   ELSE [task[c] EXCEPT !.pc = "verify"]
  <2>1. at \in 1..len /\ at \in MS!Cells /\ src[at] \in MS!Cell
    BY <1>0, <1>4 DEF MS!ProgramChunk, MS!TypeOK, MS!WithinBlob, MS!Cells, Region
  <2>2. /\ slot' \in [MS!Cells -> MS!Cell] /\ slot'[at] \in {src[at], Garbage}
        /\ \A i \in MS!Cells \ {at} : slot'[i] = slot[i]
    BY <1>4, <2>1, CellTypes DEF MS!ProgramChunk, MS!TypeOK, MS!Programmed
  <2>3. at < len => at + 1 \in 1..len /\ at + 1 \in 0..SlotChunks
    BY <1>0
  <2>4. t \in MS!Task /\ MS!WithinBlob(t) /\ t.pc \in SavePcs /\ t.len = len
    BY <1>0, <1>4, <2>3 DEF MS!ProgramChunk, MS!TypeOK, MS!Task, MS!WithinBlob, SavePcs
  <2>5. task' = [task EXCEPT ![c] = t]
    BY <1>4 DEF MS!ProgramChunk
  <2>6. faults' \in 0..MaxFaults
    BY <1>4, SwapAssumption DEF MS!ProgramChunk, MS!Fault, MS!TypeOK, SwapAssumption
  <2>. HIDE DEF t
  <2>. QED
    BY <1>4, <2>1, <2>2, <2>4, <2>5, <2>6
    DEF MS!ProgramChunk, MS!TypeOK, Others, Programs
<1>5. CASE MS!ProgramChunkFails(c)
  BY <1>5, FlashFailsStep DEF MS!ProgramChunkFails
<1>6. CASE MS!Verify(c, src)
  <2>1. task[c].blob \in Blobs \cup {NoBlob}
    BY DEF MS!TypeOK, MS!Task
  <2>2. \A rc \in {0, -84}, b \in Blobs \cup {NoBlob} : MS!Reply("save", rc, b) \in MS!Replies
    BY DEF MS!Reply, MS!Replies
  <2>3. PICK r \in MS!Replies : MS!Return(c, r)
    BY <1>6, <2>1, <2>2 DEF MS!Verify
  <2>4. saved' \in Blobs \cup {NoBlob} /\ slot' = slot /\ faults' = faults
        /\ fsLock' = NoClient
    BY <1>6, <2>1 DEF MS!Verify, MS!Unlock, MS!TypeOK
  <2>. QED  BY <2>3, <2>4, StoreReturn DEF MS!TypeOK, Spoils
<1>. QED  BY <1>1, <1>2, <1>3, <1>4, <1>5, <1>6 DEF SaveWork

LEMMA StoreResetStep ==
  ASSUME MS!TypeOK, MS!Reset
  PROVE  /\ MS!TypeOK' /\ Spoils /\ \A c \in Tasks : task'[c].pc = "idle"
<1>1. slot' \in [MS!Cells -> MS!Cell] /\ Spoils
  BY CellTypes DEF MS!Reset, MS!TypeOK, Spoils
<1>2. /\ MS!Idle \in MS!Task /\ MS!WithinBlob(MS!Idle) /\ MS!Idle.pc = "idle"
      /\ MS!NoReply \in MS!Replies
  BY Geometry DEF MS!Idle, MS!Task, MS!WithinBlob, MS!NoReply, MS!Replies
<1>3. faults' \in 0..MaxFaults
  BY SwapAssumption DEF MS!Reset, MS!Fault, MS!TypeOK, SwapAssumption
<1>. QED  BY <1>1, <1>2, <1>3 DEF MS!Reset, MS!TypeOK

LEMMA StoreInit == MS!Init => MS!TypeOK /\ \A c \in Tasks : task[c].pc = "idle"
<1>1. /\ MS!Idle \in MS!Task /\ MS!WithinBlob(MS!Idle) /\ MS!Idle.pc = "idle"
      /\ MS!NoReply \in MS!Replies
  BY Geometry DEF MS!Idle, MS!Task, MS!WithinBlob, MS!NoReply, MS!Replies
<1>. QED  BY <1>1, CellTypes, SwapAssumption DEF MS!Init, MS!TypeOK, SwapAssumption

-----------------------------------------------------------------------------
(* Types, and how the three tasks are inside their calls. *)
SwapPcs == {"copy", "apply", "save", "saving", "reload", "builtin", "finish"}

DataTypes ==
  /\ pend \in Region /\ staging \in Region /\ pendLen \in 0..SlotChunks
  /\ name \in Blobs \cup {NoBlob} /\ ran \in Blobs \cup {NoBlob}

HistTypes == spared \in Blobs \cup {NoBlob} /\ onReset \in Blobs \cup {NoBlob}

FlagTypes == interp \in BOOLEAN /\ inited \in BOOLEAN /\ reverted \in BOOLEAN

AITypes ==
  /\ ai \in [pc : AIPcs, len : 0..SlotChunks, at : 0..PastEnd, copy : 0..PastEnd]
  /\ ai.pc = "copy" => ai.at \in 1..ai.copy

TaskTypes ==
  /\ push \in Models \cup {NoBlob}
  /\ xfer \in [pc : {"idle", "download", "validate", "queue"},
               at : 0..SlotChunks, attempt : 0..MaxAttempts]
  /\ xfer.pc # "idle" => push \in Models
  /\ xfer.pc = "download" => xfer.at \in 1..Chunks[push]
  /\ pump \in [pc : {"idle", "erasing", "wrap", "queue"}, at : 0..SlotChunks]
  /\ pump.pc = "wrap" => pump.at \in 1..Chunks[Builtin]
  /\ ack \in [Models -> {"none", "downloading", "failed", "done"}]
  /\ scene \in Scenes

(* A task is inside the store exactly in the states that say so. *)
StoreUse ==
  /\ MS!TypeOK
  /\ IF pump.pc = "erasing" THEN task["pump"].pc = "eraseSector"
                            ELSE task["pump"].pc = "idle"
  /\ ai.pc = "bootErasing" => task["ai"].pc = "eraseSector"
  /\ ai.pc = "saving" => /\ task["ai"].pc \in SavePcs
                         /\ task["ai"].len \in MS!Cells /\ task["ai"].len = ai.len
  /\ ai.pc \notin {"bootErasing", "saving"} => task["ai"].pc = "idle"

TypeInv == DataTypes /\ HistTypes /\ FlagTypes /\ AITypes /\ TaskTypes /\ StoreUse

LEMMA TypeInvTypes == TypeInv => TypeOK
<1>. SUFFICES ASSUME TypeInv PROVE TypeOK
  OBVIOUS
<1>. QED
  BY Zenon
  DEF TypeInv, DataTypes, HistTypes, FlagTypes, AITypes, TaskTypes, StoreUse, TypeOK

LEMMA InitTypeInv == Init => TypeInv
<1>. SUFFICES ASSUME Init PROVE TypeInv
  OBVIOUS
<1>1. DataTypes
  BY Geometry, CellTypes DEF Init, DataTypes, Blank, Region
<1>2. FlagTypes /\ HistTypes
  BY Zenon DEF Init, FlagTypes, HistTypes
<1>3. AITypes /\ TaskTypes
  BY Geometry, SwapAssumption
  DEF Init, AITypes, TaskTypes, Booting, XferIdle, PumpIdle, AIPcs, BootPcs, PastEnd,
      SwapAssumption
<1>4. StoreUse
  BY StoreInit DEF Init, StoreUse, Booting, PumpIdle, Tasks
<1>. QED  BY <1>1, <1>2, <1>3, <1>4 DEF TypeInv

LEMMA AILeavesOthers == AIStep => UNCHANGED <<push, xfer, pump, ack, hist>>
  BY DEF AIStep, BootLoad, BootStage, BootApply, BootErase, BootErased, BootFallback,
     BootBuiltin, SwapStart, CopyChunk, CopyPast, SwapApply, SaveSwapped, SaveStep, Reload,
     ReloadBuiltin, SwapFinish, Infer

LEMMA ElsewhereLeavesModel == Elsewhere => UNCHANGED <<engine, ai, ran, scene, onReset>>
  BY DEF Elsewhere, PumpStep, RevertErased, RevertWrap, RevertQueue, XferStep, PushStart,
         DownloadChunk, DownloadFails, PushValidate, PushQueue, RevertErase,
         PushArrives, hist

LEMMA DataStep == TypeInv /\ [Next]_vars => DataTypes'
<1>. SUFFICES ASSUME TypeInv, [Next]_vars PROVE DataTypes'
  OBVIOUS
<1>. USE DEF DataTypes
<1>0. DataTypes /\ AITypes /\ TaskTypes /\ slot \in Region
  BY DEF TypeInv, StoreUse, MS!TypeOK, Region
<1>1. CASE AIStep
  <2>1. CASE BootLoad
    BY <1>0, <2>1 DEF BootLoad, engine
  <2>2. CASE BootStage
    BY <1>0, <2>2, HeaderTypes DEF BootStage, Region
  <2>3. CASE BootApply \/ SwapApply \/ Reload
    BY <1>0, <2>3, HeaderTypes DEF BootApply, SwapApply, Reload, Accepted
  <2>4. CASE BootBuiltin \/ ReloadBuiltin
    <3>1. StageBuiltin /\ UNCHANGED <<pend, pendLen>>
      BY <2>4 DEF BootBuiltin, ReloadBuiltin
    <3>2. staging' \in Region
      BY <1>0, <3>1, CellTypes DEF StageBuiltin, Region, Blobs
    <3>3. name' \in Blobs /\ ran' \in Blobs \cup {NoBlob}
      BY <1>0, <3>1 DEF StageBuiltin, Blobs, Accepted
    <3>. QED  BY <1>0, <3>1, <3>2, <3>3
  <2>5. CASE CopyChunk
    <3>1. ai.at \in MS!Cells
      BY <1>0, <2>5, Geometry DEF CopyChunk, AITypes, MS!Cells
    <3>. QED  BY <1>0, <2>5, <3>1 DEF CopyChunk, Region
  <2>6. CASE SwapFinish
    BY <1>0, <2>6, Geometry DEF SwapFinish, engine
  <2>7. CASE \/ BootErase \/ BootErased \/ BootFallback \/ SwapStart \/ SaveSwapped
             \/ SaveStep \/ Infer
    BY <1>0, <2>7
    DEF BootErase, BootErased, BootFallback, SwapStart, SaveSwapped, SaveStep, Infer, engine
  <2>8. CASE CopyPast
    <3>1. Blank \in Region
      BY CellTypes DEF Blank, Region
    <3>. QED  BY <1>0, <2>8, <3>1 DEF CopyPast, engine
  <2>. QED  BY <1>1, <2>1, <2>2, <2>3, <2>4, <2>5, <2>6, <2>7, <2>8 DEF AIStep
<1>2. CASE Elsewhere
  <2>1. UNCHANGED <<engine, ran>>
    BY <1>2, ElsewhereLeavesModel
  <2>2. CASE RevertWrap
    <3>1. pump.at \in MS!Cells
      BY <1>0, <2>2, Geometry DEF RevertWrap, TaskTypes, MS!Cells, Blobs
    <3>. QED
      BY <1>0, <2>1, <2>2, <3>1, CellTypes DEF RevertWrap, Region, Blobs, engine
  <2>3. CASE DownloadChunk
    <3>1. push \in Blobs /\ xfer.at \in MS!Cells
      BY <1>0, <2>3, Geometry DEF DownloadChunk, TaskTypes, MS!Cells, Blobs
    <3>. QED
      BY <1>0, <2>1, <2>3, <3>1, CellTypes DEF DownloadChunk, Region, engine
  <2>4. CASE RevertQueue
    BY <1>0, <2>1, <2>4, Geometry DEF RevertQueue, engine, MS!Cells, Blobs
  <2>5. CASE PushQueue
    <3>1. push \in Blobs
      BY <1>0, <2>5 DEF PushQueue, TaskTypes, Blobs
    <3>. QED  BY <1>0, <2>1, <2>5, <3>1, Geometry DEF PushQueue, engine, MS!Cells
  <2>6. CASE \/ RevertErased \/ PushStart \/ DownloadFails \/ PushValidate \/ RevertErase
             \/ \E b \in Models : PushArrives(b)
    BY <1>0, <2>1, <2>6
    DEF RevertErased, PushStart, DownloadFails, PushValidate, RevertErase, PushArrives,
        engine
  <2>. QED
    BY <1>2, <2>2, <2>3, <2>4, <2>5, <2>6 DEF Elsewhere, PumpStep, XferStep
<1>3. CASE Reset
  BY <1>3, Geometry, CellTypes DEF Reset, Blank, Region
<1>4. CASE UNCHANGED vars
  BY <1>0, <1>4 DEF vars, engine
<1>. QED  BY <1>1, <1>2, <1>3, <1>4, NextCases

LEMMA HistStep == TypeInv /\ [Next]_vars => HistTypes'
<1>. SUFFICES ASSUME TypeInv, [Next]_vars PROVE HistTypes'
  OBVIOUS
<1>0. HistTypes /\ saved \in Blobs \cup {NoBlob}
  BY DEF TypeInv, StoreUse, MS!TypeOK
<1>. USE <1>0 DEF HistTypes
<1>1. CASE AIStep
  BY <1>1, AILeavesOthers DEF hist
<1>2. CASE Elsewhere
  <2>1. onReset' = onReset
    BY <1>2, ElsewhereLeavesModel
  <2>2. CASE RevertErased
    <3>1. MS!Validates(slot', SlotChunks) => MS!BlobIn(slot') \in Blobs
      BY DEF MS!Validates, MS!BlobIn
    <3>. QED  BY <2>1, <2>2, <3>1 DEF RevertErased
  <2>3. CASE \/ RevertWrap \/ RevertQueue \/ XferStep \/ RevertErase
             \/ \E b \in Models : PushArrives(b)
    BY <2>1, <2>3
    DEF RevertWrap, RevertQueue, XferStep, PushStart, DownloadChunk, DownloadFails,
        PushValidate, PushQueue, RevertErase, PushArrives, hist
  <2>. QED  BY <1>2, <2>2, <2>3 DEF Elsewhere, PumpStep
<1>3. CASE Reset
  BY <1>3 DEF Reset
<1>4. CASE UNCHANGED vars
  BY <1>4 DEF vars, hist
<1>. QED  BY <1>1, <1>2, <1>3, <1>4, NextCases

LEMMA FlagStep == TypeInv /\ [Next]_vars => FlagTypes'
<1>. SUFFICES ASSUME TypeInv, [Next]_vars PROVE FlagTypes'
  OBVIOUS
<1>0. FlagTypes
  BY DEF TypeInv
<1>. USE <1>0 DEF FlagTypes
<1>1. CASE AIStep
  <2>1. UNCHANGED reverted
    BY <1>1, AILeavesOthers DEF hist
  <2>2. CASE BootApply \/ SwapApply \/ Reload
    BY <2>1, <2>2, Zenon DEF BootApply, SwapApply, Reload, Apply, Teardown
  <2>3. CASE BootStage \/ BootFallback \/ SwapStart
    BY <2>1, <2>3, Zenon DEF BootStage, BootFallback, SwapStart, Teardown
  <2>4. CASE BootBuiltin \/ ReloadBuiltin
    BY <2>1, <2>4, Zenon DEF BootBuiltin, ReloadBuiltin, StageBuiltin, Apply
  <2>5. CASE \/ BootLoad \/ BootErase \/ BootErased \/ CopyChunk \/ CopyPast \/ SaveSwapped
             \/ SaveStep \/ SwapFinish \/ Infer
    BY <2>1, <2>5, Zenon
    DEF BootLoad, BootErase, BootErased, CopyChunk, CopyPast, SaveSwapped, SaveStep,
        SwapFinish, Infer, engine
  <2>. QED  BY <1>1, <2>2, <2>3, <2>4, <2>5 DEF AIStep
<1>2. CASE Elsewhere
  <2>1. UNCHANGED <<interp, inited>>
    BY <1>2, ElsewhereLeavesModel DEF engine
  <2>2. reverted' \in BOOLEAN
    <3>1. CASE RevertErased \/ RevertQueue \/ PushQueue
      BY <3>1, Zenon DEF RevertErased, RevertQueue, PushQueue
    <3>2. CASE \/ RevertWrap \/ PushStart \/ DownloadChunk \/ DownloadFails \/ PushValidate
               \/ RevertErase \/ \E b \in Models : PushArrives(b)
      BY <3>2, Zenon
      DEF RevertWrap, PushStart, DownloadChunk, DownloadFails, PushValidate, RevertErase,
          PushArrives, hist
    <3>. QED  BY <1>2, <3>1, <3>2 DEF Elsewhere, PumpStep, XferStep
  <2>. QED  BY <2>1, <2>2, Zenon
<1>3. CASE Reset
  BY <1>3, Zenon DEF Reset, hist
<1>4. CASE UNCHANGED vars
  BY <1>4, Zenon DEF vars, engine, hist
<1>. QED  BY <1>1, <1>2, <1>3, <1>4, NextCases

LEMMA AIControlStep == TypeInv /\ [Next]_vars => AITypes'
<1>. SUFFICES ASSUME TypeInv, [Next]_vars PROVE AITypes'
  OBVIOUS
<1>0. /\ AITypes /\ pendLen \in 0..SlotChunks /\ SlotChunks \in Nat /\ 0 \in 0..SlotChunks
      /\ PastEnd \in Nat /\ 0 \in 0..PastEnd /\ 1 \in 0..PastEnd
  BY Geometry DEF TypeInv, DataTypes, PastEnd, MS!Cells
<1>. USE <1>0 DEF AITypes, AIPcs, BootPcs
<1>1. CASE AIStep
  <2>1. CASE BootLoad
    BY <2>1 DEF BootLoad
  <2>2. CASE BootStage
    BY <2>2 DEF BootStage
  <2>3. CASE BootApply
    BY <2>3 DEF BootApply, Inferring, Halted
  <2>4. CASE BootErase
    BY <2>4 DEF BootErase
  <2>5. CASE BootErased
    BY <2>5 DEF BootErased
  <2>6. CASE BootFallback
    BY <2>6 DEF BootFallback, Inferring
  <2>7. CASE BootBuiltin
    BY <2>7 DEF BootBuiltin, Inferring, Halted
  <2>8. CASE SwapStart
    <3>1. \A n \in HeaderLens(pend) : n \in 0..PastEnd /\ (n # 0 => 1 \in 1..n)
      BY HeaderTypes
    <3>. QED  BY <2>8, <3>1 DEF SwapStart, CopyStart
  <2>9. CASE CopyChunk
    <3>1. ai.at \in 1..ai.copy /\ ai.copy \in 0..PastEnd
      BY <2>9 DEF CopyChunk
    <3>2. ai.at < ai.copy => ai.at + 1 \in 1..ai.copy /\ ai.at + 1 \in 0..PastEnd
      BY <3>1
    <3>. QED  BY <2>9, <3>2 DEF CopyChunk
  <2>10. CASE SwapApply
    BY <2>10 DEF SwapApply, Halted
  <2>11. CASE SaveSwapped
    BY <2>11 DEF SaveSwapped
  <2>12. CASE SaveStep
    BY <2>12 DEF SaveStep
  <2>13. CASE Reload
    BY <2>13 DEF Reload, Halted
  <2>14. CASE ReloadBuiltin
    BY <2>14 DEF ReloadBuiltin
  <2>15. CASE SwapFinish
    BY <2>15 DEF SwapFinish, Inferring
  <2>16. CASE CopyPast
    BY <2>16 DEF CopyPast, Halted
  <2>17. CASE Infer
    BY <2>17 DEF Infer, IdleAI, Halted
  <2>. QED
    BY <1>1, <2>1, <2>2, <2>3, <2>4, <2>5, <2>6, <2>7, <2>8, <2>9, <2>10,
       <2>11, <2>12, <2>13, <2>14, <2>15, <2>16, <2>17 DEF AIStep
<1>2. CASE Elsewhere
  BY <1>2, ElsewhereLeavesModel
<1>3. CASE Reset
  BY <1>3 DEF Reset, Booting
<1>4. CASE UNCHANGED vars
  BY <1>4 DEF vars
<1>. QED  BY <1>1, <1>2, <1>3, <1>4, NextCases

LEMMA TaskStep == TypeInv /\ [Next]_vars => TaskTypes'
<1>. SUFFICES ASSUME TypeInv, [Next]_vars PROVE TaskTypes'
  OBVIOUS
<1>0. /\ TaskTypes /\ SlotChunks \in Nat
      /\ MaxAttempts \in Nat /\ 1 \in 0..MaxAttempts /\ 1 \in 0..SlotChunks
  BY Geometry, SwapAssumption DEF TypeInv, SwapAssumption, MS!Cells
<1>00. /\ Builtin \in Blobs /\ Chunks[Builtin] \in 1..SlotChunks
       /\ \A b \in Models : b # NoBlob /\ Chunks[b] \in 1..SlotChunks
  BY Geometry DEF Blobs, MS!Cells
<1>. USE <1>0, <1>00 DEF TaskTypes
<1>1. CASE AIStep
  BY <1>1, AILeavesOthers DEF hist
<1>2. CASE Elsewhere
  <2>1. CASE RevertErased
    BY <2>1 DEF RevertErased, PumpIdle
  <2>2. CASE RevertWrap
    <3>1. pump.at \in 1..Chunks[Builtin]
      BY <2>2 DEF RevertWrap
    <3>2. pump.at > 1 => pump.at - 1 \in 1..Chunks[Builtin] /\ pump.at - 1 \in 0..SlotChunks
      BY <3>1
    <3>. QED  BY <2>2, <3>2 DEF RevertWrap, hist
  <2>3. CASE RevertQueue
    BY <2>3 DEF RevertQueue, PumpIdle
  <2>4. CASE PushStart
    <3>1. push \in Models /\ 1 \in 1..Chunks[push]
      BY <2>4 DEF PushStart
    <3>. QED  BY <2>4, <3>1 DEF PushStart, hist
  <2>5. CASE DownloadChunk
    <3>1. push \in Models /\ xfer.at \in 1..Chunks[push]
      BY <2>5 DEF DownloadChunk
    <3>2. xfer.at < Chunks[push] =>
            xfer.at + 1 \in 1..Chunks[push] /\ xfer.at + 1 \in 0..SlotChunks
      BY <3>1
    <3>. QED  BY <2>5, <3>1, <3>2 DEF DownloadChunk, hist
  <2>6. CASE DownloadFails
    <3>1. push \in Models /\ 1 \in 1..Chunks[push]
      BY <2>6 DEF DownloadFails
    <3>2. UNCHANGED <<pump, scene>>
      BY <2>6 DEF DownloadFails, hist
    <3>3. CASE /\ xfer.attempt < MaxAttempts
               /\ xfer' = [xfer EXCEPT !.at = 1, !.attempt = @ + 1]
               /\ UNCHANGED <<push, ack>>
      <4>1. xfer.attempt + 1 \in 0..MaxAttempts
        BY <3>3
      <4>. QED  BY <3>1, <3>2, <3>3, <4>1
    <3>4. CASE PushDone("failed") \/ (xfer' = XferIdle /\ UNCHANGED <<push, ack>>)
      BY <3>2, <3>4 DEF PushDone, XferIdle
    <3>. QED  BY <2>6, <3>3, <3>4 DEF DownloadFails
  <2>7. CASE PushValidate
    BY <2>7 DEF PushValidate, PushDone, XferIdle, hist
  <2>8. CASE PushQueue
    BY <2>8 DEF PushQueue, PushDone, XferIdle
  <2>9. CASE RevertErase
    BY <2>9 DEF RevertErase, hist
  <2>10. CASE \E b \in Models : PushArrives(b)
    BY <2>10 DEF PushArrives, hist
  <2>. QED
    BY <1>2, <2>1, <2>2, <2>3, <2>4, <2>5, <2>6, <2>7, <2>8, <2>9, <2>10
    DEF Elsewhere, PumpStep, XferStep
<1>3. CASE Reset
  BY <1>3 DEF Reset, XferIdle, PumpIdle, hist
<1>4. CASE UNCHANGED vars
  BY <1>4 DEF vars, hist
<1>. QED  BY <1>1, <1>2, <1>3, <1>4, NextCases

(* The AI thread outside its store calls, and the other tasks outside       *)
(* model-revert's erase, leave the store alone.                             *)
LEMMA FlashUntouched ==
  /\ \/ BootStage \/ BootApply \/ BootFallback \/ BootBuiltin \/ SwapStart \/ CopyChunk
     \/ CopyPast \/ SwapApply \/ Reload \/ ReloadBuiltin \/ SwapFinish \/ Infer
     => UNCHANGED flash
  /\ \/ RevertWrap \/ RevertQueue \/ XferStep \/ \E b \in Models : PushArrives(b)
     => UNCHANGED flash
  BY DEF BootStage, BootApply, BootFallback, BootBuiltin, SwapStart, CopyChunk, CopyPast,
     SwapApply, Reload, ReloadBuiltin, SwapFinish, Infer, RevertWrap, RevertQueue, XferStep,
     PushStart, DownloadChunk, DownloadFails, PushValidate, PushQueue, PushArrives

LEMMA StoreUseStep == TypeInv /\ [Next]_vars => StoreUse'
<1>. SUFFICES ASSUME TypeInv, [Next]_vars PROVE StoreUse'
  OBVIOUS
<1>0. /\ StoreUse /\ AITypes /\ MS!TypeOK /\ "ai" \in Tasks /\ "pump" \in Tasks
      /\ pend \in Region /\ ai.len \in 0..SlotChunks
  BY DEF TypeInv, StoreUse, DataTypes, AITypes, Tasks
<1>1. ASSUME Others("ai") PROVE task'["pump"] = task["pump"]
  BY <1>1 DEF Others, Tasks
<1>2. ASSUME Others("pump") PROVE task'["ai"] = task["ai"]
  BY <1>2 DEF Others, Tasks
<1>3. flash' = flash => MS!TypeOK' /\ task' = task
  BY <1>0 DEF flash, MS!TypeOK
<1>4. CASE AIStep
  <2>0. pump' = pump
    BY <1>4, AILeavesOthers
  <2>1. CASE BootLoad
    <3>1. /\ MS!TypeOK' /\ Others("ai") /\ task'["ai"].pc = "idle"
          /\ ai'.pc \in {"bootStage", "fallback"}
      BY <1>0, <2>1, LoadStep DEF BootLoad, AITypes
    <3>. QED  BY <1>0, <1>1, <2>0, <3>1 DEF StoreUse
  <2>2. CASE BootErase
    <3>1. /\ MS!TypeOK' /\ Others("ai") /\ task'["ai"].pc = "eraseSector"
          /\ ai'.pc = "bootErasing"
      BY <1>0, <2>2, DiscardStep DEF BootErase, AITypes
    <3>. QED  BY <1>0, <1>1, <2>0, <3>1 DEF StoreUse
  <2>3. CASE BootErased
    <3>1. /\ MS!TypeOK' /\ Others("ai") /\ task'["ai"].pc = "idle"
          /\ ai'.pc = "fallback"
      BY <1>0, <2>3, EraseSectorStep DEF BootErased, AITypes
    <3>. QED  BY <1>0, <1>1, <2>0, <3>1 DEF StoreUse
  <2>4. CASE SaveSwapped
    <3>1. /\ MS!TypeOK' /\ Others("ai")
          /\ \/ task'["ai"].pc = "idle"
             \/ /\ task'["ai"].pc = "saveLock" /\ task'["ai"].len = ai.len
                /\ ai.len \in MS!Cells
      BY <1>0, <2>4, CallStep DEF SaveSwapped
    <3>2. /\ ai'.pc = IF task'["ai"].pc = "idle" THEN "finish" ELSE "saving"
          /\ ai'.len = ai.len
      BY <1>0, <2>4 DEF SaveSwapped, AITypes
    <3>. QED  BY <1>0, <1>1, <2>0, <3>1, <3>2 DEF StoreUse, SavePcs
  <2>5. CASE SaveStep
    <3>1. SaveWork("ai", pend) /\ task["ai"].len \in MS!Cells /\ task["ai"].len = ai.len
      BY <1>0, <2>5 DEF SaveStep, SaveWork, StoreUse
    <3>2. /\ MS!TypeOK' /\ Others("ai")
          /\ \/ task'["ai"].pc = "idle"
             \/ task'["ai"].pc \in SavePcs /\ task'["ai"].len = task["ai"].len
      BY <1>0, <3>1, SaveWorkStep
    <3>3. /\ ai'.pc = IF task'["ai"].pc = "idle" THEN "finish" ELSE "saving"
          /\ ai'.len = ai.len
      BY <1>0, <2>5 DEF SaveStep, AITypes
    <3>. QED  BY <1>0, <1>1, <2>0, <3>1, <3>2, <3>3 DEF StoreUse, SavePcs
  <2>6. CASE \/ BootStage \/ BootApply \/ BootFallback \/ BootBuiltin \/ SwapStart
             \/ CopyChunk \/ CopyPast \/ SwapApply \/ Reload \/ ReloadBuiltin \/ SwapFinish
             \/ Infer
    <3>1. flash' = flash
      BY <2>6, FlashUntouched
    <3>2. ai.pc \notin {"bootErasing", "saving"} /\ ai'.pc \notin {"bootErasing", "saving"}
      BY <1>0, <2>6
      DEF BootStage, BootApply, BootFallback, BootBuiltin, SwapStart, CopyStart, CopyChunk,
          CopyPast, SwapApply, Reload, ReloadBuiltin, SwapFinish, Infer, IdleAI, Inferring,
          Halted, AITypes
    <3>. QED  BY <1>0, <1>3, <2>0, <3>1, <3>2 DEF StoreUse
  <2>. QED  BY <1>4, <2>1, <2>2, <2>3, <2>4, <2>5, <2>6 DEF AIStep
<1>5. CASE Elsewhere
  <2>0. ai' = ai /\ pump \in [pc : {"idle", "erasing", "wrap", "queue"}, at : 0..SlotChunks]
    BY <1>5, ElsewhereLeavesModel DEF TypeInv, TaskTypes
  <2>1. CASE RevertErase
    <3>1. /\ MS!TypeOK' /\ Others("pump") /\ task'["pump"].pc = "eraseSector"
          /\ pump'.pc = "erasing"
      BY <1>0, <2>0, <2>1, DiscardStep DEF RevertErase
    <3>. QED  BY <1>0, <1>2, <2>0, <3>1 DEF StoreUse
  <2>2. CASE RevertErased
    <3>1. /\ MS!TypeOK' /\ Others("pump") /\ task'["pump"].pc = "idle"
          /\ pump'.pc # "erasing"
      BY <1>0, <2>0, <2>2, EraseSectorStep DEF RevertErased, PumpIdle
    <3>. QED  BY <1>0, <1>2, <2>0, <3>1 DEF StoreUse
  <2>3. CASE RevertWrap \/ RevertQueue \/ XferStep \/ \E b \in Models : PushArrives(b)
    <3>1. flash' = flash
      BY <2>3, FlashUntouched
    <3>2. pump'.pc = "erasing" <=> pump.pc = "erasing"
      BY <2>0, <2>3
      DEF RevertWrap, RevertQueue, XferStep, PushStart, DownloadChunk, DownloadFails,
          PushValidate, PushQueue, PushArrives, PumpIdle
    <3>. QED  BY <1>0, <1>3, <2>0, <3>1, <3>2 DEF StoreUse
  <2>. QED  BY <1>5, <2>1, <2>2, <2>3 DEF Elsewhere, PumpStep
<1>6. CASE Reset
  <2>1. MS!TypeOK' /\ \A c \in Tasks : task'[c].pc = "idle"
    BY <1>0, <1>6, StoreResetStep DEF Reset
  <2>. QED  BY <1>0, <1>6, <2>1 DEF Reset, Booting, PumpIdle, StoreUse
<1>7. CASE UNCHANGED vars
  BY <1>0, <1>3, <1>7 DEF vars, StoreUse
<1>. QED  BY <1>4, <1>5, <1>6, <1>7, NextCases

THEOREM TypeInvariance == Spec => []TypeInv
<1>1. TypeInv /\ [Next]_vars => TypeInv'
  BY DataStep, HistStep, FlagStep, AIControlStep, TaskStep, StoreUseStep DEF TypeInv
<1>. QED  BY <1>1, InitTypeInv, PTL DEF Spec

(* Whatever is pushed, reverted and reset and whenever: the save never      *)
(* erases, programs or reads outside the slot and the pending buffer, and   *)
(* nothing but the swap's copy, whose length is not checked, can leave the  *)
(* buffers: it is stopped at the first chunk past them.                     *)
THEOREM SwapTypeCorrect == Spec => []TypeOK
<1>. QED  BY TypeInvariance, TypeInvTypes, PTL

-----------------------------------------------------------------------------
(* The file system's mutex, also where pushes and reverts overlap. *)
Rewriting == {"eraseBlock", "program", "verify", "eraseSector"}

(* Who is between two flash commands of a call holds the mutex; who left    *)
(* its call has given it back.                                              *)
FlashHeld == \A c \in Tasks : fsLock = c <=> task[c].pc \in Rewriting

LEMMA ReturnGivesBack ==
  ASSUME MS!TypeOK, FlashHeld, NEW c \in Tasks, NEW r, MS!Return(c, r),
         IF task[c].pc \in Rewriting THEN fsLock' = NoClient ELSE fsLock' = fsLock
  PROVE  FlashHeld'
<1>1. NoClient \notin Tasks /\ task'[c].pc = "idle"
  BY SwapAssumption DEF SwapAssumption, MS!Return, MS!Idle, MS!TypeOK
<1>2. \A d \in Tasks \ {c} : task'[d] = task[d]
  BY DEF MS!Return, MS!TypeOK
<1>. QED  BY <1>1, <1>2 DEF FlashHeld, Rewriting

LEMMA CallKeepsHeld ==
  ASSUME MS!TypeOK, FlashHeld, NEW c \in Tasks, NEW src, NEW len,
         MS!SaveCall(c, src, len) \/ MS!Load(c) \/ MS!DiscardLock(c) \/ MS!EraseSector(c)
  PROVE  FlashHeld'
<1>1. CASE \/ MS!SaveCall(c, src, len) /\ ~ MS!Validates(src, len)
           \/ MS!Load(c) \/ MS!EraseSector(c)
  <2>1. \E r : MS!Return(c, r)
    BY <1>1 DEF MS!SaveCall, MS!Load, MS!EraseSector, MS!FlashFails
  <2>2. IF task[c].pc \in Rewriting THEN fsLock' = NoClient ELSE fsLock' = fsLock
    BY <1>1 DEF MS!SaveCall, MS!Load, MS!EraseSector, MS!FlashFails, MS!Unlock, Rewriting
  <2>. QED  BY <2>1, <2>2, ReturnGivesBack
<1>2. CASE MS!SaveCall(c, src, len) /\ MS!Validates(src, len)
  <2>1. /\ fsLock' = fsLock /\ task[c].pc = "idle" /\ task'[c].pc = "saveLock"
        /\ \A d \in Tasks \ {c} : task'[d] = task[d]
    BY <1>2 DEF MS!SaveCall, MS!TypeOK
  <2>. QED  BY <2>1 DEF FlashHeld, Rewriting
<1>3. CASE MS!DiscardLock(c)
  <2>1. /\ fsLock = NoClient /\ fsLock' = c /\ task'[c].pc = "eraseSector"
        /\ \A d \in Tasks \ {c} : task'[d] = task[d]
    BY <1>3 DEF MS!DiscardLock, MS!TypeOK, MS!Task
  <2>. QED  BY <2>1, SwapAssumption DEF FlashHeld, Rewriting, SwapAssumption
<1>. QED  BY <1>1, <1>2, <1>3

LEMMA WorkKeepsHeld ==
  ASSUME MS!TypeOK, FlashHeld, NEW c \in Tasks, NEW src, SaveWork(c, src)
  PROVE  FlashHeld'
<1>1. CASE MS!SaveLock(c)
  <2>1. /\ fsLock = NoClient /\ fsLock' = c /\ task'[c].pc = "eraseBlock"
        /\ \A d \in Tasks \ {c} : task'[d] = task[d]
    BY <1>1 DEF MS!SaveLock, MS!TypeOK, MS!Task
  <2>. QED  BY <2>1, SwapAssumption DEF FlashHeld, Rewriting, SwapAssumption
<1>2. CASE MS!EraseBlock(c) \/ MS!ProgramChunk(c, src)
  <2>1. fsLock' = fsLock /\ task[c].pc \in Rewriting
    BY <1>2 DEF MS!EraseBlock, MS!ProgramChunk, Rewriting
  <2>2. \A d \in Tasks \ {c} : task'[d] = task[d]
    BY <1>2 DEF MS!EraseBlock, MS!ProgramChunk, MS!TypeOK
  <2>3. task'[c].pc \in Rewriting
    <3>1. CASE MS!EraseBlock(c)
      BY <3>1 DEF MS!EraseBlock, MS!TypeOK, MS!Task, Rewriting
    <3>2. CASE MS!ProgramChunk(c, src)
      BY <3>2 DEF MS!ProgramChunk, MS!TypeOK, MS!Task, Rewriting
    <3>. QED  BY <1>2, <3>1, <3>2
  <2>. QED  BY <2>1, <2>2, <2>3 DEF FlashHeld
<1>3. CASE MS!EraseBlockFails(c) \/ MS!ProgramChunkFails(c) \/ MS!Verify(c, src)
  <2>1. \E r : MS!Return(c, r)
    BY <1>3 DEF MS!EraseBlockFails, MS!ProgramChunkFails, MS!Verify, MS!FlashFails
  <2>2. fsLock' = NoClient /\ task[c].pc \in Rewriting
    BY <1>3
    DEF MS!EraseBlockFails, MS!ProgramChunkFails, MS!Verify, MS!FlashFails, MS!Unlock,
        Rewriting
  <2>. QED  BY <2>1, <2>2, ReturnGivesBack
<1>. QED  BY <1>1, <1>2, <1>3 DEF SaveWork

LEMMA FlashHeldStep == TypeInv /\ FlashHeld /\ [Next]_vars => FlashHeld'
<1>. SUFFICES ASSUME TypeInv, FlashHeld, [Next]_vars PROVE FlashHeld'
  OBVIOUS
<1>0. MS!TypeOK /\ "ai" \in Tasks /\ "pump" \in Tasks
  BY DEF TypeInv, StoreUse, Tasks
<1>1. UNCHANGED flash => FlashHeld'
  BY DEF flash, FlashHeld
<1>2. CASE AIStep
  <2>1. CASE BootLoad \/ BootErase \/ BootErased \/ SaveSwapped
    BY <1>0, <2>1, CallKeepsHeld DEF BootLoad, BootErase, BootErased, SaveSwapped
  <2>2. CASE SaveStep
    <3>1. SaveWork("ai", pend)
      BY <2>2 DEF SaveStep, SaveWork
    <3>. QED  BY <1>0, <3>1, WorkKeepsHeld
  <2>. QED  BY <1>1, <1>2, <2>1, <2>2, FlashUntouched DEF AIStep
<1>3. CASE Elsewhere
  <2>1. CASE RevertErase \/ RevertErased
    BY <1>0, <2>1, CallKeepsHeld DEF RevertErase, RevertErased
  <2>. QED  BY <1>1, <1>3, <2>1, FlashUntouched DEF Elsewhere, PumpStep
<1>4. CASE Reset
  <2>1. /\ fsLock' = NoClient /\ NoClient \notin Tasks
        /\ \A c \in Tasks : task'[c].pc = "idle"
    BY <1>0, <1>4, StoreResetStep, SwapAssumption DEF Reset, MS!Reset, SwapAssumption
  <2>. QED  BY <2>1 DEF FlashHeld, Rewriting
<1>5. CASE UNCHANGED vars
  BY <1>1, <1>5 DEF vars
<1>. QED  BY <1>2, <1>3, <1>4, <1>5, NextCases

(* However pushes, reverts and resets overlap, the AI thread and the pump   *)
(* are never both between flash commands, and no path out of a save, a load *)
(* or an erase, the failing ones included, keeps the mutex.                 *)
THEOREM FlashMutexKept == Spec => []FlashHeld
<1>1. Init => FlashHeld
  BY SwapAssumption DEF Init, MS!Init, MS!Idle, FlashHeld, Rewriting, SwapAssumption
<1>. QED  BY <1>1, TypeInvariance, FlashHeldStep, PTL DEF Spec

-----------------------------------------------------------------------------
(* A boot finds the buffers to itself: no push or command before the board  *)
(* is connected.  From loading to applying it has one complete model.       *)
Running == name \in Blobs /\ MS!Holds(staging, name)

BootInv ==
  /\ ai.pc \in BootPcs => push = NoBlob /\ pump.pc = "idle" /\ pendLen = 0
  /\ ai.pc \in SwapPcs => pendLen # 0
  /\ ai.pc = "bootStage" => \E b \in Blobs : MS!Holds(pend, b)
  /\ ai.pc = "bootApply" => Running

LEMMA InitBootInv == Init => BootInv
  BY DEF Init, BootInv, Booting, BootPcs, PumpIdle, SwapPcs

(* What a load found is what the boot stages. *)
LEMMA BootLoadFinds ==
  ASSUME TypeInv, BootLoad, ai'.pc = "bootStage"
  PROVE  \E b \in Blobs : MS!Holds(slot, b) /\ pend' = slot
<1>1. reply'["ai"].rc = 0
  BY DEF BootLoad, TypeInv, AITypes
<1>2. PICK b \in Blobs : MS!Holds(slot, b)
  BY <1>1, LoadStep DEF BootLoad, TypeInv, StoreUse, Tasks
<1>3. slot[1] # Erased
  BY <1>2, Geometry DEF MS!Holds
<1>. QED  BY <1>2, <1>3 DEF BootLoad

(* Staging a buffer that holds a model makes staging hold it. *)
LEMMA BootStageCopies ==
  ASSUME NEW b \in Blobs, MS!Holds(pend, b), BootStage
  PROVE  name' = b /\ MS!Holds(staging', b)
<1>1. HeaderName(pend) = b /\ HeaderLens(pend) = {Chunks[b]}
  BY HeaderTells
<1>2. ASSUME NEW i \in 1..Chunks[b] PROVE staging'[i] = pend[i]
  BY <1>1, <1>2, Geometry DEF BootStage, MS!Cells
<1>. QED  BY <1>1, <1>2, HoldsCopies DEF BootStage

LEMMA BootStep == TypeInv /\ BootInv /\ [Next]_vars => BootInv'
<1>. SUFFICES ASSUME TypeInv, BootInv, [Next]_vars PROVE BootInv'
  OBVIOUS
<1>0. /\ ai \in [pc : AIPcs, len : 0..SlotChunks, at : 0..PastEnd, copy : 0..PastEnd]
      /\ push \in Models \cup {NoBlob}
      /\ xfer.pc # "idle" => push \in Models
      /\ \A b \in Models : b # NoBlob
  BY Geometry DEF TypeInv, AITypes, TaskTypes, Blobs
<1>. USE <1>0 DEF BootInv, Connected, Alive, BootPcs, SwapPcs
<1>1. CASE AIStep
  <2>0. UNCHANGED <<push, pump>>
    BY <1>1, AILeavesOthers
  <2>1. CASE BootLoad
    BY <2>0, <2>1, BootLoadFinds DEF BootLoad
  <2>2. CASE BootStage
    <3>1. PICK b \in Blobs : MS!Holds(pend, b)
      BY <2>2 DEF BootStage
    <3>. QED  BY <2>0, <2>2, <3>1, BootStageCopies DEF BootStage, Running
  <2>3. CASE BootApply \/ BootErase \/ BootErased \/ BootFallback \/ BootBuiltin
    BY <2>0, <2>3
    DEF BootApply, BootErase, BootErased, BootFallback, BootBuiltin, Inferring, Halted
  <2>4. CASE \/ SwapStart \/ CopyChunk \/ CopyPast \/ SwapApply \/ SaveSwapped
             \/ SaveStep
    BY <2>0, <2>4
    DEF SwapStart, CopyStart, CopyChunk, CopyPast, SwapApply, SaveSwapped, SaveStep, Halted
  <2>5. CASE Reload \/ ReloadBuiltin \/ SwapFinish \/ Infer
    BY <2>0, <2>5 DEF Reload, ReloadBuiltin, SwapFinish, Infer, IdleAI, Inferring, Halted
  <2>. QED  BY <1>1, <2>1, <2>2, <2>3, <2>4, <2>5 DEF AIStep
<1>2. CASE Elsewhere
  <2>0. UNCHANGED <<engine, ai>>
    BY <1>2, ElsewhereLeavesModel
  <2>1. Connected
    BY <1>2
    DEF Elsewhere, PumpStep, RevertErased, RevertWrap, RevertQueue, XferStep, PushStart,
        DownloadChunk, DownloadFails, PushValidate, PushQueue, RevertErase, PushArrives
  <2>2. pendLen' = pendLen \/ pendLen' # 0
    <3>1. CASE RevertQueue
      <4>1. Chunks[Builtin] # 0
        BY Geometry DEF Blobs, MS!Cells
      <4>. QED  BY <3>1, <4>1 DEF RevertQueue
    <3>2. CASE PushQueue
      <4>1. push \in Blobs
        BY <3>2 DEF PushQueue, Blobs
      <4>2. Chunks[push] # 0
        BY <4>1, Geometry DEF MS!Cells
      <4>. QED  BY <3>2, <4>2 DEF PushQueue
    <3>3. CASE \/ RevertErased \/ RevertWrap \/ PushStart \/ DownloadChunk \/ DownloadFails
               \/ PushValidate \/ RevertErase \/ \E b \in Models : PushArrives(b)
      BY <3>3
      DEF RevertErased, RevertWrap, PushStart, DownloadChunk, DownloadFails, PushValidate,
          RevertErase, PushArrives
    <3>. QED  BY <1>2, <3>1, <3>2, <3>3 DEF Elsewhere, PumpStep, XferStep
  <2>. QED  BY <2>0, <2>1, <2>2
<1>3. CASE Reset
  BY <1>3 DEF Reset, Booting, PumpIdle
<1>4. CASE UNCHANGED vars
  BY <1>4 DEF vars, engine, Running
<1>. QED  BY <1>1, <1>2, <1>3, <1>4, NextCases

THEOREM BootInvariance == Spec => []BootInv
<1>. QED  BY InitBootInv, TypeInvariance, BootStep, PTL DEF Spec

(* A boot builds the interpreter over one complete model or none: the slot  *)
(* a reset or a concurrent download left half-written never gets that far.  *)
THEOREM BootsWholeModel == Spec => []BootModelWhole
<1>1. BootInv => BootModelWhole
  BY DEF BootInv, BootModelWhole, Running
<1>. QED  BY <1>1, BootInvariance, PTL

-----------------------------------------------------------------------------
(* One push or revert at a time.  The invariant follows one model from the  *)
(* buffer it is written to (Buffers), through staging and the engine        *)
(* (EngineInTurn), to the slot (SlotLoadable, Reverts); OneAtATime says     *)
(* that meanwhile nobody else writes to any of them.                        *)
Queued == HeaderName(pend)

OneAtATime ==
  /\ push # NoBlob \/ pump.pc # "idle" => pendLen = 0 /\ ai.pc \in {"idle", "halted"}
  /\ push = NoBlob \/ pump.pc = "idle"

(* The pending buffer holds the model that is queued; a download that       *)
(* begins with its header cannot validate as another model; model-revert    *)
(* fills it from the end.                                                   *)
Buffers ==
  /\ pendLen # 0 =>
       Queued \in Blobs /\ MS!Holds(pend, Queued) /\ pendLen = Chunks[Queued]
  /\ (xfer.pc = "download" /\ xfer.at > 1) \/ xfer.pc = "validate" =>
       pend[1] \in {MS!Chunk(push, 1), Garbage}
  /\ xfer.pc = "queue" => MS!Holds(pend, push)
  /\ pump.pc = "wrap" =>
       \A i \in 1..Chunks[Builtin] : i > pump.at => pend[i] = MS!Chunk(Builtin, i)
  /\ pump.pc = "queue" => MS!Holds(pend, Builtin)

(* What is reported between two frames, see NameIsRunning.                  *)
Serves ==
  /\ inited => name # NoBlob
  /\ name # NoBlob =>
       /\ MS!Holds(staging, name)
       /\ \/ inited /\ ran = name
          \/ Kind[name] \notin Accept /\ (scene.builtin => name = Builtin)

(* A boot that finds a model finds one that was accepted, so it never       *)
(* erases the slot and has no engine when it falls back; a swap copies all  *)
(* of the queued model, no more, and saves it only under its own name.      *)
EngineInTurn ==
  /\ ai.pc \in {"boot", "fallback"} => ~ inited
  /\ ai.pc \notin {"bootErase", "bootErasing"}
  /\ ai.pc = "bootStage" => Kind[Queued] \in Accept /\ Queued # Builtin
  /\ ai.pc = "bootApply" => Kind[name] \in Accept
  /\ ai.pc \in {"infer", "idle", "finish"} => Serves
  /\ ai.pc \in SwapPcs => ai.len = pendLen
  /\ ai.pc = "copy" =>
       ai.copy = pendLen /\ \A i \in 1..ai.copy : i < ai.at => staging[i] = pend[i]
  /\ ai.pc = "apply" => MS!Holds(staging, Queued)
  /\ ai.pc \in {"save", "saving", "reload"} => Running /\ name = Queued
  /\ ai.pc \in {"save", "saving"} =>
       name # Builtin /\ Kind[name] \in Accept /\ inited /\ ran = name
  /\ ai.pc = "reload" => Kind[name] \notin Accept
  /\ ~ Alive => \E b \in Blobs : MS!Holds(staging, b) /\ Kind[b] # "good"

(* Once model-revert is done, or has erased, nothing is stored but what the *)
(* erase failed to clear, up to the next push.                              *)
OnlySpared == \A b \in Blobs : MS!Holds(slot, b) => b = spared

Reverts ==
  /\ pump.pc \in {"wrap", "queue"} \/ reverted => OnlySpared
  /\ reverted /\ pendLen # 0 => Queued = Builtin

TurnInv == OneAtATime /\ Buffers /\ EngineInTurn /\ Reverts /\ SlotLoadable
SerialInv == scene.serial => TurnInv

LEMMA InitSerialInv == Init => SerialInv
<1>. SUFFICES ASSUME Init PROVE TurnInv
  BY DEF SerialInv
<1>1. \A b \in Blobs : ~ MS!Holds(slot, b)
  BY Geometry DEF Init, MS!Init, MS!Holds
<1>2. OneAtATime /\ Buffers /\ EngineInTurn
  BY DEF Init, OneAtATime, Buffers, EngineInTurn, Booting, Alive, XferIdle, PumpIdle, SwapPcs
<1>3. Reverts /\ SlotLoadable
  BY <1>1 DEF Init, Reverts, SlotLoadable, OnlySpared, PumpIdle
<1>. QED  BY <1>2, <1>3 DEF TurnInv

(* In turn, the AI thread steps only with no push and no revert under way,  *)
(* but to infer; the other two tasks only while it is between two frames    *)
(* with nothing queued.                                                     *)
LEMMA Turns ==
  ASSUME TypeInv, BootInv, OneAtATime, scene.serial
  PROVE  /\ AIStep => \/ push = NoBlob /\ pump.pc = "idle" /\ xfer.pc = "idle"
                      \/ Infer /\ ai.pc = "idle" /\ pendLen = 0
         /\ Elsewhere => pendLen = 0 /\ ai.pc = "idle"
<1>0. /\ ai.pc \in AIPcs /\ (xfer.pc # "idle" => push \in Models)
      /\ \A b \in Models : b # NoBlob
  BY Geometry DEF TypeInv, AITypes, TaskTypes, Blobs
<1>1. ASSUME AIStep PROVE \/ push = NoBlob /\ pump.pc = "idle"
                          \/ Infer /\ ai.pc = "idle" /\ pendLen = 0
  <2>1. \/ ai.pc \notin {"idle", "halted"} \/ pendLen # 0
        \/ Infer /\ ai.pc = "idle"
    BY <1>1
    DEF AIStep, BootLoad, BootStage, BootApply, BootErase, BootErased, BootFallback,
        BootBuiltin, SwapStart, CopyChunk, CopyPast, SwapApply, SaveSwapped, SaveStep,
        Reload, ReloadBuiltin, SwapFinish, Infer
  <2>. QED  BY <2>1 DEF OneAtATime
<1>2. ASSUME Elsewhere PROVE pendLen = 0 /\ ai.pc = "idle"
  <2>1. CASE PumpStep
    BY <2>1 DEF PumpStep, RevertErased, RevertWrap, RevertQueue, OneAtATime, Alive
  <2>2. CASE XferStep
    <3>1. push # NoBlob /\ Alive
      BY <1>0, <2>2
      DEF XferStep, PushStart, DownloadChunk, DownloadFails, PushValidate, PushQueue
    <3>. QED  BY <3>1 DEF OneAtATime, Alive
  <2>3. CASE RevertErase \/ \E b \in Models : PushArrives(b)
    BY <2>3 DEF RevertErase, PushArrives, Quiet
  <2>. QED  BY <1>2, <2>1, <2>2, <2>3 DEF Elsewhere
<1>. QED  BY <1>0, <1>1, <1>2

LEMMA InferLeaves ==
  Infer => UNCHANGED <<flash, pend, pendLen, engine, push, xfer, pump, ran, hist>>
  BY DEF Infer

(* In turn the copy stays inside the buffers.                               *)
LEMMA NeverPast ==
  ASSUME TypeInv, BootInv, EngineInTurn, CopyPast
  PROVE  FALSE
<1>1. ai.pc = "copy" /\ ai.at = PastEnd /\ ai.copy = pendLen
  BY DEF CopyPast, EngineInTurn
<1>2. /\ ai.at \in 1..ai.copy /\ pendLen \in 0..SlotChunks /\ SlotChunks \in Nat
  BY <1>1, Geometry DEF TypeInv, AITypes, DataTypes
<1>. QED  BY <1>1, <1>2 DEF PastEnd

(* What a step can do to the slot. *)
LEMMA SlotChanges ==
  ASSUME TypeInv, [Next]_vars
  PROVE  \/ Spoils
         \/ /\ AIStep /\ ai.pc = "saving" /\ Programs(pend, task["ai"].len)
            /\ pend' = pend /\ name' = name
<1>0. /\ MS!TypeOK /\ "ai" \in Tasks /\ "pump" \in Tasks /\ pend \in Region
      /\ ai.len \in 0..SlotChunks
  BY DEF TypeInv, StoreUse, DataTypes, AITypes, Tasks
<1>1. slot' = slot => Spoils
  BY DEF Spoils
<1>2. CASE AIStep
  <2>1. CASE BootLoad
    BY <1>0, <1>1, <2>1, LoadStep DEF BootLoad
  <2>2. CASE BootErase
    BY <1>0, <1>1, <2>2, DiscardStep DEF BootErase
  <2>3. CASE BootErased
    BY <1>0, <2>3, EraseSectorStep DEF BootErased
  <2>4. CASE SaveSwapped
    BY <1>0, <1>1, <2>4, CallStep DEF SaveSwapped
  <2>5. CASE SaveStep
    <3>1. SaveWork("ai", pend) /\ task["ai"].len \in MS!Cells /\ ai.pc = "saving"
      BY <2>5 DEF SaveStep, SaveWork, TypeInv, StoreUse
    <3>2. Spoils \/ Programs(pend, task["ai"].len)
      BY <1>0, <3>1, SaveWorkStep
    <3>. QED  BY <1>2, <2>5, <3>1, <3>2 DEF SaveStep, engine
  <2>6. CASE \/ BootStage \/ BootApply \/ BootFallback \/ BootBuiltin \/ SwapStart
             \/ CopyChunk \/ CopyPast \/ SwapApply \/ Reload \/ ReloadBuiltin \/ SwapFinish
             \/ Infer
    BY <1>1, <2>6, FlashUntouched DEF flash
  <2>. QED  BY <1>2, <2>1, <2>2, <2>3, <2>4, <2>5, <2>6 DEF AIStep
<1>3. CASE Elsewhere
  <2>1. CASE RevertErase
    BY <1>0, <1>1, <2>1, DiscardStep DEF RevertErase
  <2>2. CASE RevertErased
    BY <1>0, <2>2, EraseSectorStep DEF RevertErased
  <2>3. CASE RevertWrap \/ RevertQueue \/ XferStep \/ \E b \in Models : PushArrives(b)
    BY <1>1, <2>3, FlashUntouched DEF flash
  <2>. QED  BY <1>3, <2>1, <2>2, <2>3 DEF Elsewhere, PumpStep
<1>4. CASE Reset
  BY <1>0, <1>4, StoreResetStep DEF Reset
<1>5. CASE UNCHANGED vars
  BY <1>1, <1>5 DEF vars, flash
<1>. QED  BY <1>2, <1>3, <1>4, <1>5, NextCases

LEMMA OneAtATimeStep ==
  ASSUME TypeInv, BootInv, scene.serial, OneAtATime, [Next]_vars
  PROVE  OneAtATime'
<1>. USE DEF OneAtATime
<1>1. CASE AIStep
  <2>1. Infer => ai'.pc \in {"idle", "halted"} /\ UNCHANGED pendLen
    BY DEF Infer, IdleAI, Halted
  <2>. QED  BY <1>1, <2>1, Turns, AILeavesOthers
<1>2. CASE Elsewhere
  <2>0. ai' = ai /\ ai.pc = "idle" /\ pendLen = 0
    BY <1>2, Turns, ElsewhereLeavesModel
  <2>1. CASE RevertErased
    BY <2>0, <2>1 DEF RevertErased
  <2>2. CASE RevertWrap
    BY <2>0, <2>2 DEF RevertWrap
  <2>3. CASE RevertQueue
    BY <2>0, <2>3 DEF RevertQueue, PumpIdle
  <2>4. CASE PushStart
    BY <2>0, <2>4 DEF PushStart
  <2>5. CASE DownloadChunk
    BY <2>0, <2>5 DEF DownloadChunk
  <2>6. CASE DownloadFails
    BY <2>0, <2>6 DEF DownloadFails, PushDone
  <2>7. CASE PushValidate
    BY <2>0, <2>7 DEF PushValidate, PushDone
  <2>8. CASE PushQueue
    <3>1. push # NoBlob
      BY <2>8, Geometry DEF PushQueue, TypeInv, TaskTypes, Blobs
    <3>. QED  BY <2>0, <2>8, <3>1 DEF PushQueue, PushDone
  <2>9. CASE RevertErase
    BY <2>0, <2>9 DEF RevertErase, Quiet
  <2>10. CASE \E b \in Models : PushArrives(b)
    BY <2>0, <2>10 DEF PushArrives
  <2>. QED
    BY <1>2, <2>1, <2>2, <2>3, <2>4, <2>5, <2>6, <2>7, <2>8, <2>9, <2>10
    DEF Elsewhere, PumpStep, XferStep
<1>3. CASE Reset
  BY <1>3 DEF Reset, PumpIdle
<1>4. CASE UNCHANGED vars
  BY <1>4 DEF vars
<1>. QED  BY <1>1, <1>2, <1>3, <1>4, NextCases

(* The AI thread leaves what is queued alone, unless its copy goes astray.  *)
LEMMA QueueKept ==
  BootInv /\ AIStep /\ ~ CopyPast => pendLen' = 0 \/ (pendLen' = pendLen /\ pend' = pend)
  BY DEF AIStep, BootLoad, BootStage, BootApply, BootErase, BootErased, BootFallback,
      BootBuiltin, SwapStart, CopyChunk, SwapApply, SaveSwapped, SaveStep, Reload,
      ReloadBuiltin, SwapFinish, Infer, BootInv, BootPcs

LEMMA BuffersStep ==
  ASSUME TypeInv, BootInv, scene.serial, OneAtATime, Buffers, EngineInTurn, [Next]_vars
  PROVE  Buffers'
<1>0. /\ pend \in Region /\ SlotChunks \in Nat
      /\ pump \in [pc : {"idle", "erasing", "wrap", "queue"}, at : 0..SlotChunks]
      /\ xfer \in [pc : {"idle", "download", "validate", "queue"},
                   at : 0..SlotChunks, attempt : 0..MaxAttempts]
      /\ xfer.pc # "idle" => push \in Models
      /\ \A b \in Models : b \in Blobs /\ b # NoBlob
      /\ Builtin \in Blobs /\ Chunks[Builtin] \in 1..SlotChunks
  BY Geometry DEF TypeInv, DataTypes, TaskTypes, Blobs, MS!Cells
<1>1. CASE AIStep
  <2>1. UNCHANGED <<push, xfer, pump>>
    BY <1>1, AILeavesOthers
  <2>2. CASE Infer
    BY <2>1, <2>2 DEF Infer, Buffers, Queued
  <2>3. CASE ~ Infer
    <3>1. pump.pc = "idle" /\ xfer.pc = "idle"
      BY <1>1, <2>3, Turns
    <3>2. pendLen' = 0 \/ (pendLen' = pendLen /\ pend' = pend)
      BY <1>1, <2>3, NeverPast, QueueKept
    <3>. QED  BY <2>1, <3>1, <3>2 DEF Buffers, Queued
  <2>. QED  BY <2>2, <2>3
<1>2. CASE Elsewhere
  <2>0. pendLen = 0
    BY <1>2, Turns
  <2>1. CASE RevertErased
    <3>1. pend' = pend /\ pendLen' = 0 /\ xfer' = xfer /\ push' = push
      BY <2>0, <2>1 DEF RevertErased
    <3>2. pump' = PumpIdle \/ pump' = [pc |-> "wrap", at |-> Chunks[Builtin]]
      BY <2>1 DEF RevertErased
    <3>. QED  BY <1>0, <3>1, <3>2 DEF Buffers, PumpIdle
  <2>2. CASE RevertWrap
    <3>1. /\ pump.at \in 1..Chunks[Builtin] /\ pump.at \in MS!Cells
          /\ xfer.pc = "idle" /\ xfer' = xfer /\ pendLen' = 0
      BY <1>0, <2>0, <2>2 DEF RevertWrap, TypeInv, TaskTypes, MS!Cells, OneAtATime
    <3>2. \A i \in 1..Chunks[Builtin] : i >= pump.at => pend'[i] = MS!Chunk(Builtin, i)
      <4>1. pend' = [pend EXCEPT ![pump.at] = MS!Chunk(Builtin, pump.at)]
        BY <2>2 DEF RevertWrap
      <4>2. ASSUME NEW i \in 1..Chunks[Builtin], i >= pump.at
            PROVE  pend'[i] = MS!Chunk(Builtin, i)
        <5>1. i \in MS!Cells
          BY <1>0 DEF MS!Cells
        <5>2. i # pump.at => i > pump.at
          BY <3>1, <4>2
        <5>. QED  BY <1>0, <2>2, <4>1, <5>1, <5>2 DEF Buffers, RevertWrap, Region
      <4>. QED  BY <4>2
    <3>3. CASE pump.at > 1
      <4>1. pump'.pc = "wrap" /\ pump'.at = pump.at - 1
        BY <1>0, <2>2, <3>3 DEF RevertWrap
      <4>2. \A i \in 1..Chunks[Builtin] : i > pump.at - 1 => i >= pump.at
        BY <3>1
      <4>. QED  BY <3>1, <3>2, <4>1, <4>2 DEF Buffers
    <3>4. CASE ~ (pump.at > 1)
      <4>1. pump'.pc = "queue" /\ pump.at = 1
        BY <1>0, <2>2, <3>1, <3>4 DEF RevertWrap
      <4>2. MS!Holds(pend', Builtin)
        BY <3>2, <4>1 DEF MS!Holds
      <4>. QED  BY <3>1, <4>1, <4>2 DEF Buffers
    <3>. QED  BY <3>3, <3>4
  <2>3. CASE RevertQueue
    <3>1. /\ MS!Holds(pend, Builtin) /\ pend' = pend /\ pendLen' = Chunks[Builtin]
          /\ pump'.pc = "idle" /\ xfer' = xfer /\ push' = push
      BY <2>3 DEF RevertQueue, Buffers, PumpIdle
    <3>2. Queued = Builtin
      BY <1>0, <3>1, HeaderTells DEF Queued
    <3>. QED  BY <1>0, <3>1, <3>2 DEF Buffers, Queued
  <2>4. CASE PushStart
    BY <2>0, <2>4 DEF PushStart, Buffers
  <2>5. CASE DownloadChunk
    <3>1. /\ push \in Blobs /\ xfer.at \in 1..Chunks[push] /\ xfer.at \in MS!Cells
          /\ push # NoBlob
      BY <1>0, <2>5, Geometry DEF DownloadChunk, TypeInv, TaskTypes, MS!Cells
    <3>2. PICK cell \in {MS!Chunk(push, xfer.at), Garbage} :
            pend' = [pend EXCEPT ![xfer.at] = cell]
      BY <2>5 DEF DownloadChunk
    <3>3. pend'[1] \in {MS!Chunk(push, 1), Garbage}
      <4>1. CASE xfer.at = 1
        BY <1>0, <3>1, <3>2, <4>1 DEF Region
      <4>2. CASE xfer.at # 1
        BY <1>0, <2>5, <3>1, <3>2, <4>2, Geometry DEF Region, Buffers, DownloadChunk
      <4>. QED  BY <4>1, <4>2
    <3>4. pump.pc = "idle" /\ pump' = pump /\ pendLen' = 0 /\ push' = push
      BY <2>0, <2>5, <3>1 DEF DownloadChunk, OneAtATime
    <3>5. xfer'.pc \in {"download", "validate"}
      BY <1>0, <2>5 DEF DownloadChunk
    <3>. QED  BY <3>3, <3>4, <3>5 DEF Buffers
  <2>6. CASE DownloadFails
    <3>1. xfer'.pc = "idle" \/ (xfer'.pc = "download" /\ xfer'.at = 1)
      <4>1. CASE xfer' = [xfer EXCEPT !.at = 1, !.attempt = @ + 1]
        BY <1>0, <2>6, <4>1 DEF DownloadFails
      <4>2. CASE xfer' = XferIdle
        BY <4>2 DEF XferIdle
      <4>. QED  BY <2>6, <4>1, <4>2 DEF DownloadFails, PushDone
    <3>. QED  BY <2>0, <2>6, <3>1 DEF DownloadFails, Buffers
  <2>7. CASE PushValidate
    <3>0. pend' = pend /\ pendLen' = 0 /\ pump' = pump
      BY <2>0, <2>7 DEF PushValidate
    <3>1. CASE MS!Validates(pend, Chunks[push])
      <4>1. PICK b \in Blobs : MS!Holds(pend, b)
        BY <3>1 DEF MS!Validates
      <4>2. pend[1] = MS!Chunk(b, 1) /\ pend[1] # Garbage
        BY <4>1, Geometry DEF MS!Holds
      <4>3. pend[1] = MS!Chunk(push, 1)
        BY <2>7, <4>2 DEF PushValidate, Buffers
      <4>4. b = push
        BY <4>2, <4>3 DEF MS!Chunk
      <4>5. xfer'.pc = "queue" /\ push' = push
        BY <1>0, <2>7, <3>1 DEF PushValidate
      <4>. QED  BY <3>0, <4>1, <4>4, <4>5 DEF Buffers
    <3>2. CASE ~ MS!Validates(pend, Chunks[push])
      BY <2>7, <3>0, <3>2 DEF PushValidate, PushDone, XferIdle, Buffers
    <3>. QED  BY <3>1, <3>2
  <2>8. CASE PushQueue
    <3>1. /\ MS!Holds(pend, push) /\ push \in Blobs /\ pend' = pend
          /\ pendLen' = Chunks[push] /\ pump' = pump /\ xfer'.pc = "idle"
      BY <1>0, <2>0, <2>8 DEF PushQueue, PushDone, XferIdle, Buffers
    <3>2. Queued = push
      BY <3>1, HeaderTells DEF Queued
    <3>. QED  BY <1>0, <3>1, <3>2 DEF Buffers, Queued
  <2>9. CASE RevertErase
    BY <1>0, <2>0, <2>9 DEF RevertErase, Buffers
  <2>10. CASE \E b \in Models : PushArrives(b)
    <3>1. xfer.pc = "idle"
      BY <1>0, <2>10, Geometry DEF PushArrives, Quiet
    <3>. QED  BY <2>0, <2>10, <3>1 DEF PushArrives, Buffers
  <2>. QED
    BY <1>2, <2>1, <2>2, <2>3, <2>4, <2>5, <2>6, <2>7, <2>8, <2>9, <2>10
    DEF Elsewhere, PumpStep, XferStep
<1>3. CASE Reset
  BY <1>3 DEF Reset, PumpIdle, XferIdle, Buffers
<1>4. CASE UNCHANGED vars
  BY <1>4 DEF vars, Buffers, Queued
<1>. QED  BY <1>1, <1>2, <1>3, <1>4, NextCases

LEMMA EngineInTurnStep ==
  ASSUME TypeInv, BootInv, scene.serial, TurnInv, [Next]_vars
  PROVE  EngineInTurn'
<1>0. /\ EngineInTurn /\ Buffers /\ BootInv /\ SlotLoadable /\ SlotChunks \in Nat
      /\ ai \in [pc : AIPcs, len : 0..SlotChunks, at : 0..PastEnd, copy : 0..PastEnd]
      /\ pend \in Region /\ staging \in Region /\ name \in Blobs \cup {NoBlob}
      /\ Builtin \in Blobs
  BY Geometry DEF TurnInv, TypeInv, AITypes, DataTypes, Blobs
<1>1. CASE AIStep
  <2>1. CASE BootLoad
    <3>1. /\ ai'.pc \in {"bootStage", "fallback"} /\ UNCHANGED <<engine, pendLen>>
          /\ ~ inited
      BY <1>0, <2>1 DEF BootLoad, EngineInTurn
    <3>2. ASSUME ai'.pc = "bootStage"
          PROVE  Kind[Queued'] \in Accept /\ Queued' # Builtin
      <4>1. PICK b \in Blobs : MS!Holds(slot, b) /\ pend' = slot
        BY <2>1, <3>2, BootLoadFinds
      <4>2. Queued' = b
        BY <4>1, HeaderTells DEF Queued
      <4>3. Kind[b] \in Accept /\ b # Builtin
        BY <1>0, <4>1 DEF SlotLoadable
      <4>. QED  BY <4>2, <4>3
    <3>. QED  BY <3>1, <3>2 DEF EngineInTurn, SwapPcs, Alive, engine
  <2>2. CASE BootStage
    <3>1. PICK b \in Blobs : MS!Holds(pend, b)
      BY <1>0, <2>2 DEF BootStage, BootInv
    <3>2. name' = b /\ Queued = b
      BY <2>2, <3>1, BootStageCopies, HeaderTells DEF Queued
    <3>3. ai'.pc = "bootApply" /\ Kind[name'] \in Accept
      BY <1>0, <2>2, <3>2 DEF BootStage, EngineInTurn
    <3>. QED  BY <3>3 DEF EngineInTurn, SwapPcs, Alive
  <2>3. CASE BootApply
    <3>1. /\ Running /\ ApplyOutcomes(staging) = {Kind[name]} /\ Kind[name] \in Accept
          /\ name # NoBlob
      BY <1>0, <2>3, HeaderTells, Geometry DEF BootApply, BootInv, EngineInTurn, Running
    <3>2. /\ ai'.pc = "infer" /\ UNCHANGED <<staging, name, scene>> /\ ran' = name
      BY <2>3, <3>1 DEF BootApply, Accepted, Inferring, hist
    <3>3. inited'
      BY <2>3, <3>1 DEF BootApply, Apply
    <3>. QED  BY <3>1, <3>2, <3>3 DEF EngineInTurn, SwapPcs, Alive, Running, Serves
  <2>4. CASE BootErase \/ BootErased
    BY <1>0, <2>4 DEF BootErase, BootErased, EngineInTurn
  <2>5. CASE BootFallback
    <3>1. ai'.pc = "bootBuiltin" \/ (ai'.pc = "infer" /\ ~ inited' /\ name' = NoBlob)
      BY <1>0, <2>5 DEF BootFallback, EngineInTurn, Inferring
    <3>. QED  BY <3>1 DEF EngineInTurn, SwapPcs, Alive, Serves
  <2>6. ASSUME StageBuiltin, scene' = scene
        PROVE  /\ Serves' /\ MS!Holds(staging', Builtin)
    <3>1. ASSUME NEW i \in 1..Chunks[Builtin] PROVE staging'[i] = MS!Chunk(Builtin, i)
      BY <1>0, <2>6, <3>1, Geometry DEF StageBuiltin, MS!Cells
    <3>2. MS!Holds(staging', Builtin) /\ name' = Builtin /\ Builtin # NoBlob
      BY <1>0, <2>6, <3>1, Geometry DEF StageBuiltin, MS!Holds
    <3>3. Kind[Builtin] \in Accept => inited' /\ ran' = Builtin
      BY <2>6 DEF StageBuiltin, Apply, Accepted
    <3>. QED  BY <3>2, <3>3 DEF Serves
  <2>7. CASE BootBuiltin
    <3>1. StageBuiltin /\ scene' = scene
      BY <2>7 DEF BootBuiltin, hist
    <3>2. \/ ai'.pc = "infer"
          \/ ai'.pc = "halted" /\ Kind[Builtin] # "good"
      BY <2>7 DEF BootBuiltin, Inferring, Halted, Accept
    <3>. QED  BY <1>0, <2>6, <3>1, <3>2 DEF EngineInTurn, SwapPcs, Alive
  <2>8. CASE SwapStart
    <3>1. /\ Queued \in Blobs /\ MS!Holds(pend, Queued) /\ pendLen = Chunks[Queued]
      BY <1>0, <2>8 DEF SwapStart, Buffers
    <3>2. HeaderLens(pend) = {pendLen} /\ pendLen # 0
      BY <2>8, <3>1, HeaderTells DEF SwapStart
    <3>3. ai' = [pc |-> "copy", len |-> pendLen, at |-> 1, copy |-> pendLen]
      BY <2>8, <3>2 DEF SwapStart, CopyStart
    <3>4. UNCHANGED <<pend, pendLen, staging>>
      BY <2>8 DEF SwapStart
    <3>5. \A i \in 1..pendLen : ~ (i < 1)
      OBVIOUS
    <3>. QED  BY <3>3, <3>4, <3>5 DEF EngineInTurn, SwapPcs, Alive
  <2>9. CASE CopyChunk
    <3>1. /\ ai.at \in 1..ai.copy /\ ai.copy = pendLen /\ ai.len = pendLen
          /\ \A i \in 1..ai.copy : i < ai.at => staging[i] = pend[i]
          /\ staging' = [staging EXCEPT ![ai.at] = pend[ai.at]]
          /\ UNCHANGED <<pend, pendLen>>
      BY <1>0, <2>9 DEF CopyChunk, EngineInTurn, SwapPcs, TypeInv, AITypes
    <3>2. \A i \in 1..ai.copy : i <= ai.at => staging'[i] = pend[i]
      <4>1. ASSUME NEW i \in 1..ai.copy, i <= ai.at PROVE staging'[i] = pend[i]
        <5>1. i \in MS!Cells
          BY <1>0, <3>1 DEF MS!Cells
        <5>2. i # ai.at => i < ai.at
          BY <3>1, <4>1
        <5>. QED  BY <1>0, <3>1, <5>1, <5>2 DEF Region
      <4>. QED  BY <4>1
    <3>3. CASE ai.at < ai.copy
      <4>1. /\ ai'.pc = "copy" /\ ai'.at = ai.at + 1 /\ ai'.len = ai.len
            /\ ai'.copy = ai.copy
        BY <1>0, <2>9, <3>3 DEF CopyChunk
      <4>2. \A i \in 1..ai.copy : i < ai.at + 1 => i <= ai.at
        BY <3>1
      <4>. QED  BY <3>1, <3>2, <4>1, <4>2 DEF EngineInTurn, SwapPcs, Alive
    <3>4. CASE ~ (ai.at < ai.copy)
      <4>1. ai'.pc = "apply" /\ ai'.len = ai.len /\ ai.at = ai.copy
        BY <1>0, <2>9, <3>1, <3>4 DEF CopyChunk
      <4>2. /\ Queued \in Blobs /\ MS!Holds(pend, Queued) /\ pendLen = Chunks[Queued]
        BY <1>0, <2>9, <3>1 DEF Buffers
      <4>3. \A i \in 1..Chunks[Queued] : staging'[i] = pend[i]
        BY <3>1, <3>2, <4>1, <4>2
      <4>4. MS!Holds(staging', Queued)
        BY <4>2, <4>3, HoldsCopies
      <4>. QED  BY <3>1, <4>1, <4>4 DEF EngineInTurn, SwapPcs, Alive, Queued
    <3>. QED  BY <3>3, <3>4
  <2>10. CASE SwapApply
    <3>1. /\ name' = Queued /\ UNCHANGED <<pend, pendLen, staging>>
          /\ ai.len = pendLen /\ pendLen # 0 /\ Queued' = Queued
      BY <1>0, <2>10 DEF SwapApply, Queued, EngineInTurn, BootInv, SwapPcs
    <3>2. Queued \in Blobs /\ MS!Holds(staging, Queued)
      BY <1>0, <2>10, <3>1 DEF Buffers, SwapApply, EngineInTurn
    <3>3. ApplyOutcomes(staging) = {Kind[Queued]}
      BY <3>2, HeaderTells
    <3>4. CASE Kind[Queued] \in Accept
      <4>1. /\ ai'.pc \in {"finish", "save"} /\ ai'.len = ai.len
            /\ ai'.pc = "save" => Queued # Builtin
            /\ inited' /\ ran' = Queued
        BY <1>0, <2>10, <3>1, <3>3, <3>4 DEF SwapApply, Apply, Accepted
      <4>2. Queued # NoBlob
        BY <3>2, Geometry
      <4>. QED
        BY <3>1, <3>2, <3>4, <4>1, <4>2 DEF EngineInTurn, SwapPcs, Alive, Running, Serves
    <3>5. CASE Kind[Queued] \notin Accept
      <4>0. Kind[Queued] # "crash"
        BY <3>2, Geometry DEF Outcomes
      <4>1. ai'.pc = "reload" /\ ai'.len = ai.len
        BY <1>0, <2>10, <3>3, <3>5, <4>0 DEF SwapApply
      <4>. QED  BY <3>1, <3>2, <3>5, <4>1 DEF EngineInTurn, SwapPcs, Alive, Running
    <3>. QED  BY <3>4, <3>5
  <2>11. CASE SaveSwapped \/ SaveStep
    <3>1. /\ UNCHANGED <<pend, pendLen, engine, ran, scene>> /\ ai.pc \in {"save", "saving"}
          /\ ai'.pc \in {"finish", "saving"} /\ ai'.len = ai.len
      BY <1>0, <2>11 DEF SaveSwapped, SaveStep, hist
    <3>2. name # NoBlob
      BY <1>0, <3>1, Geometry DEF EngineInTurn, Running
    <3>. QED
      BY <1>0, <3>1, <3>2 DEF EngineInTurn, SwapPcs, Alive, Running, Queued, engine, Serves
  <2>12. CASE Reload
    <3>1. /\ UNCHANGED <<pend, pendLen, staging, name, scene>> /\ ai.pc = "reload"
          /\ Running /\ Kind[name] \notin Accept
      BY <1>0, <2>12 DEF Reload, EngineInTurn, hist
    <3>2. ApplyOutcomes(staging) = {Kind[name]} /\ Kind[name] # "crash" /\ name # NoBlob
      BY <3>1, HeaderTells, Geometry DEF Running, Outcomes
    <3>3. /\ ai'.len = ai.len
          /\ ai'.pc = "builtin" \/ (ai'.pc = "finish" /\ ~ scene.builtin)
      BY <1>0, <2>12, <3>2 DEF Reload
    <3>. QED
      BY <1>0, <3>1, <3>2, <3>3 DEF EngineInTurn, SwapPcs, Alive, Running, Serves
  <2>13. CASE ReloadBuiltin
    <3>1. /\ UNCHANGED <<pendLen, scene>> /\ ai.pc = "builtin" /\ StageBuiltin
          /\ ai'.pc = "finish" /\ ai'.len = ai.len
      BY <1>0, <2>13 DEF ReloadBuiltin, hist
    <3>. QED  BY <1>0, <2>6, <3>1 DEF EngineInTurn, SwapPcs, Alive
  <2>14. CASE SwapFinish
    <3>1. ai'.pc = "infer" /\ UNCHANGED <<engine, ran, scene>> /\ Serves
      BY <1>0, <2>14 DEF SwapFinish, Inferring, EngineInTurn, hist
    <3>. QED  BY <3>1 DEF EngineInTurn, SwapPcs, Alive, Serves, engine
  <2>15. CASE Infer
    <3>1. UNCHANGED <<engine, ran, scene>> /\ Serves
      BY <1>0, <2>15 DEF Infer, EngineInTurn, hist
    <3>2. CASE ai' = IdleAI
      BY <3>1, <3>2 DEF IdleAI, EngineInTurn, SwapPcs, Alive, Serves, engine
    <3>3. CASE ai' = Halted /\ ~ (Works(staging) \subseteq {TRUE})
      <4>1. inited
        BY <3>3 DEF Works
      <4>2. name \in Blobs /\ MS!Holds(staging, name) /\ MS!BlobIn(staging) = name
        BY <1>0, <3>1, <4>1, HeaderTells DEF Serves
      <4>3. \A b \in Blobs : MS!Holds(staging, b) => b = name
        BY <4>2, HeaderTells
      <4>4. Kind[name] # "good"
        BY <3>3, <4>1, <4>2, <4>3 DEF Works, Accept
      <4>. QED
        BY <3>1, <3>3, <4>2, <4>4 DEF Halted, EngineInTurn, SwapPcs, Alive, engine
    <3>4. \E works \in Works(staging) : ai' = IF works THEN IdleAI ELSE Halted
      BY <2>15 DEF Infer
    <3>5. \A works \in Works(staging) : works \/ ~ (Works(staging) \subseteq {TRUE})
      BY Zenon
    <3>. QED  BY <3>2, <3>3, <3>4, <3>5, Zenon
  <2>. QED
    BY <1>0, <1>1, <2>1, <2>2, <2>3, <2>4, <2>5, <2>7, <2>8, <2>9, <2>10, <2>11, <2>12,
       <2>13, <2>14, <2>15, NeverPast DEF AIStep
<1>2. CASE Elsewhere
  <2>1. ai.pc = "idle" /\ UNCHANGED <<engine, ai, ran, scene>>
    BY <1>2, Turns, ElsewhereLeavesModel DEF TurnInv
  <2>. QED  BY <1>0, <2>1 DEF EngineInTurn, SwapPcs, Alive, Serves, engine
<1>3. CASE Reset
  <2>1. ai'.pc = "boot" /\ ~ inited'
    BY <1>3 DEF Reset, Booting
  <2>. QED  BY <2>1 DEF EngineInTurn, SwapPcs, Alive
<1>4. CASE UNCHANGED vars
  BY <1>0, <1>4 DEF vars, engine, hist, EngineInTurn, Running, Queued, Serves, Alive
<1>. QED  BY <1>1, <1>2, <1>3, <1>4, NextCases

(* A model is new in the slot only while it is being saved. *)
LEMMA SavedOnly ==
  ASSUME TypeInv, BootInv, scene.serial, TurnInv, [Next]_vars,
         NEW b \in Blobs, MS!Holds(slot', b)
  PROVE  \/ MS!Holds(slot, b)
         \/ /\ AIStep /\ ai.pc = "saving" /\ b = name
            /\ Kind[name] \in Accept /\ name # Builtin /\ name = Queued /\ pendLen # 0
<1>1. CASE Spoils
  BY <1>1, SpoiltHolds
<1>2. CASE /\ AIStep /\ ai.pc = "saving" /\ Programs(pend, task["ai"].len)
           /\ pend' = pend /\ name' = name
  <2>1. /\ name = Queued /\ name # Builtin /\ Kind[name] \in Accept
        /\ ai.len = pendLen /\ task["ai"].len = ai.len /\ pendLen # 0
    BY <1>2 DEF TurnInv, EngineInTurn, BootInv, SwapPcs, TypeInv, StoreUse
  <2>2. /\ Queued \in Blobs /\ MS!Holds(pend, Queued) /\ pendLen = Chunks[Queued]
    BY <2>1 DEF TurnInv, Buffers
  <2>3. Programs(pend, Chunks[name]) /\ name \in Blobs /\ MS!Holds(pend, name)
    BY <1>2, <2>1, <2>2
  <2>. QED  BY <1>2, <2>1, <2>3, ProgramsOnly
<1>. QED  BY <1>1, <1>2, SlotChanges

LEMMA SlotLoadableStep ==
  ASSUME TypeInv, BootInv, scene.serial, TurnInv, [Next]_vars
  PROVE  SlotLoadable'
<1>1. ASSUME NEW b \in Blobs, MS!Holds(slot', b)
      PROVE  Kind[b] \in Accept /\ b # Builtin
  BY <1>1, SavedOnly DEF TurnInv, SlotLoadable
<1>. QED  BY <1>1 DEF SlotLoadable

LEMMA RevertsStep ==
  ASSUME TypeInv, BootInv, scene.serial, TurnInv, [Next]_vars
  PROVE  Reverts'
<1>0. /\ Reverts /\ OneAtATime /\ Buffers /\ Builtin \in Blobs
      /\ pump \in [pc : {"idle", "erasing", "wrap", "queue"}, at : 0..SlotChunks]
  BY DEF TurnInv, TypeInv, TaskTypes, Blobs
<1>1. ASSUME OnlySpared, spared' = spared,
             ~ (AIStep /\ ai.pc = "saving" /\ pendLen # 0 /\ Queued # Builtin)
      PROVE  OnlySpared'
  BY <1>1, SavedOnly DEF OnlySpared
<1>2. CASE AIStep
  <2>1. UNCHANGED <<pump, reverted, spared>>
    BY <1>2, AILeavesOthers DEF hist
  <2>2. CASE Infer
    BY <1>0, <2>1, <2>2 DEF Infer, flash, Reverts, OnlySpared, Queued
  <2>3. CASE ~ Infer
    <3>1. pump.pc = "idle"
      BY <1>0, <1>2, <2>3, Turns
    <3>2. pendLen' = 0 \/ (pendLen' = pendLen /\ pend' = pend)
      BY <1>2, <2>3, NeverPast, QueueKept DEF TurnInv
    <3>. QED  BY <1>0, <1>1, <2>1, <3>1, <3>2 DEF Reverts, Queued
  <2>. QED  BY <2>2, <2>3
<1>3. CASE Elsewhere
  <2>0. pendLen = 0 /\ ai.pc = "idle" /\ (OnlySpared /\ spared' = spared => OnlySpared')
    BY <1>0, <1>1, <1>3, Turns
  <2>1. CASE RevertErase
    <3>1. pump'.pc = "erasing" /\ UNCHANGED <<reverted, spared, pendLen>>
      BY <1>0, <2>1 DEF RevertErase, hist
    <3>. QED  BY <1>0, <2>0, <3>1 DEF Reverts
  <2>2. CASE RevertErased
    <3>1. ASSUME NEW b \in Blobs, MS!Holds(slot', b) PROVE b = spared'
      <4>1. slot'[1] # Erased /\ Chunks[b] <= SlotChunks
        BY <3>1, Geometry DEF MS!Holds, MS!Cells
      <4>2. reply'["pump"].rc # 0
        BY <2>2, <4>1, EraseSectorStep DEF RevertErased, TypeInv, StoreUse, Tasks
      <4>3. MS!Validates(slot', SlotChunks) /\ MS!BlobIn(slot') = b
        BY <3>1, <4>1, HeaderTells DEF MS!Validates
      <4>. QED  BY <2>2, <4>2, <4>3 DEF RevertErased
    <3>2. pendLen' = 0
      BY <2>0, <2>2 DEF RevertErased
    <3>. QED  BY <3>1, <3>2 DEF Reverts, OnlySpared
  <2>3. CASE RevertWrap
    <3>1. pump.pc = "wrap" /\ UNCHANGED <<reverted, spared, pendLen>>
      BY <2>3 DEF RevertWrap, hist
    <3>. QED  BY <1>0, <2>0, <3>1 DEF Reverts
  <2>4. CASE RevertQueue
    <3>1. /\ pump'.pc = "idle" /\ UNCHANGED <<spared, pend>>
          /\ MS!Holds(pend, Builtin) /\ pump.pc = "queue"
      BY <1>0, <2>4 DEF RevertQueue, PumpIdle, Buffers
    <3>2. Queued = Builtin
      BY <1>0, <3>1, HeaderTells DEF Queued
    <3>. QED  BY <1>0, <2>0, <3>1, <3>2 DEF Reverts, Queued
  <2>5. CASE PushQueue
    <3>1. ~ reverted' /\ UNCHANGED <<pump, spared>>
      BY <2>0, <2>5 DEF PushQueue
    <3>. QED  BY <1>0, <2>0, <3>1 DEF Reverts
  <2>6. CASE \/ PushStart \/ DownloadChunk \/ DownloadFails \/ PushValidate
             \/ \E b \in Models : PushArrives(b)
    <3>1. UNCHANGED <<pump, reverted, spared, pendLen>>
      BY <2>6
      DEF PushStart, DownloadChunk, DownloadFails, PushValidate, PushArrives, hist
    <3>. QED  BY <1>0, <2>0, <3>1 DEF Reverts
  <2>. QED
    BY <1>3, <2>1, <2>2, <2>3, <2>4, <2>5, <2>6 DEF Elsewhere, PumpStep, XferStep
<1>4. CASE Reset
  <2>1. pump'.pc = "idle" /\ pendLen' = 0 /\ UNCHANGED <<reverted, spared>>
    BY <1>4 DEF Reset, PumpIdle
  <2>2. OnlySpared => OnlySpared'
    BY <1>4, <2>1, StoreResetStep, SpoiltHolds DEF Reset, TypeInv, StoreUse, OnlySpared
  <2>. QED  BY <1>0, <2>1, <2>2 DEF Reverts
<1>5. CASE UNCHANGED vars
  BY <1>0, <1>5 DEF vars, flash, hist, Reverts, OnlySpared, Queued
<1>. QED  BY <1>2, <1>3, <1>4, <1>5, NextCases

LEMMA SerialStep == TypeInv /\ BootInv /\ SerialInv /\ [Next]_vars => SerialInv'
<1>. SUFFICES ASSUME TypeInv, BootInv, SerialInv, [Next]_vars, scene'.serial
              PROVE  TurnInv'
  BY DEF SerialInv
<1>1. scene' = scene
  <2>1. AIStep \/ Elsewhere => scene' = scene
    BY AILeavesOthers, ElsewhereLeavesModel DEF hist
  <2>. QED  BY <2>1, NextCases DEF Reset, vars, hist
<1>2. scene.serial /\ TurnInv
  BY <1>1 DEF SerialInv
<1>. QED
  BY <1>2, OneAtATimeStep, BuffersStep, EngineInTurnStep, SlotLoadableStep, RevertsStep
  DEF TurnInv

THEOREM SerialInvariance == Spec => []SerialInv
<1>. QED  BY InitSerialInv, TypeInvariance, BootInvariance, SerialStep, PTL DEF Spec

(* When one push or revert is let finish before the next, what the slot     *)
(* holds is always a model this device accepted: no boot rejects and erases *)
(* it, whichever flash command fails and wherever a reset strikes.          *)
THEOREM StoredModelLoads == Spec => []SlotLoadable
<1>1. SerialInv => SlotLoadable
  BY DEF SerialInv, TurnInv, SlotLoadable
<1>. QED  BY <1>1, SerialInvariance, PTL

(* In turn the swap's copy, too, stays inside the buffers: the header whose *)
(* length it trusts is then the one that was validated.                     *)
THEOREM CopyStaysInside == Spec => []CopyInBounds
<1>1. TypeInv /\ SerialInv => CopyInBounds
  BY DEF TypeInv, DataTypes, SerialInv, TurnInv, EngineInTurn, CopyInBounds
<1>. QED  BY <1>1, TypeInvariance, SerialInvariance, PTL

(* Then the model that is reported between two frames is in staging, whole, *)
(* and is the one accepted last and infers; or it was refused, where the    *)
(* build has nothing else to load.  This says what a failed Init leaves.    *)
THEOREM ReportedModelInfers == Spec => []NameIsRunning
<1>1. SerialInv => NameIsRunning
  BY DEF SerialInv, TurnInv, EngineInTurn, NameIsRunning, Serves
<1>. QED  BY <1>1, SerialInvariance, PTL

(* The board then halts only over a model in staging that is not good,      *)
(* whatever happens to the flash.                                           *)
THEOREM HaltsForAReason == Spec => []HaltsOverBadModel
<1>1. SerialInv => HaltsOverBadModel
  BY DEF SerialInv, TurnInv, EngineInTurn, HaltsOverBadModel
<1>. QED  BY <1>1, SerialInvariance, PTL

(* A model-revert that was acknowledged, its erase successful or not,       *)
(* leaves no model that a boot could bring back, up to the next push, but   *)
(* one that the failed erase left whole.                                    *)
THEOREM RevertedStaysReverted == Spec => []RevertErasesSlot
<1>1. SerialInv => RevertErasesSlot
  BY DEF SerialInv, TurnInv, Reverts, OnlySpared, RevertErasesSlot
<1>. QED  BY <1>1, SerialInvariance, PTL
=============================================================================
