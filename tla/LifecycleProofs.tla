---------------------------- MODULE LifecycleProofs ----------------------------
(***************************************************************************)
(* HotSwap and ModelStore put together, for an operator who lets one push  *)
(* or revert finish before the next.                                       *)
(*                                                                         *)
(* ModelStore is proved correct for callers that leave their buffer alone  *)
(* during a call (Source).  HotSwap hands it the pending buffer, which     *)
(* three tasks write.  Here the model lifecycle is shown to use the store  *)
(* as ModelStore says: every step of HotSwap is a step of ModelStore or    *)
(* leaves the flash alone (StoreUsedAsSpecified).  The theorems of         *)
(* ModelStoreProofs then hold of the flash under the lifecycle, and a      *)
(* model whose save was reported comes to run after a reset.  The last     *)
(* section says how a swap ends.                                           *)
(***************************************************************************)
EXTENDS HotSwapProofs

Store == INSTANCE ModelStoreProofs WITH Clients <- Tasks

(* The store was called with the model that is queued.                      *)
SavesQueued == ai.pc = "saving" => task["ai"].blob = Queued

LEMMA InitSavesQueued == Init => SavesQueued
  BY DEF Init, SavesQueued, Booting

(* What is saved is the queued model, with its own length.                  *)
LEMMA SavedSource ==
  ASSUME TypeInv, BootInv, TurnInv, ai.pc \in {"save", "saving"}
  PROVE  /\ Queued \in Blobs /\ MS!Holds(pend, Queued) /\ MS!BlobIn(pend) = Queued
         /\ ai.len = Chunks[Queued] /\ MS!Holds(MS!Image(Queued), Queued)
         /\ MS!BlobIn(MS!Image(Queued)) = Queued
         /\ \A i \in 1..Chunks[Queued] : MS!Image(Queued)[i] = pend[i]
<1>1. ai.len = pendLen /\ pendLen # 0
  BY DEF TurnInv, EngineInTurn, BootInv, SwapPcs
<1>2. Queued \in Blobs /\ MS!Holds(pend, Queued) /\ pendLen = Chunks[Queued]
  BY <1>1 DEF TurnInv, Buffers
<1>3. ASSUME NEW i \in 1..Chunks[Queued] PROVE MS!Image(Queued)[i] = pend[i]
  <2>1. i \in MS!Cells /\ pend[i] = MS!Chunk(Queued, i)
    BY <1>2, <1>3, Geometry DEF MS!Cells, MS!Holds
  <2>. QED  BY <1>3, <2>1 DEF MS!Image
<1>4. MS!Holds(MS!Image(Queued), Queued)
  BY <1>2, <1>3, HoldsCopies
<1>. QED  BY <1>1, <1>2, <1>3, <1>4, HeaderTells

LEMMA SavesQueuedStep ==
  ASSUME TypeInv, BootInv, scene.serial, TurnInv, SavesQueued, [Next]_vars
  PROVE  SavesQueued'
<1>0. /\ ai \in [pc : AIPcs, len : 0..SlotChunks, at : 0..PastEnd, copy : 0..PastEnd]
      /\ task \in [Tasks -> MS!Task] /\ "ai" \in Tasks
  BY DEF TypeInv, AITypes, StoreUse, MS!TypeOK, Tasks
<1>1. CASE AIStep
  <2>1. CASE SaveSwapped
    <3>1. /\ MS!SaveCall("ai", pend, ai.len) /\ MS!BlobIn(pend) = Queued /\ pend' = pend
          /\ ai'.pc = "saving" => task'["ai"].pc # "idle"
      BY <1>0, <2>1, SavedSource DEF SaveSwapped
    <3>2. task'["ai"].pc = "idle" \/ task'["ai"].blob = MS!BlobIn(pend)
      BY <1>0, <3>1 DEF MS!SaveCall, MS!Return, MS!Idle
    <3>. QED  BY <3>1, <3>2 DEF SavesQueued, Queued
  <2>2. CASE SaveStep
    <3>1. /\ SaveWork("ai", pend) /\ pend' = pend /\ ai.pc = "saving"
          /\ ai'.pc = "saving" => task'["ai"].pc # "idle"
      BY <1>0, <2>2 DEF SaveStep, SaveWork
    <3>2. CASE \/ MS!EraseBlockFails("ai") \/ MS!ProgramChunkFails("ai")
               \/ MS!Verify("ai", pend)
      <4>1. \E r : MS!Return("ai", r)
        BY <3>2 DEF MS!EraseBlockFails, MS!ProgramChunkFails, MS!Verify, MS!FlashFails
      <4>. QED  BY <1>0, <3>1, <4>1 DEF MS!Return, MS!Idle, SavesQueued
    <3>3. CASE MS!SaveLock("ai") \/ MS!EraseBlock("ai") \/ MS!ProgramChunk("ai", pend)
      <4>1. task'["ai"].blob = task["ai"].blob
        <5>1. CASE MS!SaveLock("ai")
          BY <1>0, <5>1 DEF MS!SaveLock, MS!Task
        <5>2. CASE MS!EraseBlock("ai")
          BY <1>0, <5>2 DEF MS!EraseBlock, MS!Task
        <5>3. CASE MS!ProgramChunk("ai", pend)
          BY <1>0, <5>3 DEF MS!ProgramChunk, MS!Task
        <5>. QED  BY <3>3, <5>1, <5>2, <5>3
      <4>. QED  BY <3>1, <4>1 DEF SavesQueued, Queued
    <3>. QED  BY <3>1, <3>2, <3>3 DEF SaveWork
  <2>3. CASE \/ BootLoad \/ BootStage \/ BootApply \/ BootErase \/ BootErased
             \/ BootFallback \/ BootBuiltin \/ SwapStart \/ CopyChunk \/ CopyPast
             \/ SwapApply \/ Reload \/ ReloadBuiltin \/ SwapFinish \/ Infer
    <3>1. ai'.pc # "saving"
      BY <1>0, <2>3
      DEF BootLoad, BootStage, BootApply, BootErase, BootErased, BootFallback, BootBuiltin,
          SwapStart, CopyStart, CopyChunk, CopyPast, SwapApply, Reload, ReloadBuiltin,
          SwapFinish, Infer, IdleAI, Inferring, Halted
    <3>. QED  BY <3>1 DEF SavesQueued
  <2>. QED  BY <1>1, <2>1, <2>2, <2>3 DEF AIStep
<1>2. CASE Elsewhere
  <2>1. ai'.pc = "idle"
    BY <1>2, Turns, ElsewhereLeavesModel DEF TurnInv
  <2>. QED  BY <2>1 DEF SavesQueued
<1>3. CASE Reset
  BY <1>3 DEF Reset, Booting, SavesQueued
<1>4. CASE UNCHANGED vars
  BY <1>4 DEF vars, flash, SavesQueued, Queued
<1>. QED  BY <1>1, <1>2, <1>3, <1>4, NextCases

-----------------------------------------------------------------------------
(* Step simulation.  The flash is used through calls of the store; only     *)
(* while a model is saved does the store read a buffer of the lifecycle,    *)
(* and there the pending buffer is as the store's image of the model.       *)
LEMMA SaveCallStep ==
  ASSUME TypeInv, BootInv, TurnInv, SaveSwapped
  PROVE  MS!Call("ai")
<1>1. /\ ai.pc = "save" /\ MS!SaveCall("ai", pend, ai.len)
  BY DEF SaveSwapped
<1>2. /\ Queued \in Blobs /\ ai.len = Chunks[Queued] /\ MS!BlobIn(pend) = Queued
      /\ MS!Holds(pend, Queued) /\ MS!Holds(MS!Image(Queued), Queued)
      /\ MS!BlobIn(MS!Image(Queued)) = Queued
  BY <1>1, SavedSource
<1>3. /\ MS!Validates(pend, Chunks[Queued])
      /\ MS!Validates(MS!Image(Queued), Chunks[Queued])
  <2>1. Chunks[Queued] <= Chunks[Queued]
    BY <1>2, Geometry DEF MS!Cells
  <2>. QED  BY <1>2, <2>1 DEF MS!Validates
<1>4. MS!SaveCall("ai", MS!Image(Queued), Chunks[Queued])
  BY <1>1, <1>2, <1>3 DEF MS!SaveCall
<1>. QED  BY <1>2, <1>4 DEF MS!Call

LEMMA SaveWorkSteps ==
  ASSUME TypeInv, BootInv, TurnInv, SavesQueued, SaveStep
  PROVE  MS!SaveLock("ai") \/ MS!Work("ai")
<1>1. /\ ai.pc = "saving" /\ task["ai"].len = ai.len /\ MS!WithinBlob(task["ai"])
      /\ task["ai"].blob = Queued
  BY DEF SaveStep, TypeInv, StoreUse, MS!TypeOK, Tasks, SavesQueued
<1>2. /\ task["ai"].len = Chunks[Queued] /\ MS!Source("ai") = MS!Image(Queued)
      /\ \A i \in 1..Chunks[Queued] : MS!Image(Queued)[i] = pend[i]
  BY <1>1, SavedSource DEF MS!Source
<1>3. ASSUME MS!ProgramChunk("ai", pend) PROVE MS!ProgramChunk("ai", MS!Source("ai"))
  <2>1. task["ai"].at \in 1..Chunks[Queued]
    BY <1>1, <1>2, <1>3 DEF MS!ProgramChunk, MS!WithinBlob
  <2>2. MS!Source("ai")[task["ai"].at] = pend[task["ai"].at]
    BY <1>2, <2>1
  <2>. QED  BY <1>3, <2>2 DEF MS!ProgramChunk
<1>4. ASSUME MS!Verify("ai", pend) PROVE MS!Verify("ai", MS!Source("ai"))
  <2>1. (\A i \in 1..task["ai"].len : slot[i] = pend[i])
          <=> \A i \in 1..task["ai"].len : slot[i] = MS!Source("ai")[i]
    BY <1>2
  <2>. QED  BY <1>4, <2>1 DEF MS!Verify
<1>. QED  BY <1>3, <1>4 DEF SaveStep, MS!Work

LEMMA StoreStep ==
  ASSUME TypeInv, BootInv, scene.serial, TurnInv, SavesQueued, [Next]_vars
  PROVE  [MS!Next]_(MS!vars)
<1>0. "ai" \in Tasks /\ "pump" \in Tasks
  BY DEF Tasks
<1>1. UNCHANGED flash => UNCHANGED MS!vars
  BY DEF flash, MS!vars
<1>2. CASE AIStep
  <2>1. CASE BootLoad \/ BootErase \/ SaveSwapped
    <3>1. MS!Call("ai")
      BY <2>1, SaveCallStep DEF BootLoad, BootErase, MS!Call
    <3>. QED  BY <1>0, <3>1 DEF MS!Next
  <2>2. CASE BootErased \/ SaveStep
    <3>1. MS!SaveLock("ai") \/ MS!Work("ai")
      BY <2>2, SaveWorkSteps DEF BootErased, MS!Work
    <3>. QED  BY <1>0, <3>1 DEF MS!Next
  <2>. QED  BY <1>1, <1>2, <2>1, <2>2, FlashUntouched DEF AIStep
<1>3. CASE Elsewhere
  <2>1. CASE RevertErase
    <3>1. MS!Call("pump")
      BY <2>1 DEF RevertErase, MS!Call
    <3>. QED  BY <1>0, <3>1 DEF MS!Next
  <2>2. CASE RevertErased
    <3>1. MS!Work("pump")
      BY <2>2 DEF RevertErased, MS!Work
    <3>. QED  BY <1>0, <3>1 DEF MS!Next
  <2>. QED  BY <1>1, <1>3, <2>1, <2>2, FlashUntouched DEF Elsewhere, PumpStep
<1>4. CASE Reset
  BY <1>4 DEF Reset, MS!Next
<1>5. CASE UNCHANGED vars
  BY <1>1, <1>5 DEF vars
<1>. QED  BY <1>2, <1>3, <1>4, <1>5, NextCases

LEMMA SceneKept == scene.serial /\ [Next]_vars => (scene.serial)'
<1>1. AIStep \/ Elsewhere => scene' = scene
  BY AILeavesOthers, ElsewhereLeavesModel DEF hist
<1>. QED  BY <1>1, NextCases DEF Reset, vars, hist

LEMMA SceneFixed == ~ scene.serial /\ [Next]_vars => ~ (scene.serial)'
<1>1. AIStep \/ Elsewhere => scene' = scene
  BY AILeavesOthers, ElsewhereLeavesModel DEF hist
<1>. QED  BY <1>1, NextCases DEF Reset, vars, hist

InTurn == Spec /\ scene.serial

LEMMA InTurnInvariance == InTurn => [](scene.serial /\ TurnInv /\ SavesQueued)
<1>1. TypeInv /\ BootInv /\ SerialInv /\ scene.serial /\ SavesQueued /\ [Next]_vars
        => SavesQueued'
  BY SavesQueuedStep DEF SerialInv
<1>2. scene.serial /\ SerialInv => TurnInv
  BY DEF SerialInv
<1>. QED
  BY <1>1, <1>2, InitSavesQueued, SceneKept, TypeInvariance, BootInvariance,
     SerialInvariance, PTL
  DEF InTurn, Spec

(* The model lifecycle uses the flash slot as ModelStore specifies: the     *)
(* buffer it saves from keeps the queued model until the save returns,      *)
(* although three tasks share it and no lock protects it.                   *)
THEOREM StoreUsedAsSpecified == InTurn => MS!Spec
<1>1. TypeInv /\ BootInv /\ scene.serial /\ TurnInv /\ SavesQueued /\ [Next]_vars
        => [MS!Next]_(MS!vars)
  BY StoreStep
<1>2. Init => MS!Init
  BY DEF Init
<1>. QED
  BY <1>1, <1>2, InTurnInvariance, TypeInvariance, BootInvariance, PTL
  DEF InTurn, Spec, MS!Spec

-----------------------------------------------------------------------------
(* What ModelStoreProofs proves of the store therefore holds here. *)
LEMMA SameStore ==
  /\ MS!Init <=> Store!Init
  /\ [MS!Next]_(MS!vars) <=> [Store!Next]_(Store!vars)
  /\ Store!Durable => MS!Durable
<1>1. MS!Init <=> Store!Init
  BY DEF MS!Init, Store!Init, MS!Cells, Store!Cells, MS!Idle, Store!Idle,
         MS!NoReply, Store!NoReply
<1>2. MS!Next <=> Store!Next
  BY DEF
      MS!Cells, MS!Chunk, MS!Holds, MS!Validates, MS!BlobIn, MS!Image, MS!Idle,
      MS!NoReply, MS!Reply, MS!Return, MS!Unlock, MS!Fault, MS!FlashFails,
      MS!EraseBlocks, MS!SectorCells, MS!BlockCells, MS!Programmed, MS!SaveCall,
      MS!SaveLock, MS!EraseBlock, MS!EraseBlockFails, MS!ProgramChunk,
      MS!ProgramChunkFails, MS!Verify, MS!Load, MS!DiscardLock, MS!EraseSector,
      MS!InFlight, MS!Reset, MS!Source, MS!Corrupt, MS!Call, MS!Work, MS!Next,
      Store!Cells, Store!Chunk, Store!Holds, Store!Validates, Store!BlobIn,
      Store!Image, Store!Idle, Store!NoReply, Store!Reply, Store!Return,
      Store!Unlock, Store!Fault, Store!FlashFails, Store!EraseBlocks,
      Store!SectorCells, Store!BlockCells, Store!Programmed, Store!SaveCall,
      Store!SaveLock, Store!EraseBlock, Store!EraseBlockFails, Store!ProgramChunk,
      Store!ProgramChunkFails, Store!Verify, Store!Load, Store!DiscardLock,
      Store!EraseSector, Store!InFlight, Store!Reset, Store!Source, Store!Corrupt,
      Store!Call, Store!Work, Store!Next
<1>3. MS!vars' = MS!vars <=> Store!vars' = Store!vars
  BY DEF MS!vars, Store!vars
<1>4. Store!Durable => MS!Durable
  BY DEF MS!Durable, Store!Durable, MS!Holds, Store!Holds, MS!Chunk, Store!Chunk
<1>. QED  BY <1>1, <1>2, <1>3, <1>4

LEMMA StoreAssumed == Store!StoreAssumption
  BY SwapAssumption DEF SwapAssumption, Store!StoreAssumption, Store!Cells, Store!Chunk

(* A swap whose save answered 0 leaves the model complete in the slot,      *)
(* through resets, failing flash commands and whatever is pushed, until a   *)
(* later save or erase starts.                                              *)
THEOREM SwappedModelSurvives == Spec => [](scene.serial => MS!Durable)
<1>1. Store!Spec => []Store!Durable
  BY StoreAssumed, Store!SavedIsDurable
<1>2. MS!Spec => []MS!Durable
  BY <1>1, SameStore, PTL DEF MS!Spec, Store!Spec
<1>. QED
  BY <1>2, StoreUsedAsSpecified, SceneFixed, PTL DEF InTurn, Spec

LEMMA SameSlot ==
  /\ Store!Slot!Init => MS!Slot!Init
  /\ [Store!Slot!Next]_(Store!Slot!vars) => [MS!Slot!Next]_(MS!Slot!vars)
<1>. USE DEF MS!Slot!Answer, MS!Slot!SilentReply, MS!Slot!Clear, MS!Slot!Fill,
            MS!Slot!SaveOk, MS!Slot!Fails, MS!Slot!EraseOk, MS!Slot!LoadAnswers,
            MS!Slot!Reset, MS!Slot!Next, Store!Slot!Answer,
            Store!Slot!SilentReply, Store!Slot!Clear, Store!Slot!Fill,
            Store!Slot!SaveOk, Store!Slot!Fails, Store!Slot!EraseOk,
            Store!Slot!LoadAnswers, Store!Slot!Reset, Store!Slot!Next,
            MS!Validates, MS!Holds, MS!Chunk, MS!Cells, MS!BlobIn,
            Store!Validates, Store!Holds, Store!Chunk, Store!Cells, Store!BlobIn
<1>1. Store!Slot!Init => MS!Slot!Init
  BY DEF MS!Slot!Init, Store!Slot!Init
<1>2. Store!Slot!Next => MS!Slot!Next
  OBVIOUS
<1>3. Store!Slot!vars' = Store!Slot!vars => MS!Slot!vars' = MS!Slot!vars
  BY DEF MS!Slot!vars, Store!Slot!vars
<1>. QED  BY <1>1, <1>2, <1>3

(* Under the model lifecycle, too, the slot behaves as one that changes all *)
(* at once: the abstract ModelSlot.                                         *)
THEOREM LifecycleImplementsSlot == InTurn => MS!ImplementsSlot
<1>1. Store!Spec => Store!ImplementsSlot
  BY StoreAssumed, Store!Implements
<1>2. MS!Spec => Store!ImplementsSlot
  BY <1>1, SameStore, PTL DEF MS!Spec, Store!Spec
<1>3. /\ Store!Slot!Init => MS!Slot!Init
      /\ [Store!Slot!Next]_(Store!Slot!vars) => [MS!Slot!Next]_(MS!Slot!vars)
  BY SameSlot
<1>. QED
  BY <1>2, <1>3, StoreUsedAsSpecified, PTL
  DEF MS!ImplementsSlot, Store!ImplementsSlot, MS!Slot!Spec, Store!Slot!Spec

-----------------------------------------------------------------------------
(* From the flash back to the engine.  What was saved when the board was    *)
(* reset is still saved while it boots; the pending buffer and then staging *)
(* hold it; the boot never comes to where it erases the slot or falls back. *)
SavedBoots ==
  /\ onReset # NoBlob /\ ai.pc \in BootPcs => saved = onReset
  /\ saved # NoBlob =>
       /\ ai.pc \notin {"bootErase", "bootErasing", "fallback", "bootBuiltin"}
       /\ ai.pc = "bootStage" => MS!Holds(pend, saved)
       /\ ai.pc = "bootApply" => name = saved /\ MS!Holds(staging, saved)

LEMMA InitSavedBoots == Init => SavedBoots
  BY DEF Init, MS!Init, SavedBoots

(* A load finds the saved model.                                            *)
LEMMA LoadFindsSaved ==
  ASSUME TypeInv, saved # NoBlob, MS!Durable, BootLoad
  PROVE  ai'.pc = "bootStage" /\ pend' = slot /\ saved' = saved /\ MS!Holds(slot, saved)
<1>1. saved \in Blobs /\ MS!Holds(slot, saved)
  BY DEF TypeInv, StoreUse, MS!TypeOK, MS!Durable
<1>2. MS!Validates(slot, SlotChunks) /\ slot[1] # Erased
  BY <1>1, Geometry DEF MS!Validates, MS!Holds, MS!Cells
<1>3. reply'["ai"].rc = 0 /\ saved' = saved
  BY <1>2 DEF TypeInv, StoreUse, MS!TypeOK, BootLoad, MS!Load, MS!Return, MS!Reply, Tasks
<1>4. ai'.pc = "bootStage"
  BY <1>3 DEF TypeInv, AITypes, BootLoad
<1>. QED  BY <1>1, <1>2, <1>3, <1>4 DEF BootLoad

LEMMA SavedBootsStep ==
  ASSUME TypeInv, BootInv, scene.serial, TurnInv, MS!Durable, SavedBoots, [Next]_vars
  PROVE  SavedBoots'
<1>0. /\ ai \in [pc : AIPcs, len : 0..SlotChunks, at : 0..PastEnd, copy : 0..PastEnd]
      /\ saved \in Blobs \cup {NoBlob}
  BY DEF TypeInv, AITypes, StoreUse, MS!TypeOK
<1>1. CASE AIStep
  <2>0. onReset' = onReset
    BY <1>1, AILeavesOthers DEF hist
  <2>1. CASE BootLoad
    <3>1. saved' = saved /\ ai.pc \in BootPcs
      BY <2>1 DEF BootLoad, MS!Load, BootPcs
    <3>. QED  BY <2>0, <2>1, <3>1, LoadFindsSaved DEF SavedBoots
  <2>2. CASE BootStage
    <3>1. saved' = saved /\ ai'.pc = "bootApply" /\ ai.pc \in BootPcs
      BY <1>0, <2>2 DEF BootStage, flash, BootPcs
    <3>2. ASSUME saved # NoBlob PROVE name' = saved /\ MS!Holds(staging', saved)
      <4>1. MS!Holds(pend, saved) /\ saved \in Blobs
        BY <1>0, <2>2, <3>2 DEF BootStage, SavedBoots
      <4>. QED  BY <2>2, <4>1, BootStageCopies
    <3>. QED  BY <2>0, <3>1, <3>2 DEF SavedBoots
  <2>3. CASE BootApply
    <3>1. ApplyOutcomes(staging) = {Kind[name]} /\ Kind[name] \in Accept
      BY <2>3, HeaderTells DEF BootApply, BootInv, Running, TurnInv, EngineInTurn
    <3>2. ai'.pc = "infer"
      BY <2>3, <3>1 DEF BootApply, Inferring
    <3>. QED  BY <3>2 DEF SavedBoots, BootPcs
  <2>4. CASE BootErase \/ BootErased
    BY <2>4 DEF BootErase, BootErased, TurnInv, EngineInTurn
  <2>5. CASE BootFallback
    <3>1. saved = NoBlob /\ saved' = saved /\ ai.pc \in BootPcs
      BY <2>5 DEF BootFallback, SavedBoots, flash, BootPcs
    <3>. QED  BY <2>0, <3>1 DEF SavedBoots
  <2>6. CASE \/ BootBuiltin \/ SwapStart \/ CopyChunk \/ CopyPast \/ SwapApply
             \/ SaveSwapped \/ SaveStep \/ Reload \/ ReloadBuiltin \/ SwapFinish \/ Infer
    <3>1. ai'.pc \in SwapPcs \cup {"idle", "infer", "halted"}
      BY <1>0, <2>6
      DEF BootBuiltin, SwapStart, CopyStart, CopyChunk, CopyPast, SwapApply, SaveSwapped,
          SaveStep, Reload, ReloadBuiltin, SwapFinish, Infer, IdleAI, Inferring, Halted,
          SwapPcs
    <3>. QED  BY <3>1 DEF SavedBoots, SwapPcs, BootPcs
  <2>. QED  BY <1>1, <2>1, <2>2, <2>3, <2>4, <2>5, <2>6 DEF AIStep
<1>2. CASE Elsewhere
  <2>1. ai'.pc = "idle"
    BY <1>2, Turns, ElsewhereLeavesModel DEF TurnInv
  <2>. QED  BY <2>1 DEF SavedBoots, BootPcs
<1>3. CASE Reset
  <2>1. ai'.pc = "boot" /\ onReset' = saved /\ saved' = saved
    BY <1>3 DEF Reset, MS!Reset, Booting
  <2>. QED  BY <2>1 DEF SavedBoots
<1>4. CASE UNCHANGED vars
  BY <1>4 DEF vars, flash, engine, hist, SavedBoots
<1>. QED  BY <1>1, <1>2, <1>3, <1>4, NextCases

(* A boot ends with the model it applied, or with none or the built-in one  *)
(* if it found none.                                                        *)
LEMMA BootEnds ==
  ASSUME TypeInv, BootInv, scene.serial, TurnInv, MS!Durable, SavedBoots, [Next]_vars,
         onReset # NoBlob, ai.pc \in BootPcs, ai'.pc \notin BootPcs
  PROVE  /\ inited' /\ ran' = onReset /\ name' = onReset
         /\ MS!Holds(staging', onReset) /\ MS!Holds(slot', onReset)
<1>0. /\ ai \in [pc : AIPcs, len : 0..SlotChunks, at : 0..PastEnd, copy : 0..PastEnd]
      /\ saved = onReset /\ saved # NoBlob
  BY DEF TypeInv, AITypes, SavedBoots
<1>1. BootApply
  <2>1. AIStep
    <3>1. ~ Elsewhere
      BY Turns DEF TurnInv, BootPcs
    <3>2. ~ Reset
      BY DEF Reset, Booting, BootPcs
    <3>3. ~ UNCHANGED vars
      BY DEF vars
    <3>. QED  BY <3>1, <3>2, <3>3, NextCases
  <2>2. ~ (BootLoad \/ BootStage \/ BootErase \/ BootErased \/ BootFallback \/ BootBuiltin)
    BY <1>0
    DEF BootLoad, BootStage, BootErase, BootErased, BootFallback, BootBuiltin, SavedBoots,
        BootPcs
  <2>3. ~ (SwapStart \/ CopyChunk \/ CopyPast \/ SwapApply \/ SaveSwapped \/ SaveStep
             \/ Reload \/ ReloadBuiltin \/ SwapFinish \/ Infer)
    BY DEF SwapStart, CopyChunk, CopyPast, SwapApply, SaveSwapped, SaveStep, Reload,
           ReloadBuiltin, SwapFinish, Infer, BootPcs
  <2>. QED  BY <2>1, <2>2, <2>3 DEF AIStep
<1>2. name = saved /\ MS!Holds(staging, saved) /\ MS!Holds(slot, saved)
  BY <1>0, <1>1 DEF BootApply, SavedBoots, MS!Durable
<1>3. ApplyOutcomes(staging) = {Kind[name]} /\ Kind[name] \in Accept
  BY <1>1, HeaderTells DEF BootApply, BootInv, Running, TurnInv, EngineInTurn
<1>4. ran' = name /\ UNCHANGED <<name, staging, slot>>
  BY <1>1, <1>3 DEF BootApply, Accepted, flash
<1>5. inited'
  BY <1>1, <1>3 DEF BootApply, Apply
<1>. QED  BY <1>0, <1>2, <1>4, <1>5

(* What a reported save promises the operator, from the flash commands to   *)
(* the interpreter: what was saved when the board was reset, that the boot  *)
(* brings up and reports; it does not erase it, nor fall back.              *)
THEOREM SavedModelComesBack == Spec => SavedModelBoots
<1>1. TypeInv /\ BootInv /\ SerialInv /\ scene.serial /\ MS!Durable /\ SavedBoots
        /\ [Next]_vars => SavedBoots'
  BY SavedBootsStep DEF SerialInv
<1>2. TypeInv /\ BootInv /\ SerialInv /\ (scene.serial => MS!Durable /\ SavedBoots)
        /\ [Next]_vars =>
        [(scene.serial /\ onReset # NoBlob /\ ai.pc \in BootPcs /\ ai'.pc \notin BootPcs)
           => /\ inited' /\ ran' = onReset /\ name' = onReset
              /\ MS!Holds(staging', onReset) /\ MS!Holds(slot', onReset)]_vars
  BY BootEnds DEF SerialInv
<1>. QED
  BY <1>1, <1>2, InitSavedBoots, SceneKept, SceneFixed, TypeInvariance, BootInvariance,
     SerialInvariance, SwappedModelSurvives, PTL
  DEF Spec, SavedModelBoots

-----------------------------------------------------------------------------
(* What a swap comes to. *)

(* An accepted model is the one queued; a detour is for a refused one.      *)
Adopted == ran = Queued /\ inited /\ Running /\ name = Queued

SwapOutcome ==
  /\ ai.pc \in {"save", "saving"} => Adopted
  /\ ai.pc \in {"reload", "builtin"} => Kind[Queued] \notin Accept
  /\ ai.pc = "finish" /\ Kind[Queued] \in Accept => Adopted

LEMMA SwapOutcomeStep ==
  ASSUME TypeInv, BootInv, scene.serial, TurnInv, SwapOutcome, [Next]_vars
  PROVE  SwapOutcome'
<1>0. /\ ai \in [pc : AIPcs, len : 0..SlotChunks, at : 0..PastEnd, copy : 0..PastEnd]
  BY DEF TypeInv, AITypes
<1>1. CASE AIStep
  <2>1. CASE SwapApply
    <3>1. name' = Queued /\ Queued' = Queued /\ UNCHANGED <<pend, staging>>
      BY <2>1 DEF SwapApply, Queued
    <3>2. Queued \in Blobs /\ MS!Holds(staging, Queued)
      BY <2>1 DEF SwapApply, BootInv, SwapPcs, TurnInv, Buffers, EngineInTurn
    <3>3. ApplyOutcomes(staging) = {Kind[Queued]}
      BY <3>2, HeaderTells
    <3>4. CASE Kind[Queued] \in Accept
      <4>1. inited' /\ ran' = Queued /\ ai'.pc \in {"finish", "save"}
        <5>1. ran' = Queued /\ ai'.pc \in {"finish", "save"}
          BY <1>0, <2>1, <3>1, <3>3, <3>4 DEF SwapApply, Accepted
        <5>2. inited'
          BY <2>1, <3>3, <3>4 DEF SwapApply, Apply
        <5>. QED  BY <5>1, <5>2
      <4>. QED  BY <3>1, <3>2, <4>1 DEF SwapOutcome, Adopted, Running
    <3>5. CASE Kind[Queued] \notin Accept
      <4>0. Kind[Queued] # "crash"
        BY <3>2, Geometry DEF Outcomes
      <4>1. ai'.pc = "reload"
        BY <1>0, <2>1, <3>3, <3>5, <4>0 DEF SwapApply
      <4>. QED  BY <3>1, <3>5, <4>1 DEF SwapOutcome
    <3>. QED  BY <3>4, <3>5
  <2>2. CASE SaveSwapped \/ SaveStep
    <3>1. /\ UNCHANGED <<pend, engine, ran>> /\ ai.pc \in {"save", "saving"}
          /\ ai'.pc \in {"finish", "saving"}
      BY <1>0, <2>2 DEF SaveSwapped, SaveStep
    <3>. QED  BY <3>1 DEF SwapOutcome, Adopted, Running, Queued, engine
  <2>3. CASE Reload \/ ReloadBuiltin
    <3>1. /\ pend' = pend /\ ai.pc \in {"reload", "builtin"}
          /\ ai'.pc \in {"finish", "builtin", "halted"}
      BY <1>0, <2>3 DEF Reload, ReloadBuiltin, Halted
    <3>. QED  BY <3>1 DEF SwapOutcome, Queued
  <2>4. CASE \/ BootLoad \/ BootStage \/ BootApply \/ BootErase \/ BootErased
             \/ BootFallback \/ BootBuiltin \/ SwapStart \/ CopyChunk \/ CopyPast
             \/ SwapFinish \/ Infer
    <3>1. ai'.pc \notin {"save", "saving", "reload", "builtin", "finish"}
      BY <1>0, <2>4
      DEF BootLoad, BootStage, BootApply, BootErase, BootErased, BootFallback, BootBuiltin,
          SwapStart, CopyStart, CopyChunk, CopyPast, SwapFinish, Infer, IdleAI, Inferring,
          Halted
    <3>. QED  BY <3>1 DEF SwapOutcome
  <2>. QED  BY <1>1, <2>1, <2>2, <2>3, <2>4 DEF AIStep
<1>2. CASE Elsewhere
  <2>1. ai'.pc = "idle"
    BY <1>2, Turns, ElsewhereLeavesModel DEF TurnInv
  <2>. QED  BY <2>1 DEF SwapOutcome
<1>3. CASE Reset
  BY <1>3 DEF Reset, Booting, SwapOutcome
<1>4. CASE UNCHANGED vars
  BY <1>4 DEF vars, engine, SwapOutcome, Adopted, Running, Queued
<1>. QED  BY <1>1, <1>2, <1>3, <1>4, NextCases

(* A swap of a model the device accepts ends with that model in staging,    *)
(* initialised and reported, whether its save succeeded or not.             *)
SwapAdopts ==
  scene.serial /\ ai.pc = "finish" /\ Kind[Queued] \in Accept => Adopted

(* The safety core of QueuedModelRuns: the swap that takes up a model the   *)
(* device accepts has no other way to end, whatever flash commands fail.    *)
THEOREM SwapEndsWithQueued == Spec => []SwapAdopts
<1>1. Init => SwapOutcome
  BY DEF Init, Booting, SwapOutcome
<1>2. TypeInv /\ BootInv /\ SerialInv /\ scene.serial /\ SwapOutcome /\ [Next]_vars
        => SwapOutcome'
  BY SwapOutcomeStep DEF SerialInv
<1>3. (scene.serial => SwapOutcome) => SwapAdopts
  BY DEF SwapOutcome, SwapAdopts
<1>. QED
  BY <1>1, <1>2, <1>3, SceneKept, SceneFixed, TypeInvariance, BootInvariance,
     SerialInvariance, PTL
  DEF Spec
=============================================================================
