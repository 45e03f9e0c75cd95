--------------------------- MODULE ModelStoreProofs ---------------------------
(***************************************************************************)
(* Proofs about ModelStore, for every set of clients and blobs, every slot *)
(* geometry and every number of faults and resets.                         *)
(*                                                                         *)
(* Durable is not inductive: a reset or a failing command spoils cells of  *)
(* the slot, and nothing in Durable says that none of them belongs to the  *)
(* saved blob.  StoreInv adds what the code relies on: a client that works *)
(* on the flash holds the lock, it has already withdrawn the claim that    *)
(* some blob is saved, and it compares the flash with the blob it was      *)
(* called with, over that blob's full length.                              *)
(***************************************************************************)
EXTENDS ModelStore, TLAPS

Working == {"eraseBlock", "program", "verify", "eraseSector"}
Saving == {"saveLock", "eraseBlock", "program", "verify"}

LockDiscipline ==
  \A c \in Clients : task[c].pc \in Working => fsLock = c /\ saved = NoBlob

FullLength ==
  \A c \in Clients :
    task[c].pc \in Saving =>
      task[c].blob \in Blobs /\ task[c].len = Chunks[task[c].blob]

StoreInv == TypeOK /\ LockDiscipline /\ FullLength /\ Durable

-----------------------------------------------------------------------------
(* Facts about regions of cells. *)

(* A chunk tells its blob: no region starts with two different blobs. *)
LEMMA HoldsUnique ==
  ASSUME NEW region, NEW b1 \in Blobs, NEW b2 \in Blobs,
         Holds(region, b1), Holds(region, b2)
  PROVE  b1 = b2
<1>1. 1 \in 1..Chunks[b1] /\ 1 \in 1..Chunks[b2]
  BY StoreAssumption DEF StoreAssumption, Cells
<1>2. Chunk(b1, 1) = Chunk(b2, 1)
  BY <1>1 DEF Holds
<1>. QED  BY <1>2 DEF Chunk

(* What a load finds in a region that holds b is b. *)
LEMMA BlobInHolds ==
  ASSUME NEW region, NEW b \in Blobs, Holds(region, b)
  PROVE  BlobIn(region) = b
<1>1. BlobIn(region) \in Blobs /\ Holds(region, BlobIn(region))
  BY DEF BlobIn
<1>. QED  BY <1>1, HoldsUnique

(* A buffer filled with b holds b, validates at b's length and no other     *)
(* blob is found in it.                                                     *)
LEMMA ImageHolds ==
  ASSUME NEW b \in Blobs
  PROVE  Holds(Image(b), b) /\ BlobIn(Image(b)) = b
<1>1. Chunks[b] \in Cells
  BY StoreAssumption DEF StoreAssumption
<1>2. ASSUME NEW i \in 1..Chunks[b]
      PROVE  Image(b)[i] = Chunk(b, i)
  BY <1>1, <1>2, StoreAssumption DEF Image, Cells, StoreAssumption
<1>3. Holds(Image(b), b)
  BY <1>2 DEF Holds
<1>. QED  BY <1>3, BlobInHolds

(* A buffer of garbage is refused. *)
LEMMA CorruptRefused == \A len : ~ Validates(Corrupt, len)
<1>1. ASSUME NEW b \in Blobs, Holds(Corrupt, b) PROVE FALSE
  <2>1. 1 \in 1..Chunks[b] /\ 1 \in Cells
    BY StoreAssumption DEF StoreAssumption, Cells
  <2>2. Garbage = Chunk(b, 1)
    BY <1>1, <2>1 DEF Holds, Corrupt
  <2>. QED  BY <2>1, <2>2, StoreAssumption DEF StoreAssumption
<1>. QED  BY <1>1 DEF Validates

(* Images are made of cells. *)
LEMMA ImageType == \A b \in Blobs : Image(b) \in [Cells -> Cell]
  BY DEF Image, Cell

-----------------------------------------------------------------------------
LEMMA InitStoreInv == Init => StoreInv
<1>. SUFFICES ASSUME Init PROVE StoreInv
  OBVIOUS
<1>1. TypeOK
  BY StoreAssumption
  DEF Init, TypeOK, Idle, NoReply, Cell, StoreAssumption, Task, Replies, WithinBlob
<1>2. LockDiscipline /\ FullLength
  BY DEF Init, LockDiscipline, FullLength, Idle, Working, Saving
<1>3. Durable
  BY DEF Init, Durable
<1>. QED  BY <1>1, <1>2, <1>3 DEF StoreInv
-----------------------------------------------------------------------------
(* One lemma per conjunct of StoreInv that a step could disturb. *)

LEMMA EraseBlocksBound == \A len \in Cells : EraseBlocks(len) \in 1..SlotChunks
<1>. SUFFICES ASSUME NEW len \in Cells PROVE EraseBlocks(len) \in 1..SlotChunks
  OBVIOUS
<1>1. \A x \in Nat : x >= BlockChunks => x \div BlockChunks >= 1
  BY StoreAssumption DEF StoreAssumption
<1>2. (len + BlockChunks - 1) \div BlockChunks <= len
  BY StoreAssumption DEF StoreAssumption, Cells
<1>. QED  BY <1>1, <1>2, StoreAssumption DEF StoreAssumption, Cells, EraseBlocks

LEMMA CellFacts ==
  /\ Erased \in Cell /\ Garbage \in Cell
  /\ \A old, new \in Cell : Programmed(old, new) \in Cell
  BY DEF Cell, Programmed

LEMMA ReturnType ==
  ASSUME TypeOK, NEW c \in Clients, NEW r \in Replies, Return(c, r)
  PROVE  /\ task' \in [Clients -> Task]
         /\ reply' \in [Clients -> Replies]
         /\ \A d \in Clients : WithinBlob(task'[d])
<1>1. Idle \in Task /\ WithinBlob(Idle)
  BY StoreAssumption DEF StoreAssumption, Idle, Task, WithinBlob
<1>. QED  BY <1>1 DEF Return, TypeOK

(* Flash commands leave cells in the slot. *)
LEMMA FlashFailsType ==
  ASSUME TypeOK, NEW c \in Clients, NEW op \in {"save", "erase"}, NEW S,
         FlashFails(c, op, S), saved' = saved
  PROVE  TypeOK'
<1>1. slot' \in [Cells -> Cell] /\ faults' \in 0..MaxFaults
  BY CellFacts, StoreAssumption DEF FlashFails, Fault, TypeOK, StoreAssumption
<1>2. PICK rc \in {-5, -110} : Return(c, Reply(op, rc, NoBlob))
  BY DEF FlashFails
<1>3. Reply(op, rc, NoBlob) \in Replies
  BY DEF Reply, Replies
<1>. QED  BY <1>1, <1>2, <1>3, ReturnType DEF TypeOK, FlashFails, Unlock

LEMMA TypeStep == StoreInv /\ [Next]_vars => TypeOK'
<1>. SUFFICES ASSUME StoreInv, [Next]_vars PROVE TypeOK'
  OBVIOUS
<1>. USE DEF StoreInv
<1>1. ASSUME NEW c \in Clients, NEW src, NEW len \in Cells, SaveCall(c, src, len)
      PROVE  TypeOK'
  <2>1. CASE Validates(src, len)
    <3>1. BlobIn(src) \in Blobs
      BY <2>1 DEF Validates, BlobIn
    <3>2. [pc |-> "saveLock", len |-> len, at |-> 0, blob |-> BlobIn(src)] \in Task
      BY <3>1, StoreAssumption DEF Task, Cells, StoreAssumption
    <3>. QED  BY <1>1, <2>1, <3>2 DEF SaveCall, TypeOK, WithinBlob
  <2>2. CASE ~ Validates(src, len)
    <3>1. Reply("save", -22, NoBlob) \in Replies
      BY DEF Reply, Replies
    <3>. QED  BY <1>1, <2>2, <3>1, ReturnType DEF SaveCall, TypeOK
  <2>. QED  BY <2>1, <2>2
<1>2. ASSUME NEW c \in Clients, Load(c) PROVE TypeOK'
  <2>1. Validates(slot, SlotChunks) => BlobIn(slot) \in Blobs
    BY DEF Validates, BlobIn
  <2>2. \A rc \in {0, -2, -12}, b \in Blobs \cup {NoBlob} :
          Reply("load", rc, b) \in Replies
    BY DEF Reply, Replies
  <2>3. PICK r \in Replies : Return(c, r)
    BY <1>2, <2>1, <2>2 DEF Load
  <2>. QED  BY <1>2, <2>3, ReturnType DEF Load, TypeOK
<1>3. ASSUME NEW c \in Clients, DiscardLock(c) PROVE TypeOK'
  BY <1>3 DEF DiscardLock, TypeOK, Task, WithinBlob
<1>4. ASSUME NEW c \in Clients, SaveLock(c) PROVE TypeOK'
  <2>1. task[c].len \in Cells
    BY <1>4, StoreAssumption DEF SaveLock, FullLength, Saving, StoreAssumption
  <2>2. 1 \in 1..EraseBlocks(task[c].len) /\ 1 \in 0..SlotChunks
    BY <2>1, EraseBlocksBound, StoreAssumption DEF StoreAssumption
  <2>. QED  BY <1>4, <2>2 DEF SaveLock, TypeOK, Task, WithinBlob
<1>5. ASSUME NEW c \in Clients, EraseBlock(c) PROVE TypeOK'
  <2>1. task[c].len \in Cells /\ task[c].at \in 1..EraseBlocks(task[c].len)
    BY <1>5, StoreAssumption
    DEF EraseBlock, FullLength, Saving, StoreAssumption, TypeOK, WithinBlob
  <2>2. slot' \in [Cells -> Cell]
    BY <1>5, CellFacts DEF EraseBlock, TypeOK
  <2>3. task' \in [Clients -> Task] /\ \A d \in Clients : WithinBlob(task'[d])
    <3>1. EraseBlocks(task[c].len) \in 1..SlotChunks
      BY <2>1, EraseBlocksBound
    <3>2. task[c].at + 1 \in Int /\ task[c].at \in Int /\ SlotChunks \in Nat
      BY <2>1, <3>1, StoreAssumption DEF StoreAssumption
    <3> DEFINE t == IF task[c].at < EraseBlocks(task[c].len)
                    THEN [task[c] EXCEPT !.at = task[c].at + 1]
                    ELSE [task[c] EXCEPT !.pc = "program", !.at = 1]
    <3>3. t \in Task /\ WithinBlob(t)
      <4>1. CASE task[c].at < EraseBlocks(task[c].len)
        <5>1. /\ task[c].at + 1 \in 1..EraseBlocks(task[c].len)
              /\ task[c].at + 1 \in 0..SlotChunks
          BY <2>1, <3>1, <3>2, <4>1
        <5>. QED
          BY <1>5, <4>1, <5>1 DEF TypeOK, Task, WithinBlob, EraseBlock
      <4>2. CASE ~ (task[c].at < EraseBlocks(task[c].len))
        <5>1. 1 \in 1..task[c].len /\ 1 \in 0..SlotChunks
          BY <2>1, <3>2 DEF Cells
        <5>. QED
          BY <1>5, <4>2, <5>1 DEF TypeOK, Task, WithinBlob, EraseBlock
      <4>. QED  BY <4>1, <4>2
    <3>4. task' = [task EXCEPT ![c] = t]
      BY <1>5 DEF EraseBlock
    <3>. HIDE DEF t
    <3>. QED  BY <3>3, <3>4 DEF TypeOK
  <2>. QED  BY <1>5, <2>2, <2>3 DEF EraseBlock, TypeOK
<1>6. ASSUME NEW c \in Clients, NEW op \in {"save", "erase"}, NEW S,
             FlashFails(c, op, S), UNCHANGED saved
      PROVE  TypeOK'
  BY <1>6, FlashFailsType
<1>7. ASSUME NEW c \in Clients, ProgramChunk(c, Source(c)) PROVE TypeOK'
  <2>1. /\ task[c].len \in Cells /\ task[c].at \in 1..task[c].len
        /\ task[c].blob \in Blobs
    BY <1>7, StoreAssumption
    DEF ProgramChunk, FullLength, Saving, StoreAssumption, TypeOK, WithinBlob
  <2>2. Source(c)[task[c].at] \in Cell /\ task[c].at \in Cells
    BY <2>1, ImageType, StoreAssumption DEF Source, Cells, StoreAssumption
  <2>3. slot' \in [Cells -> Cell]
    BY <1>7, <2>2, CellFacts DEF ProgramChunk, TypeOK
  <2>4. task' \in [Clients -> Task] /\ \A d \in Clients : WithinBlob(task'[d])
    <3> DEFINE t == IF task[c].at < task[c].len
                    THEN [task[c] EXCEPT !.at = task[c].at + 1]
                    ELSE [task[c] EXCEPT !.pc = "verify"]
    <3>1. t \in Task /\ WithinBlob(t)
      <4>1. CASE task[c].at < task[c].len
        <5>1. task[c].at + 1 \in 1..task[c].len /\ task[c].at + 1 \in 0..SlotChunks
          BY <2>1, <4>1, StoreAssumption DEF Cells, StoreAssumption
        <5>. QED
          BY <1>7, <4>1, <5>1 DEF TypeOK, Task, WithinBlob, ProgramChunk
      <4>2. CASE ~ (task[c].at < task[c].len)
        BY <1>7, <4>2 DEF TypeOK, Task, WithinBlob, ProgramChunk
      <4>. QED  BY <4>1, <4>2
    <3>2. task' = [task EXCEPT ![c] = t]
      BY <1>7 DEF ProgramChunk
    <3>. HIDE DEF t
    <3>. QED  BY <3>1, <3>2 DEF TypeOK
  <2>5. faults' \in 0..MaxFaults
    BY <1>7, StoreAssumption DEF ProgramChunk, Fault, TypeOK, StoreAssumption
  <2>. QED  BY <1>7, <2>3, <2>4, <2>5 DEF ProgramChunk, TypeOK
<1>8. ASSUME NEW c \in Clients, Verify(c, Source(c)) PROVE TypeOK'
  <2>1. task[c].blob \in Blobs
    BY <1>8 DEF Verify, FullLength, Saving
  <2>2. \A rc \in {0, -84}, b \in Blobs \cup {NoBlob} :
          Reply("save", rc, b) \in Replies
    BY DEF Reply, Replies
  <2>3. PICK r \in Replies : Return(c, r)
    BY <1>8, <2>1, <2>2 DEF Verify
  <2>. QED  BY <1>8, <2>1, <2>3, ReturnType DEF Verify, Unlock, TypeOK
<1>9. ASSUME NEW c \in Clients, EraseSector(c) PROVE TypeOK'
  <2>1. CASE FlashFails(c, "erase", SectorCells)
    BY <1>6, <1>9, <2>1 DEF EraseSector
  <2>2. CASE ~ FlashFails(c, "erase", SectorCells)
    <3>1. Reply("erase", 0, NoBlob) \in Replies
      BY DEF Reply, Replies
    <3>2. slot' \in [Cells -> Cell]
      BY <1>9, <2>2, CellFacts DEF EraseSector, TypeOK
    <3>. QED
      BY <1>9, <2>2, <3>1, <3>2, ReturnType DEF EraseSector, Unlock, TypeOK
  <2>. QED  BY <2>1, <2>2
<1>10. CASE Reset
  <2>1. slot' \in [Cells -> Cell]
    BY <1>10, CellFacts DEF Reset, TypeOK
  <2>2. Idle \in Task /\ WithinBlob(Idle) /\ NoReply \in Replies
    BY StoreAssumption
    DEF Idle, Task, WithinBlob, NoReply, Replies, StoreAssumption
  <2>3. faults' \in 0..MaxFaults
    BY <1>10, StoreAssumption DEF Reset, Fault, TypeOK, StoreAssumption
  <2>. QED  BY <1>10, <2>1, <2>2, <2>3 DEF Reset, TypeOK
<1>11. CASE UNCHANGED vars
  BY <1>11 DEF vars, TypeOK
<1>12. Chunks \in [Blobs -> Cells] /\ SlotChunks \in Cells
  BY StoreAssumption DEF StoreAssumption, Cells
<1>. QED
  BY <1>1, <1>2, <1>3, <1>4, <1>5, <1>6, <1>7, <1>8, <1>9, <1>10, <1>11, <1>12
  DEF Next, Call, Work, EraseBlockFails, ProgramChunkFails

(* Every step of a client that is inside the store but Verify keeps the     *)
(* lock with its holder; nobody enters the flash while it is held.          *)
LEMMA LockStep == StoreInv /\ [Next]_vars => LockDiscipline'
<1>. SUFFICES ASSUME StoreInv, [Next]_vars PROVE LockDiscipline'
  OBVIOUS
<1>. USE DEF StoreInv, TypeOK, LockDiscipline, Working
<1>1. ASSUME NEW c \in Clients, NEW src, NEW len, SaveCall(c, src, len)
      PROVE  LockDiscipline'
  BY <1>1 DEF SaveCall, Return, Idle
<1>2. ASSUME NEW c \in Clients, Load(c) PROVE LockDiscipline'
  BY <1>2 DEF Load, Return, Idle
<1>3. ASSUME NEW c \in Clients, DiscardLock(c) \/ SaveLock(c) PROVE LockDiscipline'
  BY <1>3, StoreAssumption DEF DiscardLock, SaveLock, StoreAssumption
<1>4. ASSUME NEW c \in Clients, EraseBlock(c) PROVE LockDiscipline'
  BY <1>4 DEF EraseBlock
<1>5. ASSUME NEW c \in Clients, ProgramChunk(c, Source(c)) PROVE LockDiscipline'
  BY <1>5 DEF ProgramChunk
<1>6. ASSUME NEW c \in Clients, Verify(c, Source(c)) PROVE LockDiscipline'
  BY <1>6 DEF Verify, Return, Idle
<1>7. ASSUME NEW c \in Clients, NEW op, NEW S, task[c].pc \in Working,
             FlashFails(c, op, S), UNCHANGED saved
      PROVE  LockDiscipline'
  BY <1>7 DEF FlashFails, Return, Idle
<1>8. ASSUME NEW c \in Clients, EraseSector(c) PROVE LockDiscipline'
  BY <1>8, <1>7 DEF EraseSector, Return, Idle
<1>9. ASSUME NEW c \in Clients, EraseBlockFails(c) \/ ProgramChunkFails(c)
      PROVE  LockDiscipline'
  BY <1>7, <1>9 DEF EraseBlockFails, ProgramChunkFails
<1>10. CASE Reset
  BY <1>10 DEF Reset, Idle
<1>11. CASE UNCHANGED vars
  BY <1>11 DEF vars
<1>. HIDE DEF StoreInv, TypeOK, LockDiscipline
<1>. QED
  BY <1>1, <1>2, <1>3, <1>4, <1>5, <1>6, <1>8, <1>9, <1>10, <1>11 DEF Next, Call, Work

LEMMA LengthStep == StoreInv /\ [Next]_vars => FullLength'
<1>. SUFFICES ASSUME StoreInv, [Next]_vars PROVE FullLength'
  OBVIOUS
<1>. USE DEF StoreInv, TypeOK, FullLength, Saving
<1>1. ASSUME NEW c \in Clients, NEW b \in Blobs, SaveCall(c, Image(b), Chunks[b])
      PROVE  FullLength'
  <2>1. CASE Validates(Image(b), Chunks[b])
    <3>1. /\ task' = [task EXCEPT ![c] = [pc |-> "saveLock", len |-> Chunks[b],
                                          at |-> 0, blob |-> b]]
      BY <1>1, <2>1, ImageHolds DEF SaveCall
    <3>. QED  BY <3>1
  <2>2. CASE ~ Validates(Image(b), Chunks[b])
    BY <1>1, <2>2 DEF SaveCall, Return, Idle
  <2>. QED  BY <2>1, <2>2
<1>2. ASSUME NEW c \in Clients, SaveCall(c, Corrupt, SlotChunks)
      PROVE  FullLength'
  BY <1>2, CorruptRefused DEF SaveCall, Return, Idle
<1>3. ASSUME NEW c \in Clients, Load(c) \/ DiscardLock(c) PROVE FullLength'
  <2>1. CASE Load(c)
    <3>1. task' = [task EXCEPT ![c] = Idle]
      BY <2>1 DEF Load, Return
    <3>. QED  BY <3>1 DEF Idle
  <2>2. CASE DiscardLock(c)
    BY <2>2 DEF DiscardLock, Task
  <2>. QED  BY <1>3, <2>1, <2>2
<1>4. ASSUME NEW c \in Clients, SaveLock(c) PROVE FullLength'
  BY <1>4 DEF SaveLock, Task
<1>5. ASSUME NEW c \in Clients, EraseBlock(c) PROVE FullLength'
  BY <1>5 DEF EraseBlock, Task
<1>6. ASSUME NEW c \in Clients, ProgramChunk(c, Source(c)) PROVE FullLength'
  <2>1. /\ task'[c].blob = task[c].blob /\ task'[c].len = task[c].len
        /\ task[c].pc \in Saving
    BY <1>6 DEF ProgramChunk, Task
  <2>2. \A d \in Clients \ {c} : task'[d] = task[d]
    BY <1>6 DEF ProgramChunk
  <2>. QED  BY <2>1, <2>2
<1>7. ASSUME NEW c \in Clients, Verify(c, Source(c)) PROVE FullLength'
  BY <1>7 DEF Verify, Return, Idle
<1>8. ASSUME NEW c \in Clients, NEW op, NEW S, FlashFails(c, op, S)
      PROVE  FullLength'
  BY <1>8 DEF FlashFails, Return, Idle
<1>9. ASSUME NEW c \in Clients, EraseSector(c) PROVE FullLength'
  BY <1>8, <1>9 DEF EraseSector, Return, Idle
<1>10. CASE Reset
  BY <1>10 DEF Reset, Idle
<1>11. CASE UNCHANGED vars
  BY <1>11 DEF vars
<1>. QED
  BY <1>1, <1>2, <1>3, <1>4, <1>5, <1>6, <1>7, <1>8, <1>9, <1>10, <1>11
  DEF Next, Call, Work, EraseBlockFails, ProgramChunkFails

(* Only Verify claims a blob, after comparing all of it; whatever touches   *)
(* the slot afterwards, a reset included, has first withdrawn the claim.    *)
LEMMA DurableStep == StoreInv /\ [Next]_vars => Durable'
<1>. SUFFICES ASSUME StoreInv, [Next]_vars, saved' # NoBlob
              PROVE  Holds(slot', saved')
  BY DEF Durable, Holds
<1>. USE DEF StoreInv
<1>1. CASE UNCHANGED <<slot, saved>>
  BY <1>1 DEF Durable, Holds
<1>2. ASSUME NEW c \in Clients, Verify(c, Source(c)), saved' = task[c].blob,
             \A i \in 1..task[c].len : slot[i] = Source(c)[i]
      PROVE  Holds(slot', saved')
  <2>1. task[c].blob \in Blobs /\ task[c].len = Chunks[task[c].blob]
    BY <1>2 DEF Verify, FullLength, Saving
  <2>2. Holds(Source(c), task[c].blob)
    BY <2>1, ImageHolds DEF Source
  <2>. QED  BY <1>2, <2>1, <2>2 DEF Holds, Verify
<1>3. ASSUME NEW c \in Clients, task[c].pc \in Working, saved' = saved
      PROVE  FALSE
  BY <1>3 DEF LockDiscipline
<1>4. CASE Reset
  <2>1. \A c \in Clients : task[c].pc \notin Working
    BY <1>4 DEF Reset, LockDiscipline
  <2>2. InFlight = {}
    BY <2>1 DEF InFlight, Working
  <2>3. slot' = [i \in Cells |-> slot[i]] /\ saved' = saved
    BY <1>4, <2>2 DEF Reset
  <2>. QED  BY <1>1, <2>3 DEF TypeOK
<1>. QED
  BY <1>1, <1>2, <1>3, <1>4
  DEF Next, Call, Work, SaveCall, SaveLock, Load, DiscardLock, EraseBlock,
      EraseBlockFails, ProgramChunk, ProgramChunkFails, Verify, EraseSector,
      Working, vars

(* Whatever happens to the flash, the lock is exclusive, a save works       *)
(* inside its blob and a model that was saved stays saved.                  *)
THEOREM StoreInvariance == Spec => []StoreInv
<1>1. Init => StoreInv
  BY InitStoreInv
<1>2. StoreInv /\ [Next]_vars => StoreInv'
  BY TypeStep, LockStep, LengthStep, DurableStep DEF StoreInv
<1>. QED  BY <1>1, <1>2, PTL DEF Spec

(* The model slot is type-correct and no save leaves its blob's chunks.     *)
THEOREM StoreTypeOK == Spec => []TypeOK
<1>1. StoreInv => TypeOK
  BY DEF StoreInv
<1>. QED  BY <1>1, StoreInvariance, PTL

(* Once model_store_save has returned 0, the flash holds that model until   *)
(* a later save or erase starts, for any number of resets and faults.       *)
THEOREM SavedIsDurable == Spec => []Durable
<1>1. StoreInv => Durable
  BY DEF StoreInv
<1>. QED  BY <1>1, StoreInvariance, PTL

(* And the next model_store_load, in this boot or a later one, returns it.  *)
THEOREM SavedIsLoaded == Spec => LoadReturnsSaved
<1>. DEFINE A == \A c \in Clients :
                   (saved # NoBlob /\ reply'[c] # reply[c] /\ reply'[c].op = "load")
                     => reply'[c].rc = 0 /\ reply'[c].blob = saved
<1>1. StoreInv /\ [Next]_vars => [A]_vars
  <2>. SUFFICES ASSUME StoreInv, Next, NEW c \in Clients, saved # NoBlob,
                       reply'[c] # reply[c], reply'[c].op = "load"
                PROVE  reply'[c].rc = 0 /\ reply'[c].blob = saved
    OBVIOUS
  <2>. USE DEF StoreInv, TypeOK
  <2>1. Load(c)
    <3>1. \A d \in Clients, op \in {"save", "erase"} : \A rc, b :
            Return(d, Reply(op, rc, b)) => d # c
      BY DEF Return, Reply
    <3>2. \A d \in Clients : \A r : Return(d, r) => d = c
      BY DEF Return
    <3>3. ~ Reset
      BY DEF Reset, NoReply
    <3>4. reply' # reply
      OBVIOUS
    <3>5. ASSUME NEW d \in Clients, NEW op \in {"save", "erase"}, NEW S
          PROVE  ~ FlashFails(d, op, S)
      BY <3>1, <3>2, <3>5 DEF FlashFails
    <3>6. ASSUME NEW d \in Clients PROVE ~ Work(d)
      BY <3>1, <3>2, <3>4, <3>5, <3>6
      DEF Work, EraseBlock, EraseBlockFails, ProgramChunk, ProgramChunkFails,
          Verify, EraseSector
    <3>7. ASSUME NEW d \in Clients, NEW src, NEW len
          PROVE  ~ SaveCall(d, src, len)
      BY <3>1, <3>2, <3>4, <3>7 DEF SaveCall
    <3>8. ASSUME NEW d \in Clients PROVE ~ SaveLock(d) /\ ~ DiscardLock(d)
      BY <3>4, <3>8 DEF SaveLock, DiscardLock
    <3>9. ASSUME NEW d \in Clients, Load(d) PROVE d = c
      BY <3>2, <3>9 DEF Load
    <3>. QED  BY <3>3, <3>6, <3>7, <3>8, <3>9 DEF Next, Call
  <2>2. saved \in Blobs /\ Holds(slot, saved)
    BY DEF StoreInv, TypeOK, Durable
  <2>3. Validates(slot, SlotChunks) /\ BlobIn(slot) = saved
    BY <2>2, BlobInHolds, StoreAssumption DEF Validates, StoreAssumption, Cells
  <2>. QED  BY <2>1, <2>3 DEF Load, Return, Reply, StoreInv, TypeOK
<1>. QED  BY <1>1, StoreInvariance, PTL DEF Spec, LoadReturnsSaved

-----------------------------------------------------------------------------
(* A flash without errors.  Without a fault so far, a save has erased the   *)
(* blocks before the one it is at, then programmed the chunks before the    *)
(* one it is at, over erased cells.                                         *)
Progress(c) ==
  /\ task[c].pc = "eraseBlock" =>
       \A i \in Cells : (i - 1) \div BlockChunks < task[c].at - 1 => slot[i] = Erased
  /\ task[c].pc = "program" =>
       /\ \A i \in 1..(task[c].at - 1) : slot[i] = Chunk(task[c].blob, i)
       /\ \A i \in task[c].at..task[c].len : slot[i] = Erased
  /\ task[c].pc = "verify" => Holds(slot, task[c].blob)

HealthyInv == HealthyFlashSaves /\ (faults = 0 => \A c \in Clients : Progress(c))

(* The blocks erased cover the blob. *)
LEMMA BlocksCover ==
  ASSUME NEW len \in Cells, NEW i \in 1..len
  PROVE  (i - 1) \div BlockChunks \in Nat /\ (i - 1) \div BlockChunks < EraseBlocks(len)
<1> DEFINE B == BlockChunks  q == (i - 1) \div B  r == (len + B - 1) \div B
<1>1. B \in Nat \ {0} /\ len \in Nat /\ i \in Nat /\ i <= len
  BY StoreAssumption DEF Cells, StoreAssumption
<1>2. \A x \in Nat, b \in Nat \ {0} :
        x \div b \in Nat /\ b * (x \div b) <= x /\ x < b * (x \div b) + b
  OBVIOUS
<1>3. q \in Nat /\ B * q <= i - 1
  BY <1>1, <1>2
<1>4. r \in Nat /\ len + B - 1 < B * r + B
  BY <1>1, <1>2
<1>5. ASSUME r <= q PROVE FALSE
  <2>1. \A x, y, b \in Nat : x <= y => b * x <= b * y
    OBVIOUS
  <2>2. B * r <= B * q
    BY <1>1, <1>3, <1>4, <1>5, <2>1
  <2> HIDE DEF q, r, B
  <2>3. B * q \in Nat /\ B * r \in Nat
    BY <1>1, <1>3, <1>4
  <2> QED
    BY <1>1, <1>3, <1>4, <2>2, <2>3
<1> QED
  BY <1>3, <1>4, <1>5 DEF EraseBlocks

LEMMA HealthyStep == StoreInv /\ HealthyInv /\ [Next]_vars => HealthyInv'
<1> SUFFICES ASSUME StoreInv, HealthyInv, [Next]_vars, faults' = 0
             PROVE  \A c \in Clients :
                      /\ Progress(c)'
                      /\ reply'[c].op \in {"save", "erase"} => reply'[c].rc \in {0, -22}
  BY DEF HealthyInv, HealthyFlashSaves
<1> USE DEF StoreInv, TypeOK
<1>1. faults = 0 /\ ~ Fault
  <2>1. ~ Fault
    BY StoreAssumption DEF StoreAssumption, Fault
  <2>2. faults' = faults \/ Fault
    BY DEF Next, Call, SaveCall, Load, DiscardLock, Work, SaveLock, EraseBlock,
       EraseBlockFails, ProgramChunk, ProgramChunkFails, Verify, EraseSector, FlashFails,
       Reset, vars
  <2> QED
    BY <2>1, <2>2
<1>2. \A c \in Clients : Progress(c) /\ (reply[c].op \in {"save", "erase"}
                                           => reply[c].rc \in {0, -22})
  BY <1>1 DEF HealthyInv, HealthyFlashSaves
<1>3. \A c, d \in Clients :
        task[c].pc \in Working /\ task[d].pc \in Working => c = d
  BY DEF LockDiscipline
<1>4. ASSUME NEW c \in Clients, NEW r \in Replies, Return(c, r),
             r.op \in {"save", "erase"} => r.rc \in {0, -22},
             slot' = slot \/ task[c].pc \in Working
      PROVE  \A d \in Clients :
               /\ Progress(d)'
               /\ reply'[d].op \in {"save", "erase"} => reply'[d].rc \in {0, -22}
  <2>1. \A d \in Clients \ {c} : task'[d] = task[d] /\ reply'[d] = reply[d]
    BY <1>4 DEF Return
  <2>2. task'[c] = Idle /\ reply'[c] = r
    BY <1>4 DEF Return
  <2>3. Progress(c)'
    BY <2>2 DEF Progress, Idle
  <2>4. \A d \in Clients \ {c} : Progress(d)'
    <3>1. CASE slot' = slot
      BY <1>2, <2>1, <3>1 DEF Progress, Holds
    <3>2. CASE task[c].pc \in Working
      BY <1>3, <2>1, <3>2 DEF Progress, Working
    <3> QED
      BY <1>4, <3>1, <3>2
  <2> QED
    BY <1>2, <1>4, <2>1, <2>2, <2>3, <2>4
<1>5. ASSUME NEW c \in Clients, UNCHANGED reply, task[c].pc \in Working,
             \A d \in Clients \ {c} : task'[d] = task[d], Progress(c)'
      PROVE  \A d \in Clients :
               /\ Progress(d)'
               /\ reply'[d].op \in {"save", "erase"} => reply'[d].rc \in {0, -22}
  BY <1>2, <1>3, <1>5 DEF Progress, Working
<1>6. ASSUME NEW c \in Clients, NEW src, NEW len \in Cells, SaveCall(c, src, len)
      PROVE  \A d \in Clients :
               /\ Progress(d)'
               /\ reply'[d].op \in {"save", "erase"} => reply'[d].rc \in {0, -22}
  <2>1. CASE Validates(src, len)
    <3>1. /\ \A d \in Clients \ {c} : task'[d] = task[d]
          /\ task'[c].pc = "saveLock" /\ reply' = reply /\ slot' = slot
      BY <1>6, <2>1 DEF SaveCall
    <3> QED
      BY <1>2, <3>1 DEF Progress, Holds
  <2>2. CASE ~ Validates(src, len)
    <3>1. Reply("save", -22, NoBlob) \in Replies
      BY DEF Reply, Replies
    <3> QED
      BY <1>4, <1>6, <2>2, <3>1 DEF SaveCall, Reply
  <2> QED
    BY <2>1, <2>2
<1>7. ASSUME NEW c \in Clients, Load(c)
      PROVE  \A d \in Clients :
               /\ Progress(d)'
               /\ reply'[d].op \in {"save", "erase"} => reply'[d].rc \in {0, -22}
  <2>1. Validates(slot, SlotChunks) => BlobIn(slot) \in Blobs
    BY DEF Validates, BlobIn
  <2>2. \A rc \in {0, -2, -12}, b \in Blobs \cup {NoBlob} :
          Reply("load", rc, b) \in Replies /\ Reply("load", rc, b).op = "load"
    BY DEF Reply, Replies
  <2>3. PICK r \in Replies : Return(c, r) /\ r.op = "load"
    BY <1>7, <2>1, <2>2 DEF Load
  <2> QED
    BY <1>4, <1>7, <2>3 DEF Load
<1>8. ASSUME NEW c \in Clients, DiscardLock(c) \/ SaveLock(c)
      PROVE  \A d \in Clients :
               /\ Progress(d)'
               /\ reply'[d].op \in {"save", "erase"} => reply'[d].rc \in {0, -22}
  <2>1. \A d \in Clients : task[d].pc \notin Working
    BY <1>8, StoreAssumption DEF DiscardLock, SaveLock, LockDiscipline, StoreAssumption
  <2>2. /\ \A d \in Clients \ {c} : task'[d] = task[d]
        /\ reply' = reply /\ slot' = slot
    BY <1>8 DEF DiscardLock, SaveLock
  <2>3. task'[c].pc = "eraseSector" \/ (task'[c].pc = "eraseBlock" /\ task'[c].at = 1)
    BY <1>8 DEF DiscardLock, SaveLock, Task
  <2>4. \A i \in Cells : ~ ((i - 1) \div BlockChunks < 0)
    BY BlocksCover DEF Cells
  <2>5. Progress(c)'
    BY <2>3, <2>4 DEF Progress
  <2> QED
    BY <1>2, <2>1, <2>2, <2>5 DEF Progress, Working, Holds
<1>9. ASSUME NEW c \in Clients, EraseBlock(c) PROVE Progress(c)'
  <2> DEFINE k == task[c].at  EB == EraseBlocks(task[c].len)
  <2>1. k \in 1..EB /\ task[c].pc = "eraseBlock" /\ task[c].len \in Cells
    BY <1>9, StoreAssumption
    DEF EraseBlock, FullLength, Saving, StoreAssumption, WithinBlob
  <2>2. slot' = [i \in Cells |-> IF i \in BlockCells(k) THEN Erased ELSE slot[i]]
    BY <1>9 DEF EraseBlock
  <2>3. \A i \in Cells : (i - 1) \div BlockChunks \in Nat
    BY BlocksCover DEF Cells
  <2>4. \A i \in Cells : (i - 1) \div BlockChunks < k - 1 => slot[i] = Erased
    BY <1>2, <2>1 DEF Progress
  <2>5. k \in Nat
    BY <1>9 DEF Task
  <2>6. \A i \in Cells : (i - 1) \div BlockChunks < k => slot'[i] = Erased
    BY <2>2, <2>3, <2>4, <2>5 DEF BlockCells
  <2>7. CASE k < EB
    <3>1. task'[c].pc = "eraseBlock" /\ task'[c].at = k + 1
      BY <1>9, <2>7 DEF EraseBlock, Task
    <3> QED
      BY <2>5, <2>6, <3>1 DEF Progress
  <2>8. CASE ~ (k < EB)
    <3>1. task'[c].pc = "program" /\ task'[c].at = 1 /\ task'[c].len = task[c].len
      BY <1>9, <2>8 DEF EraseBlock, Task
    <3>2. k = EB
      BY <2>1, <2>8, <2>5, EraseBlocksBound
    <3>3. \A i \in 1..task[c].len : i \in Cells /\ (i - 1) \div BlockChunks < k
      BY <2>1, <3>2, BlocksCover, StoreAssumption DEF Cells, StoreAssumption
    <3>4. \A i \in 1..task[c].len : slot'[i] = Erased
      BY <2>6, <3>3
    <3> QED
      BY <3>1, <3>4 DEF Progress
  <2> QED
    BY <2>7, <2>8
<1>10. ASSUME NEW c \in Clients, ProgramChunk(c, Source(c)) PROVE Progress(c)'
  <2> DEFINE k == task[c].at  b == task[c].blob
  <2>1. /\ task[c].pc = "program" /\ k \in 1..task[c].len /\ b \in Blobs
        /\ task[c].len = Chunks[b] /\ Chunks[b] \in Cells /\ k \in Cells
    BY <1>10, StoreAssumption
    DEF ProgramChunk, FullLength, Saving, StoreAssumption, WithinBlob, Cells
  <2>2. slot[k] = Erased /\ Source(c)[k] = Chunk(b, k)
    <3>1. slot[k] = Erased
      BY <1>2, <2>1 DEF Progress, Cells
    <3>2. Source(c)[k] = Chunk(b, k)
      BY <2>1, ImageHolds DEF Source, Holds
    <3> QED
      BY <3>1, <3>2
  <2>3. slot' = [slot EXCEPT ![k] = Chunk(b, k)]
    BY <1>1, <1>10, <2>2 DEF ProgramChunk, Programmed
  <2>4. \A i \in 1..k : slot'[i] = Chunk(b, i)
    BY <1>2, <2>1, <2>3 DEF Progress, Cells
  <2>5. \A i \in (k + 1)..task[c].len : slot'[i] = Erased
    BY <1>2, <2>1, <2>3 DEF Progress, Cells
  <2>6. CASE k < task[c].len
    <3>1. /\ task'[c].pc = "program" /\ task'[c].at = k + 1
          /\ task'[c].blob = b /\ task'[c].len = task[c].len
      BY <1>10, <2>6 DEF ProgramChunk, Task
    <3>2. (k + 1) - 1 = k
      BY <2>1 DEF Cells
    <3> QED
      BY <2>4, <2>5, <3>1, <3>2 DEF Progress
  <2>7. CASE ~ (k < task[c].len)
    <3>1. task'[c].pc = "verify" /\ task'[c].blob = b
      BY <1>10, <2>7 DEF ProgramChunk, Task
    <3>2. k = Chunks[b]
      BY <2>1, <2>7 DEF Cells
    <3> QED
      BY <2>4, <3>1, <3>2 DEF Progress, Holds
  <2> QED
    BY <2>6, <2>7
<1>11. ASSUME NEW c \in Clients, Verify(c, Source(c))
       PROVE  \A d \in Clients :
                /\ Progress(d)'
                /\ reply'[d].op \in {"save", "erase"} => reply'[d].rc \in {0, -22}
  <2>1. /\ task[c].blob \in Blobs /\ task[c].len = Chunks[task[c].blob]
        /\ Holds(slot, task[c].blob)
    BY <1>2, <1>11 DEF Verify, FullLength, Saving, Progress
  <2>2. \A i \in 1..task[c].len : slot[i] = Source(c)[i]
    BY <2>1, ImageHolds DEF Source, Holds
  <2>3. Return(c, Reply("save", 0, task[c].blob))
    BY <1>11, <2>2 DEF Verify
  <2>4. Reply("save", 0, task[c].blob) \in Replies /\ Reply("save", 0, task[c].blob).rc = 0
    BY <2>1 DEF Reply, Replies
  <2> QED
    BY <1>4, <1>11, <2>3, <2>4 DEF Verify
<1>12. ASSUME NEW c \in Clients, EraseSector(c)
       PROVE  \A d \in Clients :
                /\ Progress(d)'
                /\ reply'[d].op \in {"save", "erase"} => reply'[d].rc \in {0, -22}
  <2>1. Return(c, Reply("erase", 0, NoBlob))
    BY <1>1, <1>12 DEF EraseSector, FlashFails
  <2>2. Reply("erase", 0, NoBlob) \in Replies /\ Reply("erase", 0, NoBlob).rc = 0
    BY DEF Reply, Replies
  <2> QED
    BY <1>4, <1>12, <2>1, <2>2 DEF EraseSector, Working
<1>13. CASE UNCHANGED vars
  BY <1>2, <1>13 DEF vars, Progress, Holds
<1>14. Chunks \in [Blobs -> Cells] /\ SlotChunks \in Cells
  BY StoreAssumption DEF StoreAssumption, Cells
<1>15. ASSUME NEW c \in Clients, EraseBlock(c) \/ ProgramChunk(c, Source(c))
       PROVE  /\ UNCHANGED reply /\ task[c].pc \in Working
              /\ \A d \in Clients \ {c} : task'[d] = task[d]
  BY <1>15 DEF EraseBlock, ProgramChunk, Working
<1> HIDE DEF StoreInv, TypeOK
<1> QED
  BY <1>1, <1>5, <1>6, <1>7, <1>8, <1>9, <1>10, <1>11, <1>12, <1>13, <1>14, <1>15
  DEF Next, Call, Work, EraseBlockFails, ProgramChunkFails, FlashFails, Reset

(* On a flash that makes no error every save of a valid model succeeds,     *)
(* whatever size of model was in the slot: the erased blocks cover it, and  *)
(* the mutex keeps the other task out.                                      *)
THEOREM HealthyFlash == Spec => []HealthyFlashSaves
<1>1. Init => HealthyInv
  BY DEF Init, HealthyInv, HealthyFlashSaves, Progress, Idle, NoReply
<1>2. StoreInv /\ HealthyInv /\ [Next]_vars => HealthyInv'
  BY HealthyStep
<1> QED
  BY <1>1, <1>2, StoreInvariance, PTL DEF Spec, HealthyInv

-----------------------------------------------------------------------------
(* The slot of ModelSlot *)

Stored == IF Validates(slot, SlotChunks) THEN BlobIn(slot) ELSE NoBlob

LEMMA StoredHolds ==
  ASSUME NEW b \in Blobs
  PROVE  /\ Stored = b <=> Holds(slot, b)
         /\ Stored' = b <=> Holds(slot', b)
<1>1. b # NoBlob /\ Chunks[b] <= SlotChunks
  BY StoreAssumption DEF StoreAssumption, Cells
<1>2. Validates(slot, SlotChunks) =>
        BlobIn(slot) \in Blobs /\ Holds(slot, BlobIn(slot))
  BY DEF Validates, BlobIn
<1>3. Validates(slot', SlotChunks) =>
        BlobIn(slot') \in Blobs /\ Holds(slot', BlobIn(slot'))
  BY DEF Validates, BlobIn
<1>4. Holds(slot, b) => Validates(slot, SlotChunks) /\ BlobIn(slot) = b
  BY <1>1, BlobInHolds DEF Validates
<1>5. Holds(slot', b) => Validates(slot', SlotChunks) /\ BlobIn(slot') = b
  BY <1>1, BlobInHolds DEF Validates
<1>6. Stored' = IF Validates(slot', SlotChunks) THEN BlobIn(slot') ELSE NoBlob
  BY DEF Stored
<1> QED
  BY <1>1, <1>2, <1>3, <1>4, <1>5, <1>6 DEF Stored

LEMMA StoredType == Stored \in Blobs \cup {NoBlob} /\ Stored' \in Blobs \cup {NoBlob}
<1>1. Validates(slot, SlotChunks) => BlobIn(slot) \in Blobs
  BY DEF Validates, BlobIn
<1>2. Validates(slot', SlotChunks) => BlobIn(slot') \in Blobs
  BY DEF Validates, BlobIn
<1>3. Stored' = IF Validates(slot', SlotChunks) THEN BlobIn(slot') ELSE NoBlob
  BY DEF Stored
<1> QED
  BY <1>1, <1>2, <1>3 DEF Stored

(* Erasing and spoiling cells never makes a blob. *)
LEMMA SpoilClears ==
  ASSUME \A i \in Cells : slot'[i] = slot[i] \/ slot'[i] \in {Erased, Garbage}
  PROVE  Stored' \in {Stored, NoBlob}
<1> SUFFICES ASSUME Stored' # NoBlob PROVE Stored' = Stored
  OBVIOUS
<1> DEFINE b == Stored'
<1>1. b \in Blobs
  BY StoredType
<1>2. Holds(slot', b)
  BY <1>1, StoredHolds
<1>3. \A i \in 1..Chunks[b] : i \in Cells /\ Chunk(b, i) \notin {Erased, Garbage}
  BY <1>1, StoreAssumption DEF StoreAssumption, Cells
<1>4. Holds(slot, b)
  BY <1>2, <1>3 DEF Holds
<1> QED
  BY <1>1, <1>4, StoredHolds

(* A programmed chunk completes a blob only where there was none, for the   *)
(* first cell tells the blob and is not overwritten.                        *)
LEMMA ProgramFills ==
  ASSUME NEW k \in Cells, NEW new,
         \A i \in Cells \ {k} : slot'[i] = slot[i],
         slot'[k] = Programmed(slot[k], new)
  PROVE  Stored' \in {Stored, NoBlob} \/ (Stored = NoBlob /\ Stored' \in Blobs)
<1> SUFFICES ASSUME Stored # NoBlob, Stored' # NoBlob PROVE Stored' = Stored
  BY StoredType
<1> DEFINE b == Stored  d == Stored'
<1>1. b \in Blobs /\ d \in Blobs
  BY StoredType
<1>2. Holds(slot, b) /\ Holds(slot', d)
  BY <1>1, StoredHolds
<1>3. 1 \in Cells /\ 1 \in 1..Chunks[b] /\ 1 \in 1..Chunks[d]
  BY <1>1, StoreAssumption DEF StoreAssumption, Cells
<1>4. slot[1] = Chunk(b, 1) /\ slot'[1] = Chunk(d, 1)
  BY <1>2, <1>3 DEF Holds
<1>5. slot[1] # Erased /\ slot'[1] # Garbage
  BY <1>1, <1>3, <1>4, StoreAssumption DEF StoreAssumption
<1>6. slot'[1] = slot[1]
  BY <1>3, <1>5 DEF Programmed
<1>7. b = d
  BY <1>4, <1>6 DEF Chunk
<1> QED
  BY <1>7

(* The answers of the abstract slot. *)
LEMMA AbstractSteps ==
  /\ UNCHANGED <<Stored, reply>> => UNCHANGED Slot!vars
  /\ reply' = reply /\ Stored' \in {Stored, NoBlob} =>
       Slot!Next \/ UNCHANGED Slot!vars
  /\ reply' = reply /\ Stored = NoBlob /\ Stored' \in Blobs => Slot!Next
  /\ reply' = [c \in Clients |-> NoReply] /\ Stored' \in {Stored, NoBlob} => Slot!Next
  BY DEF Slot!vars, Slot!Next, Slot!Clear, Slot!Fill, Slot!Reset, Slot!SilentReply,
     NoReply, Stored

LEMMA AbstractAnswers ==
  ASSUME NEW c \in Clients
  PROVE  /\ \A op \in {"save", "erase"}, rc \in {-5, -22, -84, -110} :
              /\ reply' = [reply EXCEPT ![c] = Reply(op, rc, NoBlob)]
              /\ Stored' \in {Stored, NoBlob}
              => Slot!Next
         /\ /\ reply' = [reply EXCEPT ![c] = Reply("save", 0, Stored)]
            /\ Stored # NoBlob /\ Stored' = Stored
            => Slot!Next
         /\ /\ reply' = [reply EXCEPT ![c] = Reply("erase", 0, NoBlob)]
            /\ Stored' = NoBlob
            => Slot!Next
         /\ /\ reply' = [reply EXCEPT ![c] = Reply("load", 0, Stored)]
            /\ Stored # NoBlob /\ Stored' = Stored
            => Slot!Next
         /\ \A rc \in {-2, -12} :
              /\ reply' = [reply EXCEPT ![c] = Reply("load", rc, NoBlob)]
              /\ Stored = NoBlob /\ Stored' = Stored
              => Slot!Next
<1>1. \A op \in {"save", "erase"}, rc \in {-5, -22, -84, -110} :
        /\ reply' = [reply EXCEPT ![c] = Reply(op, rc, NoBlob)]
        /\ Stored' \in {Stored, NoBlob}
        => Slot!Fails(c)
  BY DEF Slot!Fails, Slot!Answer, Reply, Stored
<1>2. /\ reply' = [reply EXCEPT ![c] = Reply("save", 0, Stored)]
      /\ Stored # NoBlob /\ Stored' = Stored
      => Slot!SaveOk(c)
  BY DEF Slot!SaveOk, Slot!Answer, Reply, Stored
<1>3. /\ reply' = [reply EXCEPT ![c] = Reply("erase", 0, NoBlob)]
      /\ Stored' = NoBlob
      => Slot!EraseOk(c)
  BY DEF Slot!EraseOk, Slot!Answer, Reply, Stored
<1>4. /\ reply' = [reply EXCEPT ![c] = Reply("load", 0, Stored)]
      /\ Stored # NoBlob /\ Stored' = Stored
      => Slot!LoadAnswers(c)
  BY DEF Slot!LoadAnswers, Slot!Answer, Reply, Stored
<1>5. \A rc \in {-2, -12} :
        /\ reply' = [reply EXCEPT ![c] = Reply("load", rc, NoBlob)]
        /\ Stored = NoBlob /\ Stored' = Stored
        => Slot!LoadAnswers(c)
  BY DEF Slot!LoadAnswers, Slot!Answer, Reply, Stored
<1> QED
  BY <1>1, <1>2, <1>3, <1>4, <1>5 DEF Slot!Next

LEMMA SlotStep == StoreInv /\ [Next]_vars => Slot!Next \/ UNCHANGED Slot!vars
<1> SUFFICES ASSUME StoreInv, [Next]_vars PROVE Slot!Next \/ UNCHANGED Slot!vars
  OBVIOUS
<1>1. slot' = slot => Stored' = Stored
  BY DEF Stored
<1>2. ASSUME NEW c \in Clients, NEW src, NEW len, SaveCall(c, src, len)
      PROVE  Slot!Next \/ UNCHANGED Slot!vars
  <2>1. CASE Validates(src, len)
    BY <1>1, <1>2, <2>1, AbstractSteps DEF SaveCall
  <2>2. CASE ~ Validates(src, len)
    BY <1>1, <1>2, <2>2, AbstractAnswers DEF SaveCall, Return
  <2> QED
    BY <2>1, <2>2
<1>3. ASSUME NEW c \in Clients, Load(c) PROVE Slot!Next \/ UNCHANGED Slot!vars
  <2>1. Stored' = Stored
    BY <1>1, <1>3 DEF Load
  <2>2. CASE Validates(slot, SlotChunks)
    <3>1. BlobIn(slot) \in Blobs
      BY <2>2 DEF Validates, BlobIn
    <3>2. Stored = BlobIn(slot) /\ Stored # NoBlob
      BY <2>2, <3>1, StoreAssumption DEF Stored, StoreAssumption
    <3>3. reply' = [reply EXCEPT ![c] = Reply("load", 0, Stored)]
      BY <1>3, <2>2, <3>2 DEF Load, Return
    <3> QED
      BY <2>1, <3>2, <3>3, AbstractAnswers
  <2>3. CASE ~ Validates(slot, SlotChunks)
    <3>1. Stored = NoBlob
      BY <2>3 DEF Stored
    <3>2. \E rc \in {-2, -12} : reply' = [reply EXCEPT ![c] = Reply("load", rc, NoBlob)]
      BY <1>3, <2>3 DEF Load, Return
    <3> QED
      BY <2>1, <3>1, <3>2, AbstractAnswers
  <2> QED
    BY <2>2, <2>3
<1>4. ASSUME NEW c \in Clients, DiscardLock(c) \/ SaveLock(c)
      PROVE  Slot!Next \/ UNCHANGED Slot!vars
  BY <1>1, <1>4, AbstractSteps DEF DiscardLock, SaveLock
<1>5. ASSUME NEW c \in Clients, EraseBlock(c) PROVE Slot!Next \/ UNCHANGED Slot!vars
  <2>1. Stored' \in {Stored, NoBlob}
    BY <1>5, SpoilClears DEF EraseBlock
  <2> QED
    BY <1>5, <2>1, AbstractSteps DEF EraseBlock
<1>6. ASSUME NEW c \in Clients, NEW op \in {"save", "erase"}, NEW S, FlashFails(c, op, S)
      PROVE  Slot!Next \/ UNCHANGED Slot!vars
  <2>1. Stored' \in {Stored, NoBlob}
    BY <1>6, SpoilClears DEF FlashFails
  <2>2. \E rc \in {-5, -110} : reply' = [reply EXCEPT ![c] = Reply(op, rc, NoBlob)]
    BY <1>6 DEF FlashFails, Return
  <2> QED
    BY <2>1, <2>2, AbstractAnswers
<1>7. ASSUME NEW c \in Clients, ProgramChunk(c, Source(c))
      PROVE  Slot!Next \/ UNCHANGED Slot!vars
  <2> DEFINE k == task[c].at
  <2>1. k \in Cells
    BY <1>7, StoreAssumption
    DEF ProgramChunk, StoreInv, FullLength, Saving, TypeOK, WithinBlob, StoreAssumption, Cells
  <2>2. slot \in [Cells -> Cell]
    BY DEF StoreInv, TypeOK
  <2>3. Stored' \in {Stored, NoBlob} \/ (Stored = NoBlob /\ Stored' \in Blobs)
    <3>1. CASE slot' = [slot EXCEPT ![k] = Programmed(@, Source(c)[k])]
      BY <2>1, <2>2, <3>1, ProgramFills
    <3>2. CASE slot' = [slot EXCEPT ![k] = Garbage]
      BY <2>1, <2>2, <3>2, SpoilClears
    <3> QED
      BY <1>7, <3>1, <3>2 DEF ProgramChunk
  <2>4. reply' = reply
    BY <1>7 DEF ProgramChunk
  <2> QED
    BY <2>3, <2>4, AbstractSteps
<1>8. ASSUME NEW c \in Clients, Verify(c, Source(c))
      PROVE  Slot!Next \/ UNCHANGED Slot!vars
  <2>1. Stored' = Stored
    BY <1>1, <1>8 DEF Verify
  <2>2. CASE \A i \in 1..task[c].len : slot[i] = Source(c)[i]
    <3>1. task[c].blob \in Blobs /\ task[c].len = Chunks[task[c].blob]
      BY <1>8 DEF Verify, StoreInv, FullLength, Saving
    <3>2. Holds(slot, task[c].blob)
      BY <2>2, <3>1, ImageHolds DEF Source, Holds
    <3>3. Stored = task[c].blob /\ Stored # NoBlob
      BY <3>1, <3>2, StoredHolds, StoreAssumption DEF StoreAssumption
    <3>4. reply' = [reply EXCEPT ![c] = Reply("save", 0, Stored)]
      BY <1>8, <2>2, <3>3 DEF Verify, Return
    <3> QED
      BY <2>1, <3>3, <3>4, AbstractAnswers
  <2>3. CASE ~ \A i \in 1..task[c].len : slot[i] = Source(c)[i]
    BY <1>8, <2>1, <2>3, AbstractAnswers DEF Verify, Return
  <2> QED
    BY <2>2, <2>3
<1>9. ASSUME NEW c \in Clients, EraseSector(c) PROVE Slot!Next \/ UNCHANGED Slot!vars
  <2>1. CASE FlashFails(c, "erase", SectorCells)
    BY <1>6, <2>1
  <2>2. CASE ~ FlashFails(c, "erase", SectorCells)
    <3>1. /\ slot' = [i \in Cells |-> IF i \in SectorCells THEN Erased ELSE slot[i]]
          /\ reply' = [reply EXCEPT ![c] = Reply("erase", 0, NoBlob)]
      BY <1>9, <2>2 DEF EraseSector, Return
    <3>2. 1 \in Cells /\ 1 \in SectorCells
      BY StoreAssumption DEF StoreAssumption, Cells, SectorCells
    <3>3. slot'[1] = Erased
      BY <3>1, <3>2
    <3>4. \A b \in Blobs : ~ Holds(slot', b)
      BY <3>2, <3>3, StoreAssumption DEF StoreAssumption, Holds, Cells
    <3>5. Stored' = NoBlob
      BY <3>4, StoredHolds, StoredType
    <3> QED
      BY <3>1, <3>5, AbstractAnswers
  <2> QED
    BY <2>1, <2>2
<1>10. CASE Reset
  <2>1. Stored' \in {Stored, NoBlob}
    BY <1>10, SpoilClears DEF Reset
  <2> QED
    BY <1>10, <2>1, AbstractSteps DEF Reset
<1>11. CASE UNCHANGED vars
  BY <1>1, <1>11, AbstractSteps DEF vars
<1> QED
  BY <1>2, <1>3, <1>4, <1>5, <1>6, <1>7, <1>8, <1>9, <1>10, <1>11
  DEF Next, Call, Work, EraseBlockFails, ProgramChunkFails

(* The in-place rewrite of model_store.c implements the all-or-nothing slot *)
(* of ModelSlot: no caller ever sees one model turn into another, or a      *)
(* model made of pieces, whatever fails and whenever the board is reset.    *)
THEOREM Implements == Spec => ImplementsSlot
<1>1. Init => Slot!Init
  <2> SUFFICES ASSUME Init PROVE Slot!Init
    OBVIOUS
  <2>1. 1 \in Cells /\ slot[1] = Erased
    BY StoreAssumption DEF Init, StoreAssumption, Cells
  <2>2. \A b \in Blobs : ~ Holds(slot, b)
    BY <2>1, StoreAssumption DEF StoreAssumption, Holds, Cells
  <2>3. Stored = NoBlob
    BY <2>2, StoredHolds, StoredType
  <2> QED
    BY <2>3 DEF Init, Slot!Init, Slot!SilentReply, NoReply, Stored
<1>2. StoreInv /\ [Next]_vars => [Slot!Next]_(Slot!vars)
  BY SlotStep
<1> QED
  BY <1>1, <1>2, StoreInvariance, PTL DEF Spec, ImplementsSlot, Slot!Spec
=============================================================================
