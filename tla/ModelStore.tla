------------------------------ MODULE ModelStore ------------------------------
(***************************************************************************)
(* The OSPI model slot of src/src/model_store/model_store.c: a NOR flash   *)
(* region that holds at most one IOTV model envelope, rewritten in place   *)
(* (erase covering blocks, program 64-byte chunks header first, read back) *)
(* under the file-system mutex of iotc_fs.c.  The board may lose power or  *)
(* be reset between any two flash commands.                                *)
(*                                                                         *)
(* Data abstraction.  A chunk of flash or RAM is a cell: Chunk(b, i), the  *)
(* i-th piece of blob b; Erased; or Garbage (anything else: half-written,  *)
(* worn or overwritten bits).  The CRC is taken to be perfect: an envelope *)
(* validates exactly when all its cells come from one blob, in order.      *)
(* Cell 1 is the piece with the IOTV header.                               *)
(*                                                                         *)
(* The actions take the caller's RAM buffer as an argument, because the    *)
(* code programs and verifies against the buffer as it is at each command: *)
(* here every caller leaves its buffer alone (Source), HotSwap passes the  *)
(* buffer that the other tasks share.                                      *)
(***************************************************************************)
EXTENDS Integers

CONSTANTS Clients,      \* tasks that call the store
          Blobs,        \* the complete, well-formed IOTV envelopes
          Chunks,       \* Chunks[b]: length of blob b, in programming chunks
          SlotChunks,   \* size of the slot, in chunks
          BlockChunks,  \* chunks in one erase block (OSPI_BLOCK_ERASE)
          SectorChunks, \* chunks in the sector model_store_erase erases
          MaxFaults,    \* bound: flash faults and resets in one behaviour
          NoClient, NoBlob, Erased, Garbage

Cells == 1..SlotChunks
Chunk(b, i) == <<b, i>>

ASSUME StoreAssumption ==
  /\ SlotChunks \in Nat \ {0}
  /\ BlockChunks \in Nat \ {0}
  /\ SectorChunks \in 1..BlockChunks
  /\ MaxFaults \in Nat
  /\ Chunks \in [Blobs -> Cells]
  /\ NoClient \notin Clients
  /\ NoBlob \notin Blobs
  /\ \A b \in Blobs, i \in Cells : Chunk(b, i) \notin {Erased, Garbage}
  /\ Erased # Garbage

VARIABLES
  slot,    \* the flash cells; survives a reset
  fsLock,  \* holder of the iotc_fs mutex
  task,    \* task[c]: where client c is inside a store call
  reply,   \* reply[c]: what the last call of client c returned
  saved,   \* history: blob of the last save that returned 0, until a later
           \* call starts changing the slot; a reset does not clear it
  faults   \* number of flash faults and resets so far (bounds the runs)

vars == <<slot, fsLock, task, reply, saved, faults>>

Cell == {Chunk(b, i) : b \in Blobs, i \in Cells} \cup {Erased, Garbage}

NoReply == [op |-> "none", rc |-> 0, blob |-> NoBlob]
Reply(op, rc, b) == [op |-> op, rc |-> rc, blob |-> b]
Idle == [pc |-> "idle", len |-> 0, at |-> 0, blob |-> NoBlob]

(* A RAM or flash region holds blob b: every chunk of the envelope is there. *)
Holds(region, b) == \A i \in 1..Chunks[b] : region[i] = Chunk(b, i)

(* iotv_validate(region, len) returns NULL. *)
Validates(region, len) == \E b \in Blobs : Chunks[b] <= len /\ Holds(region, b)

BlobIn(region) == CHOOSE b \in Blobs : Holds(region, b)

(* A freshly filled RAM buffer with blob b at its start. *)
Image(b) == [i \in Cells |-> IF i <= Chunks[b] THEN Chunk(b, i) ELSE Garbage]

(* Mutant: the last, partly filled block is forgotten. *)
FullBlocksOnly(len) == len \div BlockChunks

(* erase_len of model_store_save: whole blocks covering the blob. *)
EraseBlocks(len) == (len + BlockChunks - 1) \div BlockChunks
SectorCells == {i \in Cells : i <= SectorChunks}
BlockCells(k) == {i \in Cells : (i - 1) \div BlockChunks = k - 1}

(* NOR programming clears bits only: a cell that was not erased is spoilt. *)
Programmed(old, new) == IF old = Erased \/ old = new THEN new ELSE Garbage

Init ==
  /\ slot = [i \in Cells |-> Erased]
  /\ fsLock = NoClient
  /\ task = [c \in Clients |-> Idle]
  /\ reply = [c \in Clients |-> NoReply]
  /\ saved = NoBlob
  /\ faults = 0

Return(c, r) ==
  /\ task' = [task EXCEPT ![c] = Idle]
  /\ reply' = [reply EXCEPT ![c] = r]

Unlock(c) == fsLock' = NoClient

Fault ==
  /\ faults < MaxFaults
  /\ faults' = faults + 1

(* A flash command fails or times out (-5, -110); the cells it worked on   *)
(* keep their contents or are left half-written.                           *)
FlashFails(c, op, cells) ==
  /\ Fault
  /\ \E torn \in SUBSET cells :
       slot' = [i \in Cells |-> IF i \in torn THEN Garbage ELSE slot[i]]
  /\ \E rc \in {-5, -110} : Return(c, Reply(op, rc, NoBlob))
  /\ Unlock(c)

-----------------------------------------------------------------------------
(* model_store_save(src, len) *)

(* iotv_validate runs before the lock is taken. *)
SaveCall(c, src, len) ==
  /\ task[c].pc = "idle"
  /\ IF Validates(src, len)
     THEN /\ task' = [task EXCEPT ![c] = [pc |-> "saveLock", len |-> len,
                                          at |-> 0, blob |-> BlobIn(src)]]
          /\ UNCHANGED reply
     ELSE Return(c, Reply("save", -22, NoBlob))
  /\ UNCHANGED <<slot, fsLock, saved, faults>>

(* Mutant: the flash is rewritten without waiting for the mutex. *)
SaveUnlocked(c) ==
  /\ task[c].pc = "saveLock"
  /\ fsLock' = c
  /\ task' = [task EXCEPT ![c].pc = "eraseBlock", ![c].at = 1]
  /\ saved' = NoBlob
  /\ UNCHANGED <<slot, reply, faults>>

SaveLock(c) ==
  /\ task[c].pc = "saveLock"
  /\ fsLock = NoClient
  /\ fsLock' = c
  /\ task' = [task EXCEPT ![c].pc = "eraseBlock", ![c].at = 1]
  /\ saved' = NoBlob
  /\ UNCHANGED <<slot, reply, faults>>

EraseBlock(c) ==
  LET k == task[c].at IN
  /\ task[c].pc = "eraseBlock"
  /\ slot' = [i \in Cells |-> IF i \in BlockCells(k) THEN Erased ELSE slot[i]]
  /\ task' = [task EXCEPT ![c] =
                 IF k < EraseBlocks(@.len) THEN [@ EXCEPT !.at = k + 1]
                 ELSE [@ EXCEPT !.pc = "program", !.at = 1]]
  /\ UNCHANGED <<fsLock, reply, saved, faults>>

EraseBlockFails(c) ==
  /\ task[c].pc = "eraseBlock"
  /\ FlashFails(c, "save", BlockCells(task[c].at))
  /\ UNCHANGED saved

(* One chunk; a write the device accepts may still leave a bad cell. *)
ProgramChunk(c, src) ==
  LET k == task[c].at IN
  /\ task[c].pc = "program"
  /\ \/ /\ slot' = [slot EXCEPT ![k] = Programmed(@, src[k])]
        /\ UNCHANGED faults
     \/ /\ slot' = [slot EXCEPT ![k] = Garbage]
        /\ Fault
  /\ task' = [task EXCEPT ![c] =
                 IF k < @.len THEN [@ EXCEPT !.at = k + 1]
                 ELSE [@ EXCEPT !.pc = "verify"]]
  /\ UNCHANGED <<fsLock, reply, saved>>

ProgramChunkFails(c) ==
  /\ task[c].pc = "program"
  /\ FlashFails(c, "save", {task[c].at})
  /\ UNCHANGED saved

(* Mutant: the read-back stops one chunk early. *)
VerifyShort(c, src) ==
  /\ task[c].pc = "verify"
  /\ IF \A i \in 1..(task[c].len - 1) : slot[i] = src[i]
     THEN /\ Return(c, Reply("save", 0, task[c].blob))
          /\ saved' = task[c].blob
     ELSE /\ Return(c, Reply("save", -84, NoBlob))
          /\ UNCHANGED saved
  /\ Unlock(c)
  /\ UNCHANGED <<slot, faults>>

Verify(c, src) ==
  /\ task[c].pc = "verify"
  /\ IF \A i \in 1..task[c].len : slot[i] = src[i]
     THEN /\ Return(c, Reply("save", 0, task[c].blob))
          /\ saved' = task[c].blob
     ELSE /\ Return(c, Reply("save", -84, NoBlob))
          /\ UNCHANGED saved
  /\ Unlock(c)
  /\ UNCHANGED <<slot, faults>>

-----------------------------------------------------------------------------
(* Mutant: the header is looked at, not the CRC. *)
LoadByHeader(c) ==
  /\ task[c].pc = "idle"
  /\ fsLock = NoClient
  /\ \/ \E b \in Blobs : slot[1] = Chunk(b, 1) /\ Return(c, Reply("load", 0, b))
     \/ /\ \A b \in Blobs : slot[1] # Chunk(b, 1)
        /\ Return(c, Reply("load", -2, NoBlob))
  /\ UNCHANGED <<slot, fsLock, saved, faults>>

(* Mutant: a blob that fills the slot is saved, but refused by a load. *)
LoadBelowLimit(c) ==
  /\ task[c].pc = "idle"
  /\ fsLock = NoClient
  /\ \/ /\ Validates(slot, SlotChunks - 1)
        /\ Return(c, Reply("load", 0, BlobIn(slot)))
     \/ /\ ~ Validates(slot, SlotChunks - 1)
        /\ Return(c, Reply("load", -12, NoBlob))
  /\ UNCHANGED <<slot, fsLock, saved, faults>>

(* model_store_load: one critical section, so one step.  With a damaged    *)
(* header the magic may or may not read as IOTV, so the empty (-2) and the *)
(* length (-12) answers are both possible.                                 *)
Load(c) ==
  /\ task[c].pc = "idle"
  /\ fsLock = NoClient
  /\ \/ /\ Validates(slot, SlotChunks)
        /\ Return(c, Reply("load", 0, BlobIn(slot)))
     \/ /\ ~ Validates(slot, SlotChunks)
        /\ \E rc \in {-2} \cup (IF slot[1] = Garbage THEN {-12} ELSE {}) :
             Return(c, Reply("load", rc, NoBlob))
  /\ UNCHANGED <<slot, fsLock, saved, faults>>

(* model_store_erase: one 4096-byte sector at the slot start, which holds  *)
(* the header.                                                             *)
DiscardLock(c) ==
  /\ task[c].pc = "idle"
  /\ fsLock = NoClient
  /\ fsLock' = c
  /\ task' = [task EXCEPT ![c].pc = "eraseSector"]
  /\ saved' = NoBlob
  /\ UNCHANGED <<slot, reply, faults>>

(* Mutant: the address is the end of the slot, not its start. *)
EraseWrongSector(c) ==
  /\ task[c].pc = "eraseSector"
  /\ Return(c, Reply("erase", 0, NoBlob))
  /\ Unlock(c)
  /\ UNCHANGED <<slot, saved, faults>>

EraseSector(c) ==
  /\ task[c].pc = "eraseSector"
  /\ \/ /\ slot' = [i \in Cells |-> IF i \in SectorCells THEN Erased ELSE slot[i]]
        /\ Return(c, Reply("erase", 0, NoBlob))
        /\ UNCHANGED faults
        /\ Unlock(c)
     \/ FlashFails(c, "erase", SectorCells)
  /\ UNCHANGED saved

-----------------------------------------------------------------------------
(* Cells a flash command is working on when the supply or the core stops. *)
InFlight ==
  UNION {CASE task[c].pc = "eraseBlock"  -> BlockCells(task[c].at)
           [] task[c].pc = "program"     -> {task[c].at}
           [] task[c].pc = "eraseSector" -> SectorCells
           [] OTHER -> {} : c \in Clients}

(* Power loss, or NVIC_SystemReset while another task is in the store. *)
Reset ==
  /\ \E torn \in SUBSET InFlight :
       slot' = [i \in Cells |-> IF i \in torn THEN Garbage ELSE slot[i]]
  /\ fsLock' = NoClient
  /\ task' = [c \in Clients |-> Idle]
  /\ reply' = [c \in Clients |-> NoReply]
  /\ Fault
  /\ UNCHANGED saved

-----------------------------------------------------------------------------
(* The caller's buffer, which it leaves alone until the call returns. *)
Source(c) == Image(task[c].blob)

Corrupt == [i \in Cells |-> Garbage]

Call(c) ==
  \/ \E b \in Blobs : SaveCall(c, Image(b), Chunks[b])
  \/ SaveCall(c, Corrupt, SlotChunks)
  \/ Load(c)
  \/ DiscardLock(c)

Work(c) ==
  \/ EraseBlock(c)   \/ EraseBlockFails(c)
  \/ ProgramChunk(c, Source(c)) \/ ProgramChunkFails(c)
  \/ Verify(c, Source(c))
  \/ EraseSector(c)

Next ==
  \/ \E c \in Clients : Call(c) \/ SaveLock(c) \/ Work(c)
  \/ Reset

Spec == Init /\ [][Next]_vars

-----------------------------------------------------------------------------
(* Type correctness; a save never works on a block or a chunk outside the   *)
(* blob it was given.                                                       *)
Task == [pc : {"idle", "saveLock", "eraseBlock", "program", "verify", "eraseSector"},
         len : 0..SlotChunks, at : 0..SlotChunks, blob : Blobs \cup {NoBlob}]

Replies == [op : {"none", "save", "load", "erase"},
            rc : {0, -2, -5, -12, -22, -84, -110}, blob : Blobs \cup {NoBlob}]

WithinBlob(t) ==
  /\ t.pc = "eraseBlock" => t.at \in 1..EraseBlocks(t.len)
  /\ t.pc = "program" => t.at \in 1..t.len

TypeOK ==
  /\ slot \in [Cells -> Cell]
  /\ fsLock \in Clients \cup {NoClient}
  /\ task \in [Clients -> Task]
  /\ reply \in [Clients -> Replies]
  /\ saved \in Blobs \cup {NoBlob}
  /\ faults \in 0..MaxFaults
  /\ \A c \in Clients : WithinBlob(task[c])

(* A model whose save answered 0 is in the slot, complete, through resets   *)
(* and whatever the other clients do, until a later save or erase starts.   *)
Durable == saved # NoBlob => Holds(slot, saved)

(* The next load, in this boot or a later one, answers with that model.     *)
LoadReturnsSaved ==
  [][\A c \in Clients :
        (saved # NoBlob /\ reply'[c] # reply[c] /\ reply'[c].op = "load")
          => reply'[c].rc = 0 /\ reply'[c].blob = saved]_vars

(* On a flash that makes no error, saving a valid model succeeds however    *)
(* the slot was left by earlier saves of other sizes.                       *)
HealthyFlashSaves ==
  faults = 0 => \A c \in Clients :
                  reply[c].op \in {"save", "erase"} => reply[c].rc \in {0, -22}

(* The in-place rewrite with read-back implements the all-or-nothing slot.  *)
Slot == INSTANCE ModelSlot WITH
  stored <- IF Validates(slot, SlotChunks) THEN BlobIn(slot) ELSE NoBlob

ImplementsSlot == Slot!Spec
=============================================================================
