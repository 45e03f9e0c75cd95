-------------------------- MODULE DeviceConfigProofs --------------------------
(***************************************************************************)
(* The identity of DeviceConfig, for any fields, values, commands and      *)
(* faults: it is complete when it is used, PKCS#11 holds it or nothing,    *)
(* once applied it is what the files hold, and the console sees the store  *)
(* ConfigStore describes.                                                  *)
(***************************************************************************)
EXTENDS DeviceConfig, TLAPS

-----------------------------------------------------------------------------
(* The console and its files *)

CliTyping ==
  /\ cli \in [pc : {"prompt", "lock", "set", "close", "erase", "show"},
              op : {"none", "set", "erase", "show"},
              f : Fields, v : Values \cup {Empty}, at : 1..Len(Order)]
  /\ cli.pc = "prompt" <=> cli.op = "none"
  /\ cli.pc = "lock" => cli.op \in {"set", "erase", "show"}
  /\ cli.pc \in {"set", "close"} => cli.op = "set"
  /\ cli.pc \in {"erase", "show"} => cli.op = cli.pc

ConsoleInv == file \in [Fields -> Content] /\ CliTyping

(* Where a task is, and the mutex. *)
LockInv ==
  /\ fs \in {NoTask, "cli", "net", "ai"} /\ net \in NetPcs
  /\ cli.pc \in HasMutex <=> fs = "cli"
  /\ net = "read" <=> fs = "net"

-----------------------------------------------------------------------------
(* The net thread and what it has loaded and copied *)

InUse == {"sync", "destroy", "create", "commit", "connect", "running"}

NetTyping ==
  /\ net \in NetPcs /\ restart \in BOOLEAN /\ dirty \in BOOLEAN
  /\ ident \in [Fields -> Loadable \cup {NoFile}]
  /\ store \in [Objects -> Loadable \cup {NoFile, Empty}]
  /\ at \in IF net \in {"destroy", "create", "commit"} THEN 1..Len(ObjectOrder)
            ELSE 1..Len(Order)
  /\ net = "sync" => at = 1

(* What has been loaded is what the files hold, unless a file changed since *)
(* the last apply or the apply is still to be taken up.                     *)
LoadedSoFar ==
  ~ restart /\ ~ dirty =>
    /\ net \in {"load", "read"} =>
         \A i \in 1..(at - 1) : ident[Order[i]] \in {ReadField(Order[i]), NoFile}
    /\ net \in InUse => ident = FilesAsRead

(* What has been copied is what was loaded, or was not committed. *)
CopiedSoFar ==
  /\ net \in {"create", "commit"} =>
       \A i \in 1..(IF net = "commit" THEN at ELSE at - 1) :
         store[ObjectOrder[i]] \in {ident[ObjectOrder[i]], Empty}
  /\ net = "connect" => \A o \in Objects : store[o] \in {ident[o], Empty}

NetInv == NetTyping /\ IdentityComplete /\ LoadedSoFar /\ CopiedSoFar

Inv == ConsoleInv /\ LockInv /\ NetInv
-----------------------------------------------------------------------------
LEMMA Orders ==
  /\ Len(Order) \in Nat \ {0} /\ Len(ObjectOrder) \in Nat \ {0}
  /\ \A i \in 1..Len(Order) : Order[i] \in Fields
  /\ \A i \in 1..Len(ObjectOrder) : ObjectOrder[i] \in Objects
  /\ \A f \in Fields : \E i \in 1..Len(Order) : f = Order[i]
  /\ \A o \in Objects : \E i \in 1..Len(ObjectOrder) : o = ObjectOrder[i]
  /\ Objects \subseteq Fields
  /\ NoFile \notin Loadable /\ Empty \notin Loadable /\ NoFile # Empty
  /\ Known \subseteq Loadable
  BY ConfigAssumption DEF Fields, Objects, Loadable

(* A field as it is read: a value, or no file, or an empty one. *)
LEMMA Reads ==
  ASSUME file \in [Fields -> Content], NEW f \in Fields
  PROVE  /\ ReadField(f) \in Loadable \cup {NoFile, Empty}
         /\ file[f] \in {NoFile, Empty} => ReadField(f) = file[f]
  BY Orders DEF ReadField, Content, Loadable

LEMMA ReadsAgain ==
  file' = file => FilesAsRead' = FilesAsRead /\ \A f : ReadField(f)' = ReadField(f)
  BY DEF FilesAsRead, ReadField

LEMMA FilesReads ==
  /\ FilesAsRead \in [Fields -> {ReadField(f) : f \in Fields}]
  /\ \A f \in Fields : FilesAsRead[f] = ReadField(f)
  BY DEF FilesAsRead

LEMMA AtPrompt == cli' = Prompt => CliTyping' /\ cli'.pc = "prompt"
  BY Orders DEF Prompt, CliTyping, HasMutex

(* What the other components leave of the net thread's state. *)
LEMMA NetUntouched ==
  ASSUME NetInv, UNCHANGED <<net, at, ident, store>>, restart' \in BOOLEAN, dirty' \in BOOLEAN,
         (restart' = restart /\ dirty' = dirty /\ file' = file) \/ restart' \/ dirty'
  PROVE  NetInv'
  BY ReadsAgain DEF NetInv, NetTyping, IdentityComplete, LoadedSoFar, CopiedSoFar

LEMMA CliKeeps == Inv /\ CliStep => Inv'
<1> SUFFICES ASSUME Inv, CliStep PROVE Inv'
  OBVIOUS
<1> USE Orders DEF Inv, ConsoleInv, CliTyping, LockInv, NoTask, HasMutex
<1>1. UNCHANGED <<net, at, ident, store, restart>>
  BY DEF CliStep, CliLock, WriteOpen, WriteClose, RemoveField, ShowField, netVars
<1>2. CASE CliLock
  BY <1>1, <1>2, NetUntouched DEF CliLock, NetInv, NetTyping
<1>3. CASE WriteOpen
  <2>0. cli' = [cli EXCEPT !.pc = "close"] \/ cli' = Prompt
    BY <1>3 DEF WriteOpen, CliUnlock
  <2>1. ConsoleInv'
    <3>1. CliTyping'
      BY <1>3, <2>0, AtPrompt DEF WriteOpen
    <3>2. file' \in [Fields -> Content]
      BY <1>3 DEF WriteOpen, Content
    <3> QED
      BY <3>1, <3>2
  <2>2. LockInv'
    BY <1>1, <1>3 DEF WriteOpen, CliUnlock, Prompt
  <2>3. NetInv'
    <3>1. UNCHANGED dirty /\ \A f \in Fields : file[f] # NoFile => file'[f] = file[f]
      BY <1>3 DEF WriteOpen
    <3>2. file' \in [Fields -> Content]
      BY <2>1
    <3>3. NetTyping' /\ IdentityComplete' /\ CopiedSoFar'
      BY <1>1, <3>1 DEF NetInv, NetTyping, IdentityComplete, CopiedSoFar
    <3>4. ~ restart /\ ~ dirty /\ net \in {"load", "read"} =>
            \A i \in 1..(at - 1) : ident[Order[i]] \in {ReadField(Order[i])', NoFile}
      <4>1. SUFFICES ASSUME ~ restart, ~ dirty, net \in {"load", "read"}, NEW i \in 1..(at - 1)
                     PROVE  ident[Order[i]] \in {ReadField(Order[i])', NoFile}
        OBVIOUS
      <4>2. i \in 1..Len(Order) /\ ident[Order[i]] \in {ReadField(Order[i]), NoFile}
        BY <4>1 DEF NetInv, NetTyping, LoadedSoFar
      <4>3. Order[i] \in Fields
        BY <4>2
      <4>4. CASE file[Order[i]] = NoFile
        BY <4>2, <4>3, <4>4, Reads
      <4>5. CASE file[Order[i]] # NoFile
        BY <3>1, <4>2, <4>3, <4>5 DEF ReadField
      <4> QED
        BY <4>4, <4>5
    <3>5. ~ restart /\ ~ dirty /\ net \in InUse => ident = FilesAsRead'
      <4>1. SUFFICES ASSUME ~ restart, ~ dirty, net \in InUse PROVE ident = FilesAsRead'
        OBVIOUS
      <4>2. ident = FilesAsRead /\ \A f \in Fields : ident[f] \in Loadable
        BY <4>1 DEF NetInv, IdentityComplete, LoadedSoFar, InUse
      <4>3. \A f \in Fields : file[f] # NoFile
        BY <4>2, Reads, FilesReads
      <4>4. \A f \in Fields : ReadField(f)' = ReadField(f)
        BY <3>1, <4>3 DEF ReadField
      <4> QED
        BY <4>2, <4>4 DEF FilesAsRead
    <3> QED
      BY <1>1, <3>1, <3>3, <3>4, <3>5 DEF NetInv, LoadedSoFar
  <2> QED
    BY <2>1, <2>2, <2>3
<1>4. CASE WriteClose
  <2>1. ConsoleInv'
    <3>1. CliTyping'
      BY <1>4, AtPrompt DEF WriteClose, CliUnlock
    <3>2. file' \in [Fields -> Content]
      BY <1>4 DEF WriteClose, Content, Known
    <3> QED
      BY <3>1, <3>2
  <2>2. LockInv'
    BY <1>1, <1>4 DEF WriteClose, CliUnlock, Prompt
  <2>3. NetInv'
    BY <1>1, <1>4, NetUntouched DEF WriteClose, NetInv, NetTyping
  <2> QED
    BY <2>1, <2>2, <2>3
<1>5. CASE RemoveField
  <2>1. ConsoleInv'
    <3>1. CASE cli.at < Len(Order)
      <4>1. cli' = [cli EXCEPT !.at = @ + 1] /\ file' \in [Fields -> Content]
        BY <1>5, <3>1 DEF RemoveField, Content
      <4>2. cli.at + 1 \in 1..Len(Order)
        BY <3>1
      <4>3. CliTyping'
        BY <4>1, <4>2
      <4> QED
        BY <4>1, <4>3
    <3>2. CASE ~ (cli.at < Len(Order))
      BY <1>5, <3>2, AtPrompt DEF RemoveField, CliUnlock, Content
    <3> QED
      BY <3>1, <3>2
  <2>2. LockInv'
    BY <1>1, <1>5 DEF RemoveField, CliUnlock, Prompt
  <2>3. NetInv'
    BY <1>1, <1>5, NetUntouched DEF RemoveField, NetInv, NetTyping
  <2> QED
    BY <2>1, <2>2, <2>3
<1>6. CASE ShowField
  <2>1. ConsoleInv'
    <3>1. CASE cli.at < Len(Order)
      <4>1. cli' = [cli EXCEPT !.pc = "lock", !.at = @ + 1] /\ file' = file
            /\ cli.pc = "show"
        BY <1>6, <3>1 DEF ShowField
      <4>2. cli.at + 1 \in 1..Len(Order)
        BY <3>1
      <4>3. CliTyping'
        BY <4>1, <4>2
      <4> QED
        BY <4>1, <4>3
    <3>2. CASE ~ (cli.at < Len(Order))
      BY <1>6, <3>2, AtPrompt DEF ShowField
    <3> QED
      BY <3>1, <3>2
  <2>2. LockInv'
    BY <1>1, <1>6 DEF ShowField, Prompt
  <2>3. NetInv'
    BY <1>1, <1>6, NetUntouched DEF ShowField, NetInv, NetTyping
  <2> QED
    BY <2>1, <2>2, <2>3
<1> QED
  BY <1>2, <1>3, <1>4, <1>5, <1>6 DEF CliStep

LEMMA ConsoleKeeps == Inv /\ Console => Inv'
<1> SUFFICES ASSUME Inv, Console PROVE Inv'
  OBVIOUS
<1> USE Orders DEF Inv, ConsoleInv, CliTyping, LockInv, NoTask, HasMutex, Command
<1>1. UNCHANGED <<net, at, ident, store, file, fs>> /\ cli.pc = "prompt"
  BY DEF Console, SetCommand, EraseCommand, ShowCommand, ApplyCommand, netVars
<1>2. ASSUME NEW f \in Fields, NEW v \in Values \cup {Empty}, SetCommand(f, v) PROVE Inv'
  <2>1. NetInv'
    BY <1>1, <1>2, NetUntouched DEF SetCommand, NetInv, NetTyping
  <2>2. cli' = [pc |-> "lock", op |-> "set", f |-> f, v |-> v, at |-> 1]
    BY <1>2 DEF SetCommand
  <2>3. CliTyping'
    BY <2>2
  <2> QED
    BY <1>1, <2>1, <2>2, <2>3
<1>3. CASE EraseCommand
  <2>1. NetInv'
    BY <1>1, <1>3, NetUntouched DEF EraseCommand, NetInv, NetTyping
  <2>2. cli' = [pc |-> "lock", op |-> "erase", f |-> Order[1], v |-> Empty, at |-> 1]
    BY <1>3 DEF EraseCommand, Prompt
  <2>3. CliTyping'
    BY <2>2
  <2> QED
    BY <1>1, <2>1, <2>2, <2>3
<1>4. CASE ShowCommand
  <2>1. NetInv'
    BY <1>1, <1>4, NetUntouched DEF ShowCommand, NetInv, NetTyping
  <2>2. cli' = [pc |-> "lock", op |-> "show", f |-> Order[1], v |-> Empty, at |-> 1]
    BY <1>4 DEF ShowCommand, Prompt
  <2>3. CliTyping'
    BY <2>2
  <2> QED
    BY <1>1, <2>1, <2>2, <2>3
<1>5. CASE ApplyCommand
  BY <1>1, <1>5, NetUntouched DEF ApplyCommand, consoleVars, NetInv, NetTyping
<1> QED
  BY <1>2, <1>3, <1>4, <1>5 DEF Console

LEMMA OthersKeep == Inv /\ (Others \/ UNCHANGED vars) => Inv'
<1> SUFFICES ASSUME Inv, Others \/ UNCHANGED vars PROVE Inv'
  OBVIOUS
<1> USE Orders DEF Inv, ConsoleInv, CliTyping, LockInv, NoTask, HasMutex
<1>1. CASE StartTransfer
  BY <1>1, NetUntouched DEF StartTransfer, consoleVars, netVars, NetInv, NetTyping
<1>2. CASE TransferStep
  BY <1>2, NetUntouched DEF TransferStep, consoleVars, netVars, NetInv, NetTyping
<1>3. CASE SaveModel
  BY <1>3, NetUntouched DEF SaveModel, consoleVars, netVars, NetInv, NetTyping
<1>4. CASE ModelSaved
  BY <1>4, NetUntouched DEF ModelSaved, consoleVars, netVars, NetInv, NetTyping
<1>5. CASE Reset
  <2>1. ConsoleInv' /\ LockInv'
    BY <1>5, AtPrompt DEF Reset, NetPcs, Polls
  <2>2. NetTyping'
    <3>1. ident' \in [Fields -> Loadable \cup {NoFile}]
      BY <1>5 DEF Reset, Nothing
    <3>2. restart' \in BOOLEAN /\ dirty' \in BOOLEAN
      BY <1>5, Zenon DEF Reset
    <3> QED
      BY <1>5, <3>1, <3>2 DEF Reset, NetPcs, Polls, NetInv, NetTyping
  <2>3. IdentityComplete' /\ LoadedSoFar' /\ CopiedSoFar'
    BY <1>5 DEF Reset, IdentityComplete, LoadedSoFar, CopiedSoFar, InUse
  <2> QED
    BY <2>1, <2>2, <2>3 DEF NetInv
<1>6. CASE UNCHANGED vars
  BY <1>6, NetUntouched DEF vars, consoleVars, netVars, NetInv, NetTyping
<1> QED
  BY <1>1, <1>2, <1>3, <1>4, <1>5, <1>6 DEF Others

LEMMA NetKeeps == Inv /\ NetStep => Inv'
<1> SUFFICES ASSUME Inv, NetStep PROVE Inv'
  OBVIOUS
<1>0. UNCHANGED <<file, cli, dirty>>
  BY DEF NetStep, Poll, BeginLoad, LoadLock, LoadField, Loaded, Sync, DestroyObject,
     CreateObject, CommitObject, Connect, NetOnly, consoleVars
<1> USE <1>0, Orders, ReadsAgain DEF Inv, ConsoleInv, CliTyping, LockInv, NetInv, NetTyping, NetPcs,
  Polls, NoTask, HasMutex, InUse, IdentityComplete, LoadedSoFar, CopiedSoFar
<1>1. CASE Poll
  BY <1>1 DEF Poll
<1>2. CASE BeginLoad
  BY <1>2 DEF BeginLoad, Nothing
<1>3. CASE LoadLock
  BY <1>3 DEF LoadLock
<1>4. CASE LoadField
  <2>1. PICK got \in {ReadField(Order[at]), NoFile} \ {Empty} : Loaded([ident EXCEPT ![Order[at]] = got])
    BY <1>4 DEF LoadField
  <2> DEFINE new == [ident EXCEPT ![Order[at]] = got]
  <2>2. /\ net = "read" /\ fs' = NoTask /\ UNCHANGED <<store, restart>>
        /\ IF at < Len(Order) THEN ident' = new /\ net' = "load" /\ at' = at + 1
           ELSE IF \A f \in Fields : new[f] # NoFile
           THEN ident' = new /\ net' = "sync" /\ at' = 1
           ELSE ident' = Nothing /\ net' = "idle" /\ at' = 1
    BY <2>1 DEF Loaded
  <2>3. new \in [Fields -> Loadable \cup {NoFile}]
    BY <2>2, Reads
  <2>4. ~ restart /\ ~ dirty => \A i \in 1..at : new[Order[i]] \in {ReadField(Order[i]), NoFile}
    <3>1. SUFFICES ASSUME ~ restart, ~ dirty, NEW i \in 1..at
                   PROVE  new[Order[i]] \in {ReadField(Order[i]), NoFile}
      OBVIOUS
    <3>2. CASE i = at
      BY <2>2, <3>2
    <3>3. CASE i # at
      <4>1. i \in 1..(at - 1) /\ at \in 1..Len(Order) /\ i \in 1..Len(Order)
        BY <2>2, <3>3
      <4>2. ident[Order[i]] \in {ReadField(Order[i]), NoFile}
        BY <2>2, <3>1, <4>1
      <4>3. CASE Order[i] = Order[at]
        BY <4>1, <4>3
      <4>4. CASE Order[i] # Order[at]
        BY <4>1, <4>2, <4>4
      <4> QED
        BY <4>3, <4>4
    <3> QED
      BY <3>2, <3>3
  <2>5. CASE at < Len(Order)
    <3>1. ident' = new /\ net' = "load" /\ at' = at + 1 /\ at' \in 1..Len(Order)
      BY <2>2, <2>5
    <3>2. LoadedSoFar'
      BY <2>2, <2>4, <3>1
    <3> QED
      BY <2>2, <2>3, <3>1, <3>2
  <2>6. CASE ~ (at < Len(Order)) /\ \A f \in Fields : new[f] # NoFile
    <3>1. ident' = new /\ net' = "sync" /\ at' = 1 /\ at = Len(Order)
      BY <2>2, <2>6
    <3>2. \A f \in Fields : new[f] \in Loadable
      BY <2>3, <2>6
    <3>3. ~ restart /\ ~ dirty => new = FilesAsRead
      <4>1. SUFFICES ASSUME ~ restart, ~ dirty, NEW f \in Fields PROVE new[f] = ReadField(f)
        <5>1. new = [f \in Fields |-> new[f]]
          BY <2>3
        <5> QED
          BY <5>1 DEF FilesAsRead
      <4>2. PICK i \in 1..at : f = Order[i]
        BY <3>1
      <4> QED
        BY <2>4, <2>6, <4>1, <4>2
    <3> QED
      BY <2>2, <2>3, <3>1, <3>2, <3>3
  <2>7. CASE ~ (at < Len(Order)) /\ ~ \A f \in Fields : new[f] # NoFile
    BY <2>2, <2>7 DEF Nothing
  <2> QED
    BY <2>5, <2>6, <2>7
<1>5. CASE Sync
  BY <1>5 DEF Sync
<1>6. CASE DestroyObject
  <2>1. net = "destroy" /\ UNCHANGED <<fs, ident, restart>> /\ store' \in [Objects -> Loadable \cup {NoFile, Empty}]
    BY <1>6 DEF DestroyObject
  <2>2. \/ net' = "destroy" /\ at' = at + 1 /\ at < Len(ObjectOrder)
        \/ net' \in {"create", "failed"} /\ at' = 1
    BY <1>6 DEF DestroyObject
  <2> QED
    BY <2>1, <2>2
<1>7. CASE CreateObject
  <2>1. /\ net = "create" /\ UNCHANGED <<fs, ident, restart>>
        /\ \/ net' = "commit" /\ at' = at /\ store' = [store EXCEPT ![ObjectOrder[at]] = Empty]
           \/ /\ net' = "failed" /\ at' = 1
              /\ store' \in {store, [store EXCEPT ![ObjectOrder[at]] = NoFile]}
    BY <1>7 DEF CreateObject
  <2>2. store' \in [Objects -> Loadable \cup {NoFile, Empty}]
    BY <2>1
  <2>3. net' = "commit" =>
          \A i \in 1..at : store'[ObjectOrder[i]] \in {ident[ObjectOrder[i]], Empty}
    <3>1. SUFFICES ASSUME net' = "commit", NEW i \in 1..at
                   PROVE  store'[ObjectOrder[i]] \in {ident[ObjectOrder[i]], Empty}
      OBVIOUS
    <3>2. at \in 1..Len(ObjectOrder) /\ i \in 1..Len(ObjectOrder)
      BY <2>1
    <3>3. store' = [store EXCEPT ![ObjectOrder[at]] = Empty]
      BY <2>1, <3>1
    <3>4. CASE ObjectOrder[i] = ObjectOrder[at]
      BY <3>2, <3>3, <3>4
    <3>5. CASE ObjectOrder[i] # ObjectOrder[at]
      <4>1. i \in 1..(at - 1)
        BY <3>2, <3>5
      <4> QED
        BY <2>1, <3>2, <3>3, <3>5, <4>1
    <3> QED
      BY <3>4, <3>5
  <2>4. CopiedSoFar'
    BY <2>1, <2>3
  <2> QED
    BY <2>1, <2>2, <2>4
<1>8. CASE CommitObject
  <2>1. /\ net = "commit" /\ UNCHANGED <<fs, ident, restart>>
        /\ \/ /\ store' \in {store, [store EXCEPT ![ObjectOrder[at]] = ident[ObjectOrder[at]]]}
              /\ IF at < Len(ObjectOrder) THEN at' = at + 1 /\ net' = "create"
                 ELSE at' = 1 /\ net' = "connect"
           \/ net' = "failed" /\ at' = 1 /\ store' = store
    BY <1>8 DEF CommitObject
  <2>2. store' \in [Objects -> Loadable \cup {NoFile, Empty}]
    <3>1. ObjectOrder[at] \in Fields
      BY <2>1
    <3>2. ident[ObjectOrder[at]] \in Loadable \cup {NoFile}
      BY <3>1
    <3> QED
      BY <2>1, <3>2
  <2>3. net' # "failed" =>
          \A i \in 1..at : store'[ObjectOrder[i]] \in {ident[ObjectOrder[i]], Empty}
    BY <2>1
  <2>4. CopiedSoFar'
    BY <2>1, <2>3
  <2> QED
    BY <2>1, <2>2, <2>4
<1>9. CASE Connect
  BY <1>9 DEF Connect
<1> QED
  BY <1>1, <1>2, <1>3, <1>4, <1>5, <1>6, <1>7, <1>8, <1>9 DEF NetStep

LEMMA InvInit == Init => Inv
<1> SUFFICES ASSUME Init PROVE Inv
  OBVIOUS
<1> USE Orders DEF Init, NoTask
<1>1. ConsoleInv
  <2>1. file \in [Fields -> Content]
    BY DEF Nothing, Content, Known
  <2>2. CliTyping
    BY DEF Prompt, CliTyping, HasMutex
  <2> QED
    BY <2>1, <2>2 DEF ConsoleInv
<1>2. LockInv
  BY DEF LockInv, Prompt, HasMutex, NetPcs, Polls
<1>3. NetTyping
  <2>1. restart \in BOOLEAN /\ dirty \in BOOLEAN
    BY Zenon
  <2>2. ident \in [Fields -> Loadable \cup {NoFile}] /\ store \in [Objects -> Loadable \cup {NoFile, Empty}]
    BY DEF Nothing, Known
  <2> QED
    BY <2>1, <2>2 DEF NetTyping, NetPcs, Polls
<1>4. IdentityComplete /\ LoadedSoFar /\ CopiedSoFar
  BY DEF IdentityComplete, LoadedSoFar, CopiedSoFar, InUse
<1> QED
  BY <1>1, <1>2, <1>3, <1>4 DEF Inv, NetInv

LEMMA InvHolds == Spec => []Inv
<1>1. Inv /\ [Next]_vars => Inv'
  BY CliKeeps, NetKeeps, ConsoleKeeps, OthersKeep DEF Next
<1> QED
  BY <1>1, InvInit, PTL DEF Spec

-----------------------------------------------------------------------------
(* The net thread never starts with an incomplete identity: prv_load_field  *)
(* takes an empty file for a missing one.                                   *)
THEOREM Complete == Spec => []IdentityComplete
  BY InvHolds, PTL DEF Inv, NetInv

(* PKCS#11 holds the identity loaded last, or nothing, when it is used:     *)
(* vAlternateKeyProvisioning removes all objects before it writes one.      *)
THEOREM AsLoaded == Spec => []ConnectsAsLoaded
<1>1. Inv => ConnectsAsLoaded
  BY DEF Inv, NetInv, CopiedSoFar, ConnectsAsLoaded
<1> QED
  BY <1>1, InvHolds, PTL

(* An identity in use is complete, and once an apply has been taken up it   *)
(* is the stored one, although the fields were read in critical sections of *)
(* their own.                                                               *)
THEOREM AsApplied == Spec => []RunsAsApplied
<1>1. Inv => RunsAsApplied
  BY DEF Inv, NetInv, LoadedSoFar, RunsAsApplied, InUse, IdentityComplete
<1> QED
  BY <1>1, InvHolds, PTL

RestTyping ==
  /\ reply \in {"none", "ok", "error"} /\ xfer \in {"idle", "tls", "work"}
  /\ clash \in BOOLEAN /\ commands \in Nat /\ faults \in Nat

LEMMA RestStep == RestTyping /\ [Next]_vars => RestTyping'
<1> SUFFICES ASSUME RestTyping, [Next]_vars PROVE RestTyping'
  OBVIOUS
<1> USE DEF RestTyping, Fault, bounds, consoleVars
<1>1. clash' \in BOOLEAN
  BY DEF Next, vars
<1>2. CASE CliStep
  BY <1>1, <1>2 DEF CliStep, CliLock, WriteOpen, WriteClose, RemoveField, ShowField,
     NoFault, CliUnlock
<1>3. CASE NetStep
  BY <1>1, <1>3 DEF NetStep, Poll, BeginLoad, LoadLock, LoadField, Loaded, Sync,
     DestroyObject, CreateObject, CommitObject, Connect, NetOnly, NoFault
<1>4. CASE Console
  BY <1>1, <1>4 DEF Console, Command, SetCommand, EraseCommand, ShowCommand, ApplyCommand
<1>5. CASE Others \/ UNCHANGED vars
  BY <1>1, <1>5 DEF Others, StartTransfer, TransferStep, SaveModel, ModelSaved, Reset,
     vars
<1> QED
  BY <1>2, <1>3, <1>4, <1>5 DEF Next

(* Every variable keeps its type, and the mutex is held by a task exactly   *)
(* while that task is in a locked section.                                  *)
THEOREM TypeCorrect == Spec => []TypeOK
<1>1. Init => RestTyping
  <2>1. Init => clash \in BOOLEAN
    BY Zenon DEF Init
  <2> QED
    BY <2>1 DEF Init, RestTyping
<1>2. Inv /\ RestTyping => TypeOK
  <2> SUFFICES ASSUME Inv, RestTyping PROVE TypeOK
    OBVIOUS
  <2> USE DEF Inv, ConsoleInv, CliTyping, HasMutex
  <2>1. cli \in [pc : {"prompt", "lock"} \cup HasMutex,
                 op : {"none", "set", "erase", "show"},
                 f : Fields, v : Values \cup {Empty}, at : 1..Len(Order)]
    OBVIOUS
  <2>2. ident \in [Fields -> Loadable \cup {NoFile}] /\ store \in [Objects -> Loadable \cup {NoFile, Empty}]
    BY DEF NetInv, NetTyping, Content
  <2> QED
    BY <2>1, <2>2 DEF LockInv, NetInv, NetTyping, RestTyping, TypeOK
<1> QED
  BY <1>1, <1>2, RestStep, InvHolds, PTL DEF Spec

-----------------------------------------------------------------------------
(* The abstract store *)

FieldBar == [f \in Fields |-> IF file[f] = Empty THEN NoFile ELSE file[f]]
CallBar == CASE cli.op = "set" -> [op |-> "set", f |-> cli.f,
                                   v |-> IF cli.v = Empty THEN NoFile ELSE cli.v]
             [] cli.op = "erase" -> [op |-> "erase"]
             [] OTHER -> [op |-> "none"]

LEMMA AbstractInit ==
  ASSUME FieldBar \in [Fields -> Known \cup {NoFile}], CallBar = [op |-> "none"],
         reply = "none"
  PROVE  CS!Init
  BY DEF CS!Init, CS!NoCall, FieldBar, CallBar

LEMMA AbstractSet ==
  ASSUME NEW f \in Fields, NEW v \in Known \cup {NoFile},
         CallBar = [op |-> "none"], CallBar' = [op |-> "set", f |-> f, v |-> v],
         reply' = "none", FieldBar' = FieldBar
  PROVE  CS!Next
  BY DEF CS!Next, CS!Set, CS!SetOf, CS!NoCall, FieldBar, CallBar

LEMMA AbstractStartErase ==
  ASSUME CallBar = [op |-> "none"], CallBar' = [op |-> "erase"], reply' = "none",
         FieldBar' = FieldBar
  PROVE  CS!Next
  BY DEF CS!Next, CS!StartErase, CS!Erase, CS!NoCall, FieldBar, CallBar

LEMMA AbstractEffect ==
  ASSUME CallBar.op = "set", FieldBar' = [FieldBar EXCEPT ![CallBar.f] = CallBar.v],
         CallBar' = [op |-> "none"], reply' = "ok"
  PROVE  CS!Next
  BY DEF CS!Next, CS!TakeEffectAndAnswer, CS!NoCall, FieldBar, CallBar

LEMMA AbstractRefuse ==
  ASSUME CallBar.op = "set", FieldBar' = FieldBar,
         CallBar' = [op |-> "none"], reply' = "error"
  PROVE  CS!Next
  BY DEF CS!Next, CS!Refuse, CS!NoCall, FieldBar, CallBar

LEMMA AbstractRemove ==
  ASSUME CallBar.op = "erase", NEW f \in Fields, FieldBar' = [FieldBar EXCEPT ![f] = NoFile],
         \/ CallBar' = CallBar /\ reply' = reply
         \/ CallBar' = [op |-> "none"] /\ reply' = "ok"
  PROVE  CS!Next
  BY DEF CS!Next, CS!Remove, CS!NoCall, FieldBar, CallBar

LEMMA AbstractErased ==
  ASSUME CallBar.op = "erase", FieldBar' = FieldBar, CallBar' = [op |-> "none"],
         reply' = "ok"
  PROVE  CS!Next
  BY DEF CS!Next, CS!Erased, CS!NoCall, FieldBar, CallBar

LEMMA AbstractReset ==
  ASSUME FieldBar' = FieldBar, CallBar' = [op |-> "none"], reply' = "none"
  PROVE  CS!Next
  BY DEF CS!Next, CS!Reset, CS!NoCall, FieldBar, CallBar

LEMMA CallBars ==
  /\ cli.op \in {"none", "show"} => CallBar = [op |-> "none"]
  /\ cli.op = "erase" => CallBar = [op |-> "erase"]
  /\ cli.op = "set" => CallBar = [op |-> "set", f |-> cli.f,
                                  v |-> IF cli.v = Empty THEN NoFile ELSE cli.v]
  BY DEF CallBar

LEMMA CallBarsNext ==
  /\ cli'.op \in {"none", "show"} => CallBar' = [op |-> "none"]
  /\ cli'.op = "erase" => CallBar' = [op |-> "erase"]
  /\ cli'.op = "set" => CallBar' = [op |-> "set", f |-> cli'.f,
                                    v |-> IF cli'.v = Empty THEN NoFile ELSE cli'.v]
  BY DEF CallBar

(* A step of the console's own call. *)
LEMMA CliRefines == Inv /\ CliStep => CS!Next \/ UNCHANGED CS!vars
<1> SUFFICES ASSUME Inv, CliStep PROVE CS!Next \/ UNCHANGED <<FieldBar, CallBar, reply>>
  BY DEF CS!vars, FieldBar, CallBar
<1> USE DEF Inv, ConsoleInv, CliTyping
<1>0. Prompt.op = "none"
  BY DEF Prompt
<1>1. CASE CliLock
  <2>1. file' = file /\ reply' = reply /\ cli' = [cli EXCEPT !.pc = cli.op]
    BY <1>1 DEF CliLock
  <2>2. CallBar' = CallBar
    BY <2>1 DEF CallBar
  <2> QED
    BY <2>1, <2>2 DEF FieldBar
<1>2. CASE WriteOpen
  <2>1. cli.pc = "set" /\ CallBar.op = "set"
    BY <1>2, CallBars DEF WriteOpen
  <2>2. FieldBar' = FieldBar
    BY <1>2 DEF WriteOpen, FieldBar
  <2>3. CASE cli' = [cli EXCEPT !.pc = "close"] /\ reply' = reply
    <3>1. CallBar' = CallBar
      BY <2>3 DEF CallBar
    <3> QED
      BY <2>2, <2>3, <3>1
  <2>4. CASE cli' = Prompt /\ reply' = "error"
    BY <1>0, <2>1, <2>2, <2>4, CallBarsNext, AbstractRefuse
  <2> QED
    BY <1>2, <2>3, <2>4 DEF WriteOpen, CliUnlock
<1>3. CASE WriteClose
  <2>1. cli.pc = "close" /\ cli' = Prompt
    BY <1>3 DEF WriteClose, CliUnlock
  <2>2. CallBar = [op |-> "set", f |-> cli.f,
                   v |-> IF cli.v = Empty THEN NoFile ELSE cli.v]
    BY <2>1, CallBars
  <2>3. CallBar' = [op |-> "none"]
    BY <1>0, <2>1, CallBarsNext
  <2>4. CASE file' = [file EXCEPT ![cli.f] = cli.v] /\ reply' = "ok"
    <3>1. FieldBar' = [FieldBar EXCEPT ![cli.f] = IF cli.v = Empty THEN NoFile ELSE cli.v]
      BY <2>4 DEF FieldBar
    <3> QED
      BY <2>2, <2>3, <2>4, <3>1, AbstractEffect
  <2>5. CASE file' = file /\ reply' = "error"
    <3>1. FieldBar' = FieldBar
      BY <2>5 DEF FieldBar
    <3> QED
      BY <2>2, <2>3, <2>5, <3>1, AbstractRefuse
  <2> QED
    BY <1>3, <2>4, <2>5 DEF WriteClose, CliUnlock
<1>4. CASE RemoveField
  <2>1. cli.pc = "erase" /\ CallBar = [op |-> "erase"]
    BY <1>4, CallBars DEF RemoveField
  <2>2. \/ CallBar' = CallBar /\ reply' = reply
        \/ CallBar' = [op |-> "none"] /\ reply' = "ok"
    <3>1. CASE cli.at < Len(Order)
      <4>1. cli' = [cli EXCEPT !.at = @ + 1] /\ reply' = reply
        BY <1>4, <3>1 DEF RemoveField
      <4>2. CallBar' = CallBar
        BY <4>1 DEF CallBar
      <4> QED
        BY <4>1, <4>2
    <3>2. CASE ~ (cli.at < Len(Order))
      BY <1>0, <1>4, <3>2, CallBarsNext DEF RemoveField, CliUnlock
    <3> QED
      BY <3>1, <3>2
  <2>3. CASE file' = [file EXCEPT ![Order[cli.at]] = NoFile]
    <3>1. FieldBar' = [FieldBar EXCEPT ![Order[cli.at]] = NoFile]
      BY <2>3 DEF FieldBar
    <3>2. Order[cli.at] \in Fields
      BY Orders
    <3> QED
      BY <2>1, <2>2, <3>1, <3>2, AbstractRemove
  <2>4. CASE file' = file
    <3>1. FieldBar' = FieldBar
      BY <2>4 DEF FieldBar
    <3> QED
      BY <2>1, <2>2, <3>1, AbstractErased
  <2> QED
    BY <1>4, <2>3, <2>4 DEF RemoveField
<1>5. CASE ShowField
  <2>1. file' = file /\ reply' = reply /\ cli.op = "show" /\ cli'.op \in {"none", "show"}
    BY <1>0, <1>5 DEF ShowField
  <2> QED
    BY <2>1, CallBars, CallBarsNext DEF FieldBar
<1> QED
  BY <1>1, <1>2, <1>3, <1>4, <1>5 DEF CliStep

(* A command begins a call. *)
LEMMA ConsoleRefines == Inv /\ Console => CS!Next \/ UNCHANGED CS!vars
<1> SUFFICES ASSUME Inv, Console PROVE CS!Next \/ UNCHANGED <<FieldBar, CallBar, reply>>
  BY DEF CS!vars, FieldBar, CallBar
<1> USE DEF Inv, ConsoleInv, CliTyping
<1>1. FieldBar' = FieldBar /\ CallBar = [op |-> "none"]
  BY CallBars DEF Console, SetCommand, EraseCommand, ShowCommand, ApplyCommand, Command,
     FieldBar
<1>2. ASSUME NEW f \in Fields, NEW v \in Values \cup {Empty}, SetCommand(f, v)
      PROVE  CS!Next
  <2>1. cli' = [pc |-> "lock", op |-> "set", f |-> f, v |-> v, at |-> 1] /\ reply' = "none"
    BY <1>2 DEF SetCommand
  <2>2. CallBar' = [op |-> "set", f |-> f, v |-> IF v = Empty THEN NoFile ELSE v]
    BY <2>1, CallBarsNext
  <2>3. (IF v = Empty THEN NoFile ELSE v) \in Known \cup {NoFile}
    BY DEF Known
  <2> QED
    BY <1>1, <2>1, <2>2, <2>3, AbstractSet
<1>3. CASE EraseCommand
  <2>1. cli'.op = "erase" /\ reply' = "none"
    BY <1>3 DEF EraseCommand, Prompt
  <2> QED
    BY <1>1, <2>1, CallBarsNext, AbstractStartErase
<1>4. CASE ShowCommand
  <2>1. cli'.op = "show" /\ reply' = reply
    BY <1>4 DEF ShowCommand, Prompt
  <2> QED
    BY <1>1, <2>1, CallBarsNext
<1>5. CASE ApplyCommand
  BY <1>1, <1>5 DEF ApplyCommand, consoleVars, CallBar
<1> QED
  BY <1>2, <1>3, <1>4, <1>5 DEF Console

(* Nothing else does anything to the store, but for a reset. *)
LEMMA OthersRefine == NetStep \/ Others \/ UNCHANGED vars => CS!Next \/ UNCHANGED CS!vars
<1> SUFFICES ASSUME NetStep \/ Others \/ UNCHANGED vars
             PROVE  CS!Next \/ UNCHANGED <<FieldBar, CallBar, reply>>
  BY DEF CS!vars, FieldBar, CallBar
<1>1. CASE Reset
  <2>1. cli'.op = "none" /\ reply' = "none" /\ file' = file
    BY <1>1 DEF Reset, Prompt
  <2> QED
    BY <2>1, CallBarsNext, AbstractReset DEF FieldBar
<1>2. CASE ~ Reset
  <2>1. UNCHANGED <<file, cli, reply>>
    BY <1>2 DEF NetStep, Poll, BeginLoad, LoadLock, LoadField, Loaded, Sync, DestroyObject,
       CreateObject, CommitObject, Connect, NetOnly, consoleVars, Others, StartTransfer,
       TransferStep, SaveModel, ModelSaved, vars
  <2> QED
    BY <2>1 DEF FieldBar, CallBar
<1> QED
  BY <1>1, <1>2

(* The configuration implements the store of iotc_config.h: a set that      *)
(* answered ok has taken effect at once and outlives a reset, one that did  *)
(* not changed nothing, whatever fails in between.                          *)
THEOREM Implements == Spec => ImplementsConfigStore
<1>1. Init => CS!Init
  <2>1. Init => /\ FieldBar \in [Fields -> Known \cup {NoFile}]
                /\ cli.op = "none" /\ reply = "none"
    BY Orders DEF Init, Nothing, FieldBar, Prompt, Known
  <2> QED
    BY <2>1, AbstractInit, CallBars
<1>2. Inv /\ [Next]_vars => [CS!Next]_(CS!vars)
  BY CliRefines, ConsoleRefines, OthersRefine DEF Next
<1> QED
  BY <1>1, <1>2, InvHolds, PTL DEF Spec, ImplementsConfigStore, CS!Spec
=============================================================================
