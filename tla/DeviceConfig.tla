----------------------------- MODULE DeviceConfig -----------------------------
(***************************************************************************)
(* The device identity, from the serial console to the TLS handshake.      *)
(*                                                                         *)
(* The console task writes, erases and shows one LittleFS file per field   *)
(* (iotc_config.c).  The net thread loads the fields in its IDLE state,    *)
(* one locked read each, copies certificate and key into the PKCS#11 files *)
(* (vAlternateKeyProvisioning) and connects with those; the transfer task  *)
(* opens a TLS session with them too.  The AI thread saves models.  All    *)
(* of it is one LittleFS volume with one mutex, which the PKCS#11 layer    *)
(* does not take.                                                          *)
(*                                                                         *)
(* A LittleFS call is one step, at which it takes effect: creating a file  *)
(* commits an empty one, what is written to a file is committed as a whole *)
(* when it is closed, and a failed call changes nothing.  If two tasks are *)
(* in LittleFS at once (clash) anything may happen; nothing is claimed     *)
(* from then on.                                                           *)
(*                                                                         *)
(* Taken as given: the AI thread has mounted the volume and created the    *)
(* mutex before the other tasks use it.                                    *)
(***************************************************************************)
EXTENDS Naturals, Sequences, FiniteSets

CONSTANTS
  Order,        \* the fields, in the order they are loaded and erased
  Texts,        \* those typed on the command line, which may be left empty
  ObjectOrder,  \* those copied into PKCS#11, in that order
  Values,       \* what the operator may set
  First,        \* that of a board provisioned earlier
  Cut,          \* Cut[v]: a typed value as it is read back: the file holds any
                \* command line, the field 15 or 63 characters of it
  NoFile, Empty,
  MaxCommands,  \* bound: sets, erases, shows and applies on the console
  MaxFaults     \* bound: failed LittleFS calls

Fields == {Order[i] : i \in 1..Len(Order)}
Objects == {ObjectOrder[i] : i \in 1..Len(ObjectOrder)}
Known == Values \cup {First}
Content == Known \cup {NoFile, Empty}
Loadable == Known \cup {Cut[v] : v \in Known}

ASSUME ConfigAssumption ==
  /\ Order \in Seq(STRING) /\ Len(Order) > 0
  /\ ObjectOrder \in Seq(STRING) /\ Len(ObjectOrder) > 0
  /\ Objects \subseteq Fields /\ Texts \subseteq Fields
  /\ NoFile \notin Loadable /\ Empty \notin Loadable /\ NoFile # Empty
  /\ MaxCommands \in Nat /\ MaxFaults \in Nat

NoTask == "none"

VARIABLES
  file,     \* file[f]: content of iotc_cfg_<f>
  store,    \* store[o]: content of the PKCS#11 file
  fs,       \* task that holds the file system mutex
  cli,      \* console task: [pc, op, f, v, at]
  reply,    \* its answer to the last set or erase
  net,      \* net thread: where it is, with s_state between two polls
  at,       \* the field or object it is at
  ident,    \* s_stored; NoFile for a null pointer
  restart,  \* s_restart_req
  xfer,     \* transfer task: "idle", "tls", "work"
  dirty,    \* history: a file changed after the last apply or reset
  clash,    \* history: two tasks have been in LittleFS at once
  commands, faults

consoleVars == <<cli, reply>>
netVars == <<net, at, ident>>
bounds == <<commands, faults>>
vars ==
  <<file, store, fs, consoleVars, netVars, restart, xfer, dirty, bounds, clash>>

Prompt == [pc |-> "prompt", op |-> "none", f |-> Order[1], v |-> Empty, at |-> 1]
Nothing == [f \in Fields |-> NoFile]

(* A board that was never provisioned, or one that was.                     *)
Init ==
  /\ \/ file = Nothing /\ store = [o \in Objects |-> NoFile]
     \/ file = [f \in Fields |-> First] /\ store = [o \in Objects |-> First]
  /\ fs = NoTask /\ cli = Prompt /\ reply = "none"
  /\ net = "idle" /\ at = 1 /\ ident = Nothing /\ restart = FALSE /\ xfer = "idle"
  /\ dirty = FALSE /\ clash = FALSE
  /\ commands = 0 /\ faults = 0

Fault == faults < MaxFaults /\ faults' = faults + 1 /\ UNCHANGED commands
NoFault == UNCHANGED bounds

-----------------------------------------------------------------------------
(* Console task: prv_handle *)

Command ==
  /\ cli.pc = "prompt" /\ commands < MaxCommands
  /\ commands' = commands + 1
  /\ UNCHANGED <<file, store, fs, netVars, xfer, faults>>

SetCommand(f, v) ==
  /\ Command
  /\ v = Empty => f \in Texts
  /\ cli' = [pc |-> "lock", op |-> "set", f |-> f, v |-> v, at |-> 1]
  /\ reply' = "none"
  /\ UNCHANGED <<restart, dirty>>

EraseCommand ==
  /\ Command
  /\ cli' = [Prompt EXCEPT !.pc = "lock", !.op = "erase"]
  /\ reply' = "none"
  /\ UNCHANGED <<restart, dirty>>

ShowCommand ==
  /\ Command
  /\ cli' = [Prompt EXCEPT !.pc = "lock", !.op = "show"]
  /\ UNCHANGED <<reply, restart, dirty>>

ApplyCommand ==
  /\ Command
  /\ restart' = TRUE /\ dirty' = FALSE
  /\ UNCHANGED consoleVars

(* iotc_fs_lock *)
CliLock ==
  /\ cli.pc = "lock" /\ fs = NoTask
  /\ fs' = "cli" /\ cli' = [cli EXCEPT !.pc = cli.op]
  /\ UNCHANGED <<file, store, reply, netVars, restart, xfer, dirty, bounds>>

CliUnlock(answer) ==
  /\ fs' = NoTask /\ cli' = Prompt /\ reply' = answer

(* iotc_config_write: lfs_file_open creates a missing file, and leaves an   *)
(* old one as it is until the new content is committed; lfs_file_write.     *)
WriteOpen ==
  /\ cli.pc = "set"
  /\ \/ /\ file' = [file EXCEPT ![cli.f] = IF @ = NoFile THEN Empty ELSE @]
        /\ cli' = [cli EXCEPT !.pc = "close"] /\ NoFault
        /\ UNCHANGED <<fs, reply>>
     \/ Fault /\ CliUnlock("error") /\ UNCHANGED file
  /\ UNCHANGED <<store, netVars, restart, xfer, dirty>>

(* Mutant: the result of lfs_file_close is not looked at. *)
CloseUnchecked ==
  /\ cli.pc = "close"
  /\ CliUnlock("ok")
  /\ \/ file' = [file EXCEPT ![cli.f] = cli.v] /\ dirty' = TRUE /\ NoFault
     \/ Fault /\ UNCHANGED <<file, dirty>>
  /\ UNCHANGED <<store, netVars, restart, xfer>>

(* lfs_file_close commits, unless it or the write failed. *)
WriteClose ==
  /\ cli.pc = "close"
  /\ \/ /\ file' = [file EXCEPT ![cli.f] = cli.v]
        /\ CliUnlock("ok")
        /\ dirty' = TRUE /\ NoFault
     \/ Fault /\ CliUnlock("error") /\ UNCHANGED <<file, dirty>>
  /\ UNCHANGED <<store, netVars, restart, xfer>>

(* iotc_config_erase: one field; a failed lfs_remove is not reported. *)
RemoveField ==
  /\ cli.pc = "erase"
  /\ \/ file' = [file EXCEPT ![Order[cli.at]] = NoFile] /\ NoFault
     \/ Fault /\ UNCHANGED file
  /\ dirty' = TRUE
  /\ IF cli.at < Len(Order)
     THEN cli' = [cli EXCEPT !.at = @ + 1] /\ UNCHANGED <<fs, reply>>
     ELSE CliUnlock("ok")
  /\ UNCHANGED <<store, netVars, restart, xfer>>

(* prv_show: one iotc_config_read per field, each with the mutex. *)
ShowField ==
  /\ cli.pc = "show"
  /\ fs' = NoTask
  /\ cli' = IF cli.at < Len(Order) THEN [cli EXCEPT !.pc = "lock", !.at = @ + 1]
            ELSE Prompt
  /\ UNCHANGED <<file, store, reply, netVars, restart, xfer, dirty, bounds>>

-----------------------------------------------------------------------------
(* Net thread *)

Polls == {"idle", "failed", "running"}
NetOnly == UNCHANGED <<file, consoleVars, xfer, dirty>>

(* iotc_app_poll, with no transfer running: a restart is taken up in the    *)
(* same poll, a retry after the backoff goes through IDLE.                  *)
Poll ==
  /\ net \in Polls
  /\ IF restart /\ xfer = "idle" THEN restart' = FALSE /\ net' = "switch"
     ELSE /\ UNCHANGED restart
          /\ \/ net = "idle" /\ net' = "switch"
             \/ net = "failed" /\ xfer = "idle" /\ net' = "idle"
             \/ net = "running" /\ net' = "failed"   \* the connection is lost
  /\ UNCHANGED <<store, fs, at, ident, bounds>> /\ NetOnly

(* IDLE: no network, or free the old identity and load the stored one. *)
BeginLoad ==
  /\ net = "switch"
  /\ \/ net' = "idle" /\ UNCHANGED <<at, ident>>
     \/ net' = "load" /\ at' = 1 /\ ident' = Nothing
  /\ UNCHANGED <<store, fs, restart, bounds>> /\ NetOnly

LoadLock ==
  /\ net = "load" /\ fs = NoTask
  /\ fs' = "net" /\ net' = "read"
  /\ UNCHANGED <<store, at, ident, restart, bounds>> /\ NetOnly

Loaded(got) ==
  /\ net = "read"
  /\ fs' = NoTask
  /\ IF at < Len(Order) THEN ident' = got /\ net' = "load" /\ at' = at + 1
     ELSE IF \A f \in Fields : got[f] # NoFile
     THEN ident' = got /\ net' = "sync" /\ at' = 1
     ELSE ident' = Nothing /\ net' = "idle" /\ at' = 1
  /\ UNCHANGED <<store, restart, bounds>> /\ NetOnly

(* iotc_config_read, which cuts what is longer than the field without a     *)
(* word.  A captured PEM always fits.                                       *)
ReadField(f) == IF f \in Texts /\ file[f] \in Known THEN Cut[file[f]] ELSE file[f]
FilesAsRead == [f \in Fields |-> ReadField(f)]

(* prv_load_field: no heap, no file and an empty file are all the same. *)
LoadField ==
  \E got \in {ReadField(Order[at]), NoFile} \ {Empty} :
    Loaded([ident EXCEPT ![Order[at]] = got])

(* Mutant: a configuration that is in use needs no restart. *)
SyncClearsRestart ==
  /\ net = "sync"
  /\ \/ net' = "idle" /\ UNCHANGED restart
     \/ fs = NoTask /\ net' = "destroy" /\ restart' = FALSE
  /\ UNCHANGED <<store, fs, at, ident, bounds>> /\ NetOnly

(* Mutant: PKCS#11 is not written when it has an identity already. *)
SyncTrustsStore ==
  /\ net = "sync"
  /\ \/ net' = "idle"
     \/ /\ fs = NoTask
        /\ net' = IF \A o \in Objects : store[o] \in Known THEN "connect" ELSE "destroy"
  /\ UNCHANGED <<store, fs, at, ident, restart, bounds>> /\ NetOnly

(* No time from SNTP, or iotconnect_sdk_init begins, with iotc_fs_init. *)
Sync ==
  /\ net = "sync"
  /\ \/ net' = "idle"
     \/ fs = NoTask /\ net' = "destroy"
  /\ UNCHANGED <<store, fs, at, ident, restart, bounds>> /\ NetOnly

(* xDestroyDefaultCryptoObjects: its result is that of the last label, the  *)
(* public key nobody stores, so a file that is not removed goes unnoticed.  *)
DestroyObject ==
  /\ net = "destroy"
  /\ \/ store' = [store EXCEPT ![ObjectOrder[at]] = NoFile] /\ NoFault
     \/ Fault /\ UNCHANGED store
  /\ IF at < Len(ObjectOrder) THEN at' = at + 1 /\ UNCHANGED net
     ELSE at' = 1 /\ net' \in {"create", "failed"}
  /\ UNCHANGED <<fs, ident, restart>> /\ NetOnly

(* PKCS11_PAL_SaveObject: the file is removed and created, empty (either    *)
(* may fail) ...                                                            *)
CreateObject ==
  /\ net = "create"
  /\ \/ /\ store' = [store EXCEPT ![ObjectOrder[at]] = Empty] /\ NoFault
        /\ net' = "commit" /\ UNCHANGED at
     \/ /\ store' \in {store, [store EXCEPT ![ObjectOrder[at]] = NoFile]} /\ Fault
        /\ net' = "failed" /\ at' = 1
  /\ UNCHANGED <<fs, ident, restart>> /\ NetOnly

(* ... then written, where an error counts, and closed, where it does not. *)
CommitObject ==
  /\ net = "commit"
  /\ \/ /\ \/ store' = [store EXCEPT ![ObjectOrder[at]] = ident[ObjectOrder[at]]]
              /\ NoFault
           \/ Fault /\ UNCHANGED store
        /\ IF at < Len(ObjectOrder) THEN at' = at + 1 /\ net' = "create"
           ELSE at' = 1 /\ net' = "connect"
     \/ Fault /\ net' = "failed" /\ at' = 1 /\ UNCHANGED store
  /\ UNCHANGED <<fs, ident, restart>> /\ NetOnly

(* Discovery and the MQTT connection, both with the PKCS#11 labels.  The    *)
(* handshake needs a certificate and its key.                               *)
Connect ==
  /\ net = "connect"
  /\ \/ net' = "failed"
     \/ (\A o \in Objects : store[o] = ident[o]) /\ net' = "running"
  /\ UNCHANGED <<store, fs, at, ident, restart, bounds>> /\ NetOnly

-----------------------------------------------------------------------------
(* Other tasks and surroundings *)

(* Transfer task: a TLS session with the PKCS#11 identity, then the rest.   *)
StartTransfer ==
  /\ xfer = "idle" /\ net = "running"
  /\ xfer' = "tls"
  /\ UNCHANGED <<file, store, fs, consoleVars, netVars, restart, dirty, bounds>>

TransferStep ==
  /\ xfer # "idle"
  /\ xfer' = IF xfer = "tls" THEN "work" ELSE "idle"
  /\ UNCHANGED <<file, store, fs, consoleVars, netVars, restart, dirty, bounds>>

(* AI thread: the model store takes the mutex, see ModelStore. *)
SaveModel ==
  /\ fs = NoTask
  /\ fs' = "ai"
  /\ UNCHANGED <<file, store, consoleVars, netVars, restart, xfer, dirty, bounds>>

ModelSaved ==
  /\ fs = "ai" /\ fs' = NoTask
  /\ UNCHANGED <<file, store, consoleVars, netVars, restart, xfer, dirty, bounds>>

(* Power loss, or reboot on the console: the files stay. *)
Reset ==
  /\ fs' = NoTask /\ cli' = Prompt /\ reply' = "none"
  /\ net' = "idle" /\ at' = 1 /\ ident' = Nothing /\ restart' = FALSE /\ xfer' = "idle"
  /\ dirty' = FALSE
  /\ UNCHANGED <<file, store, bounds>>

-----------------------------------------------------------------------------
(* The tasks that are inside LittleFS. *)
InLfs ==
  ({fs} \ {NoTask})
    \cup {t \in {"net"} : net \in {"destroy", "create", "commit", "connect"}}
    \cup {t \in {"xfer"} : xfer = "tls"}

Exclusive == \A t, u \in InLfs : t = u

CliStep ==
  CliLock \/ WriteOpen \/ WriteClose \/ RemoveField \/ ShowField

NetStep ==
  \/ Poll \/ BeginLoad \/ LoadLock \/ LoadField \/ Sync
  \/ DestroyObject \/ CreateObject \/ CommitObject \/ Connect

Console ==
  \/ \E f \in Fields, v \in Values \cup {Empty} : SetCommand(f, v)
  \/ EraseCommand \/ ShowCommand \/ ApplyCommand

Others == StartTransfer \/ TransferStep \/ SaveModel \/ ModelSaved \/ Reset

Next ==
  /\ CliStep \/ NetStep \/ Console \/ Others
  /\ clash' = (clash \/ ~ Exclusive')

Spec == Init /\ [][Next]_vars

-----------------------------------------------------------------------------
NetPcs == Polls \cup {"switch", "load", "read", "sync", "destroy", "create", "commit",
                      "connect"}
HasMutex == {"set", "close", "erase", "show"}

(* Type correctness; a task is in a locked section exactly when it has the  *)
(* mutex.                                                                   *)
TypeOK ==
  /\ file \in [Fields -> Content]
  /\ store \in [Objects -> Loadable \cup {NoFile, Empty}]
  /\ ident \in [Fields -> Loadable \cup {NoFile}]
  /\ fs \in {NoTask, "cli", "net", "ai"}
  /\ cli \in [pc : {"prompt", "lock"} \cup HasMutex, op : {"none", "set", "erase", "show"},
              f : Fields, v : Values \cup {Empty}, at : 1..Len(Order)]
  /\ cli.pc \in HasMutex <=> fs = "cli"
  /\ net \in NetPcs /\ (net = "read" <=> fs = "net")
  /\ at \in IF net \in {"destroy", "create", "commit"} THEN 1..Len(ObjectOrder)
            ELSE 1..Len(Order)
  /\ reply \in {"none", "ok", "error"} /\ xfer \in {"idle", "tls", "work"}
  /\ restart \in BOOLEAN /\ dirty \in BOOLEAN /\ clash \in BOOLEAN
  /\ commands \in Nat /\ faults \in Nat

(* The net thread never starts with an incomplete identity: a field that    *)
(* was being written or had been typed empty is as good as missing.         *)
IdentityComplete ==
  net \in {"sync", "destroy", "create", "commit", "connect", "running"}
    => \A f \in Fields : ident[f] \in Loadable

(* No TLS session is opened with a certificate or key of another identity   *)
(* than the one loaded last, whatever provisioning was interrupted before.  *)
ConnectsAsLoaded ==
  net = "connect" /\ ~ clash => \A o \in Objects : store[o] \in {ident[o], Empty}

(* The five files are read one by one, so what is loaded may mix two        *)
(* configurations.  It is complete all the same, and never stays in use:    *)
(* once the last apply was taken up the identity in use is what the files   *)
(* hold, each field cut to its size.                                        *)
RunsAsApplied ==
  net = "running" =>
    /\ \A f \in Fields : ident[f] \in Loadable
    /\ ~ restart /\ ~ dirty /\ ~ clash => ident = FilesAsRead

(* The console sees a store of fields that change at once, see ConfigStore. *)
CS == INSTANCE ConfigStore WITH
        Values <- Known, Unset <- NoFile,
        field <- [f \in Fields |-> IF file[f] = Empty THEN NoFile ELSE file[f]],
        call <- CASE cli.op = "set" ->
                       [op |-> "set", f |-> cli.f,
                        v |-> IF cli.v = Empty THEN NoFile ELSE cli.v]
                  [] cli.op = "erase" -> [op |-> "erase"]
                  [] OTHER -> [op |-> "none"]

ImplementsConfigStore == CS!Spec

-----------------------------------------------------------------------------
(* What the help of iotc_cli.c says of apply, and is not so for a typed     *)
(* value longer than its field: the board connects with the stored          *)
(* configuration.                                                           *)
ConnectsWithStored == net = "running" /\ ~ restart /\ ~ dirty /\ ~ clash => ident = file

(* What iotc_fs.h says, and the PKCS#11 layer does not do: the mutex        *)
(* serialises LittleFS access between tasks.                                *)
FilesystemSerialized == Exclusive
=============================================================================
