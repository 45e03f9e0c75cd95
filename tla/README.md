# TLA+ models of the IOTCONNECT Vision AI firmware (EK-RA8P1)

The firmware runs a camera, a neural network on the Ethos-U NPU and a display on a Renesas
RA8P1 under FreeRTOS, and connects the board to /IOTCONNECT over MQTT: telemetry, cloud
commands, snapshots, and models pushed over the air that are swapped in without a restart and
kept in OSPI flash.  The modules in this directory model the part of it where several tasks,
a flash device and a reset meet; TLC checks them on small instances and TLAPS proves the most
important properties for every value of the constants.

All sources are named relative to the repository (`src/...` is the repository's `src` directory).

    tlc -workers 2 -config MCHotSwap.cfg MCHotSwap           a run
    tlapm ModelStoreProofs.tla                               the proofs of a module

## 1. Inventory of the system

### Tasks

| task | code | priority | what it does |
|---|---|---|---|
| camera | `src/camera_thread_entry.c` | 3 | waits for frames, scales one for the model, hands over by event bits |
| ai_inference | `src/ai_inference_thread_entry.c`, `FaceDetection.cc` | 1 | boots the model, infers, **swaps models between two inferences, writes the flash slot** |
| display | `src/display_thread_entry.c` | 3 | shows the latest frame and the classification panel |
| net_thread | `src/net_thread_entry.c`, `iotc_app.c` | 2 | every 500 ms `iotc_app_poll`: connect, telemetry, start transfers, retry, reboot |
| iotc_mqtt (pump) | `iotc_mqtt_client.c` | 2 | `MQTT_ProcessLoop`; runs the callbacks of cloud commands and pushes |
| iotc_xfer | `iotc_app.c` | 2 | one long transfer at a time: download a model, upload a snapshot |
| iotc_cli | `iotc_cli.c` | 1 | serial provisioning: set, apply, erase, snapshot, brightness, LED |
| kvs, KVSMedia | `kvs_webrtc_task.c`, `ra8p1_media_port.c` | 1 | live video: signalling, encoder |

The VIN interrupt publishes a frame every 18 ms; the UART interrupt fills the console's ring.

Preemption is on and time slicing off, so two tasks of one priority replace each other when one
blocks, or when a camera or network task preempts it and the scheduler picks another on return.

### Components

State, operations, interactions and correctness, component by component.  The status of each is
in `PROJECT.json`.

**Flash model slot** (`src/model_store/model_store.c`, 217 lines).  State: 4 MB of OSPI NOR flash
behind an IOTV envelope (magic, name, length, CRC), no RAM state.  Operations: `model_store_save`
(validate, erase 64 KB blocks, program 64 bytes at a time, verify by comparison),
`model_store_load` (copy, validate), `model_store_erase` (one 4 KB sector).  Each holds
the file system's mutex while it touches the flash.  Hard: the only copy is rewritten in place; a reset
or a device timeout may come between any two flash commands; two tasks call it.  Correct when a
reported save survives, a load returns exactly a saved model or nothing, every call returns.

**Model lifecycle** (`FaceDetection.cc`, 553 lines; `Model.cc`).  State: the staging buffer under
the interpreter, the pending buffer, the word `s_pending_len`, the model object (`IsInited`),
name and version for telemetry.  Operations: `face_detection_init` (load from the slot, else the
compiled-in model, else idle), `face_detection_request_swap` (transfer task),
`face_detection_revert` (pump task), `prv_swap_if_pending` and the inference after it (AI thread;
`handle_error` stops the core when that fails).  Hard: three tasks share
the pending buffer with one volatile word between them; a swap can fail after the old model is
gone; the interpreter's destructor reads the buffer it was built on.  Correct when interpreter,
buffer, name, slot and queue word fit together after every path.

**Application** (`src/iotc/iotc_app.c`, 763 lines).  State: the connection state machine, flags
and strings of pending and running transfers, restart and reboot requests; all `volatile`, no
lock.  Operations: `iotc_app_poll` on the net thread, `prv_on_command` and `prv_on_ota` on the
pump, `prv_xfer_task`, and the two requests of the console.  Hard: four tasks, ordering of flag
writes as the only protection, retries, teardown of a connection that another task still uses.
Correct when every request is carried out and acknowledged once and the connection outlives what
depends on it.

**MQTT client** (`iotc_mqtt_client.c`, 262 lines).  State: the coreMQTT context, the TLS session in
`s_tls_params`, `s_connected`, `s_stop`, a recursive API mutex.  Operations: connect, publish,
disconnect, the pump loop.  Hard: connect and disconnect use the context without the mutex, a
disconnect does not wait for the pump, a publish is dropped when the connection is gone, a callback
publishes inside `MQTT_ProcessLoop`.  Correct when coreMQTT is entered by one task at a time, a
transfer keeps the session it answers on, and a lost connection is noticed and replaced.

**Configuration, identity, file system** (`iotc_config.c`, `iotc_fs.c`, `iotconnect.c`, the
PKCS#11 file layer in `ra/`).  State: five littlefs files (CPID, environment, DUID, certificate,
key), a copy of the last two as PKCS#11 objects, the mutex.  Operations: write, read, erase, load,
provision.  Hard: five files are read in five critical sections, provisioning deletes and rewrites
two objects without the mutex, calls fail, a reset may come anywhere.  Correct when the board never
connects with a mixture, and what the console was told is true.

**Console** (`console_output.c`, `iotc_cli.c`).  State: a receive ring fed by the UART interrupt,
the line being read, the PEM block being captured.  Hard: a paste is faster than its reader,
ends without a newline, comes in parts, or is the wrong block; its lines must not run as commands.
The write mutex and a gate that holds output back while someone types decide only when text appears.

**SDK glue** (`iotconnect.c`, `iotc_dra_client.c`, `iotcl_c2d.c`, `iotc_time.c`): discovery and
identity over HTTPS, C2D parsing, SNTP.  Sequential; what matters is the order of init and deinit.

**Snapshot and upload** (`iotc_snapshot.c`, `png_gray.c`, `iotc_file_upload.c`): frame copy, PNG,
credentials, STS, signed PUT.  One response buffer without a lock, used by two tasks.

**Camera, inference results, display** (`camera_control.c`, `camera_thread_entry.c`,
`ai_inference_thread_entry.c`, `FaceDetection.cc`, `display_thread_entry.c`).  State: three VIN
buffers and `gp_next_buffer`, the event group, the box list, brightness request, LED switch.  No
lock anywhere.  Hard: an interrupt, three threads and two command tasks; priorities and the order of
writes are the protection.

**KVS WebRTC** (`kvs_webrtc_task.c`, `ra8p1_media_port.c`, `kvs_lwip_shim.c`): retry loop around a
vendored SDK, frames to an encoder, BSD sockets over FreeRTOS+TCP.

**Not first-party**: `ra/`, `ra_gen/`, `src/kvs/`, the empty submodule of the C library.

### How they interact

    cloud -> pump task --(flags, strings)--> net thread --(running flag, notification)--> iotc_xfer
                |                               |                                            |
                | model-revert                  | connect / deinit                  download | upload
                v                               v                                            v
          pending buffer + s_pending_len <------------------------------------- pending buffer
                |
                v   AI thread: copy -> staging -> interpreter -> model_store_save -> flash
          console: iotc_app_request_restart, iotc_app_request_snapshot

## 2. Modules

| module | models | code it stands for |
|---|---|---|
| `ModelSlot` | abstract: a slot that holds one complete blob or nothing | (specification) |
| `ModelStore` | the slot on NOR flash, every flash command a step | `model_store.c`, the mutex of `iotc_fs.c` |
| `HotSwap` | download, queue, swap, save, revert, boot; INSTANCEs `ModelStore` | `FaceDetection.cc`, `Model.cc` Init, the push and revert parts of `iotc_app.c` |
| `IotcApp` | connection, commands, transfers, restart, reboot | `iotc_app.c`, the callbacks' side of `iotc_mqtt_client.c` |
| `MqttClient` | one MQTT context and TLS session under three tasks | `iotc_mqtt_client.c`, its callers in `iotc_app.c` and `iotconnect.c` |
| `ConfigStore` | abstract: fields that change at once | (specification) |
| `DeviceConfig` | configuration files, loading, provisioning, the console's commands | `iotc_config.c`, `iotc_fs.c`, `iotc_cli.c`, `iotconnect.c`, PKCS#11 file layer |
| `PemCapture` | receive ring, line reader, PEM capture | `console_output.c`, `iotc_cli.c` |
| `FramePipeline` | VIN interrupt, camera, AI and display threads, snapshot copy, brightness, LED, video | `camera_control.c`, `*_thread_entry.c`, `iotc_snapshot.c`, `ra8p1_media_port.c` |
| `ModelStoreProofs`, `HotSwapProofs`, `IotcAppProofs`, `MqttClientProofs`, `DeviceConfigProofs`, `PemCaptureProofs`, `FramePipelineProofs` | theorems | |
| `LifecycleProofs` | theorems that join `HotSwap` with what is proved of `ModelStore` | |
| `MCModelStore`, `MCHotSwap`, `MCIotcApp`, `MCDeviceConfig`, `MCPemCapture`, `MCFramePipeline` | instances for TLC | |

The four larger machines meet at named places: `HotSwap` contains `ModelStore`; `IotcApp` sees a
configuration as a version number and `DeviceConfig` says what one load really yields; `IotcApp`
sees the connection as a flag and `MqttClient` what is behind it; `DeviceConfig` sees a model save
as a holder of the mutex and `PemCapture` delivers the values of its `SetCommand`.

Operators called "Mutant: ..." in their comment are wrong variants of the operator after them.
No specification uses them; they record the bugs each property is known to detect.

### ModelStore

A flash cell stands for one program unit of a blob (`Chunk(b, i)`), `Erased` or `Garbage`; a blob
of `Chunks[b]` cells occupies cells 1 to `Chunks[b]`.  A blob that *holds* in a region has all its
cells there, which is what the envelope's length and CRC say; two different blobs of equal first
cells do not exist.  The variables are the slot, the holder of the mutex, one record
`[pc, at, len, blob]` per calling task and three history variables (`reply`, `saved`, `faults`).

| action | code |
|---|---|
| `SaveCall` | `model_store_save` until the mutex: validate, length limit |
| `SaveLock` | `iotc_fs_lock` |
| `EraseBlock`, `EraseBlockFails` | one turn of the erase loop; the device erases or not and times out |
| `ProgramChunk`, `ProgramChunkFails` | one turn of the program loop, with write enable and wait |
| `Verify` | the comparison, unlock, return |
| `Load` | `model_store_load`: copy and validate |
| `DiscardLock`, `EraseSector` | `model_store_erase` |
| `Reset` | power loss; the command in flight may leave its cells in any state |

Erase and program work as NOR flash does: an erase takes a whole block, programming a cell that is
not erased gives garbage.  The 4 KB sector of `model_store_erase` is smaller than the block of
a save (`SectorChunks <= BlockChunks`).

### HotSwap

The AI thread's program counter goes through `boot ... -> idle -> copy -> apply -> save -> saving
-> finish -> infer` with the detours `reload` and `builtin`, and ends at `halted` when an inference
or the boot fails: `handle_error` stops the core, and with it every task (`Stopped`).  Every pass over the pending buffer is one step
per chunk, because a download on another task may be writing it: the copy to staging, the
programming of the flash, the wrap of the built-in model by `model-revert`, the download.
`Outcomes` is what a model comes to, from a refusal in `Model::Init` to inferences that fail (`Infer`);
bytes that are not one complete model come to any of them, or crash.  The copy to staging takes its
length from a header nobody looks at: an unknown one gives any number (`HeaderLens`), and a copy
that leaves the buffer faults or overwrites what follows it (`CopyPast`).  The interpreter object and `IsInited` are separate, because `Model::Init` creates the
interpreter before it can fail.  The variable `scene`, drawn from the constant `Scenes` and never
changed, chooses the build (`builtin`; FALSE is the shipped one), whether the operator waits for one
push or revert before the next (`serial`), and the models pushed.

### IotcApp

`net` is where the net thread stands in `iotc_app_poll`; a step ends at each shared flag it reads
or writes.  `xfer` is the same for the transfer task, `pump` for a callback of the pump.  With
`preempt` (drawn from `Preempts`) a condition over two flags (`s_model_pending && !s_model_running`, line 692;
the same for the snapshot, line 721) is two steps.  `req[r]` is the history of a cloud request:
new, taken (accepted, to be acknowledged later), ended (its final acknowledgement was handed to the
MQTT client, which publishes it or, without a connection, drops it), ended twice, or lost in a reset.  A
configuration is a version number: the console stores a newer one, `apply` asks for a restart, the
net thread loads it when it starts a connection.

### MqttClient

`net` is where the net thread stands in a poll, a connect or a disconnect, `pump` where the pump
stands in its loop, `pub[t]` where task `t` stands in `iotc_mqtt_client_publish`.  `holder` and
`depth` are the recursive mutex.  `tls` is the session in `s_tls_params`: closed, open, or broken
(the peer is gone, the memory is still held); `leaked` counts sessions that no variable refers to
any more.

| action | code |
|---|---|
| `PollRestart`, `PollIdle`, `PollRunning`, `PollFailed` | what `iotc_app_poll` does with the connection |
| `TlsConnect`, `MqttConnect`, `SetConnected`, `CreatePump`, `CreateFails` | `iotc_mqtt_client_connect` |
| `Disconnect`, `DisconnectTls`, `DisconnectEnds` | `iotc_mqtt_client_disconnect` |
| `PumpCheck`, `PumpTake`, `ProcessLoop`, `CallbackPublishes`, `CallbackEnds`, `PumpLost` | `prv_pump`, `prv_event_cb` |
| `PublishTake`, `PublishSent` | `iotc_mqtt_client_publish`, in any of three tasks |

### ConfigStore and DeviceConfig

`file[f]` is a configuration file, `store[o]` a PKCS#11 file: a value, `NoFile` or `Empty`.
LittleFS keeps the old content of a file until its new content is committed, so `WriteOpen` changes
only a file that was missing and `WriteClose` is the commit.  The net thread goes through
`switch -> load/read (once per field, with the mutex) -> sync -> destroy -> create/commit (once per
object, without it) -> connect -> running`.  Any LittleFS call may fail, a reset may come anywhere.
A read cuts a typed value (`Texts`) to the size of its field (`Cut`, `ReadField`); a captured PEM fits.
`ConfigStore` is what the console may rely on: `set` takes effect at once or not at all, `erase`
removes fields one by one and always answers ok.  An empty file refines an unset field.

### PemCapture

A token stands for the text of a line or for a character that ends one, so that text runs together
when the ring drops a line end.  `mode` combines the locals of `prv_read_pem`: `open` (nothing used
yet), `block`, `wrong` (`wrong_type`), `large` (`too_large`).  `Receive` is the UART interrupt;
`DropLf`, `EndLine` and `AddText` are the three ways `prv_read_line` treats a character, and the
line that ends is handled in the same step by one of `EmptyLine`, `CancelLine`, `BeginLine`,
`JunkLine`, `BlockLine`, `Swallow` (`prv_read_pem`) or `PromptLine` (`prv_handle`).

### FramePipeline

`pc[t]` is where each of eight tasks stands; `Step` lets a task run only when no task of a higher
priority is ready, while the VIN interrupt (`FrameHalf`, `FrameComplete`) comes at any time.  Each
write to shared memory is a step of its own.  A box is old, half written or new; the snapshot's copy
of a frame is in two halves, of which it remembers whether VIN had rewritten them; any number of
frames may complete meanwhile.  Register writes may not take (`bright.took`), an encoded frame may
be dropped (`media.blind`: the viewer has had no key frame yet), and the code does not look.  Half written
boxes, the result bit, the brightness request, the LED and the key frame request share only the
tasks, so a *scene* lists the controls used together.

## 3. What is checked

| run | instance | shows |
|---|---|---|
| `store` | 2 tasks, blobs of 4 and 3 chunks, slot of 4 chunks in blocks of 2, 2 faults or resets | `Durable`, `LoadReturnsSaved`: what a save reported stays and is what a load returns. `HealthyFlashSaves`: without a fault a save succeeds whatever was in the slot before. `ImplementsSlot`: the flash slot implements `ModelSlot`. |
| `swap` | in turn, in both builds, of 2 good models, 1 of a wrong shape, 1 too big, 1 that fails to infer; overlapping, in the shipped build, of 1 good and 1 of a wrong shape; 1 fault or reset, 2 download attempts | In turn: the copy stays in its buffer (`CopyInBounds`), the slot only holds accepted models (`SlotLoadable`), the model named infers or was refused by a build that has no other (`NameIsRunning`), the board stops only over a bad model (`HaltsOverBadModel`), a revert is final but for a failed erase (`RevertErasesSlot`), a boot brings back the model last saved (`SavedModelBoots`), a good queued model comes to run (`QueuedModelRuns`). With overlap too: teardown comes before overwriting (`TeardownFirst`), no boot builds an interpreter over a torn model (`BootModelWhole`), the queue word is always cleared while the board runs (`SwapConsumed`). |
| `app` | with and without preemption inside a condition; 2 snapshot commands, 1 push, 1 console snapshot, 1 configuration change, 1 lost connection, 1 reboot | `TransferKeepsConnection`, `ScratchExclusive`, `EndedOnce`, `AppliedConfigUsed`, and, without that preemption, `RequestsKeptInTurn` |
| `app_live` | 1 snapshot command, 1 push, 1 configuration change, 1 lost connection, 1 reboot | `RequestsCarriedOut`, `ApplyTakesEffect`, `RebootHappens` |
| `mqtt` | 2 lost connections, 1 restart, heap for 3 sessions | `ContextExclusive`: one task at a time in coreMQTT, unless a restart closed the session under a living pump. `TransferHasSession`: no transfer acknowledges without one. `LossNoticed`, `PublishReturns`, `Reconnects`. |
| `config` | 3 fields, 2 of them PKCS#11 objects, 2 identities, one with a value longer than its field, 3 console commands, 1 failed call, any resets | `ConnectsAsLoaded`, `RunsAsApplied`: an identity in use is complete, is what the files hold, each field cut to its size, and a mixture of two is never in use for long; `ImplementsConfigStore` |
| `console` | 4 blocks (2 good, 1 wrong, 1 too large), 3 line endings, ring of 4 tokens, 4 things sent, 2 tokens lost | `StoredFramed`, `StoredWhole`, `PasteNotRun`, `BlockEndsCapture` |
| `frames` | 2 boxes; snapshots, brightness, LED and stream in turn | `OneResultDrawn`, `LevelWritten`, `LedDarkWhenOff`, `NoResultLost`, `KeyFrameKept` |

Properties that are proved for every instance and that the ones above rest on are not listed in a
run again: the type invariants of `ModelStore`, `HotSwap`, `MqttClient`, `DeviceConfig`,
`FramePipeline` (`StoreTypeOK`, `SwapTypeCorrect`, `TypeCorrect`) and of `PemCapture`
(`CaptureTypeCorrect`), `NoLostWakeup` of `IotcApp`,
`ConnectionServed` of `MqttClient` and `IdentityComplete` of `DeviceConfig`.

### Bounds, and why they are enough

- *Slot of two erase blocks; blobs of two blocks and of one and a half.*  Any smaller and the erase
  loop has no second turn and no blob ends inside a block.  Longer blobs repeat the same turns.
  `HotSwap` leaves that to `store` and has one block of two chunks, which is what a torn model needs.
- *Two faults or resets (`MaxFaults`)* in `store`: one can ruin a save, the other the erase or save
  that repairs it.  `HotSwap` allows one, with two models to save.
- *Two calling tasks*: the code has exactly these two (AI thread, pump).  The proofs allow any number.
- *Each model is pushed at most once*; two or three of them in a scene allow a swap after a swap or
  after a failure, and a model saved over another one.  The scenes of `InTurn` differ in what becomes
  of the models; each good or bad kind has one.
- *Overlap (`OverlapBound`)*: of what follows a fault only the boot after a reset is looked at.  The
  theorems about `TeardownFirst`, `BootModelWhole` and the mutex hold for any overlap without this bound.
- *`MaxAttempts`* is 1 or 2 for 3 in the code; an attempt restarts the same loop.
- *`IotcApp`*: requests and drops are counted because each is an input from outside.  One more
  request of a kind than the code can hold is needed to see refusals, hence two snapshot commands
  and a console snapshot.  `MaxConfig = 1`: one change on top of the initial configuration.
- *`MqttClient`*: the second lost connection is the first that leaks beside a session leaked before;
  a restart may come between.  `SessionRoom = 3` is the heap the two leaks need; with less the
  device does not reconnect, which is run `reconnects`.
- *`DeviceConfig`*: a field that is only text, and two that are provisioned, so that a mixture inside
  the configuration and one between the two objects are both possible; two sets and an apply are
  three commands.  The new identity's text is longer than its field, the old one's is not.  The constraint
  `Unclashed` stops the search where two tasks meet in LittleFS
  (run `fs_serialized`): what such a meeting leaves on the flash is not modelled.
- *`PemCapture`*: a wrong paste, a partial one, a good one and an Enter are four things sent.  The
  ring of four tokens overflows inside the shortest block.  `CHECK_DEADLOCK FALSE`, since after the
  last paste nothing arrives any more.
- *`FramePipeline`*: with two boxes a count can be of the first while the second is written; the
  second is looked at in the snapshot's scene only (`SecondBox`), `BoxesHold` proves the rest.  Scenes
  are sets of one, since no two controls share a variable beside the tasks.

### Fairness

`HotSwap`: strong fairness of the AI thread (it may wait for the flash mutex, which FreeRTOS hands
to the waiter of highest priority, and the camera keeps delivering frames) and weak fairness of
the other two tasks in what they have begun.  Pushes, reverts, faults and resets are never forced.
`IotcApp`: every task runs on and time passes (weak).  Strong fairness says that, retried again
and again, the network comes up (`PollIdle`), a start succeeds (`Connect`) and a download ends
otherwise than for lack of heap (`Downloaded`).  The code retries each of these without a limit,
so nothing weaker could bring an answer; no fairness on commands, drops or the console.
`MqttClient`: tasks run on (weak); the mutex goes to its waiters (strong, `PumpTake` and `Publish`);
a callback that publishes returns (strong, `CallbackEnds`); discovery, handshake, CONNECT and task
creation, tried again and again with memory to spare, succeed (strong).  Drops are not forced.
`PemCapture`: characters on the wire arrive and the console task runs on (weak).

### What the documents say and the code does not do

Four runs expect a violation; their traces are the shortest way to see it.

| run | disagreement |
|---|---|
| `swap_validated` | `SwapsValidatedModel`. `docs/DEVELOPER.md:248` lets the AI thread validate the pending buffer; the transfer task does, and the next download may overwrite it before it is copied |
| `request_lost` | with a preemption between the two flags of line 692 or 721 of `iotc_app.c` a finished transfer is started again, and a command accepted during that second run is dropped by its end |
| `reconnects` | `docs/DEVELOPER.md:257`: after a lost connection the device reconnects. Each loss leaks a TLS session (`iotc_mqtt_client.c:87`, `:210`, `:114`), until there is no heap for the next |
| `fs_serialized` | `FilesystemSerialized`. `iotc_fs.h:20`: the mutex serialises littlefs access between tasks, PKCS#11 among them. The PKCS#11 layer does not take it |

The following definitions, at the end of their modules, state what the documents say and fail as well.
They have no run of their own; as the INVARIANT of the configuration named, each gives its trace.

| definition | configuration | disagreement |
|---|---|---|
| `ReportedModelRuns` | `MCHotSwap.cfg` | `docs/DEVELOPER.md:276`: telemetry names the running model. A refused model keeps the name it was given before it was applied (`FaceDetection.cc:353`), and nothing infers |
| `PreviousKeepsRunning` | `MCHotSwap.cfg` | `docs/DEVELOPER.md:252`, `:355`: a failed swap keeps or restores the previous model. It is gone by line 351 of `FaceDetection.cc` |
| `RevertClearsStore` | `MCHotSwap.cfg` | `docs/DEVELOPER.md:291`, `README.md:441`: model-revert erases the stored model. The result of the erase is ignored (`FaceDetection.cc:301`); with overlap, a swap under way saves its model after it (`:363`). Both are acknowledged as done |
| `StoredModelServes` | `MCHotSwap.cfg` | `docs/DEVELOPER.md:524`: a board that stopped responding is power-cycled and boots into its stored model. A model that cannot infer is saved before its first inference, and every boot halts over it (`FaceDetection.cc:468`, `ai_inference_thread_entry.c:195`, `common_util.c:232`) |
| `ConnectsWithStored` | `MCDeviceConfig.cfg` | `iotc_cli.c:243`: apply connects with the stored configuration. A value longer than its field is stored whole and used cut (`iotc_config.c:78`) |
| `SnapshotWhole` | `MCFramePipeline.cfg` | `README.md:430`: a snapshot is what the camera saw. The copy takes several frames (`camera_thread_entry.c:215`), and VIN rewrites the buffer it is made from |
| `SensorAsSet` | `MCFramePipeline.cfg` | `docs/DEVELOPER.md:292`: set-brightness sets the camera. The request is cleared before register writes whose failure nobody looks at (`camera_control.c:730`, `ov5640.c:48`) |
| `ViewerGetsKeyFrame` | `MCFramePipeline.cfg` | `ra8p1_media_port.c:317`: a joining viewer needs a key frame. Its request is cleared before a key frame that may be dropped (`:207`, `:223`); the next is the encoder's own, up to 30 frames later |

Noticed while modelling, with no run of their own:

- `docs/DEVELOPER.md:291`: after model-revert inference idles; the old interpreter goes on until a
  reset (`FaceDetection.cc:307`).  A model refused for its shape is applied again at line 378 in a
  build without a compiled-in model, and infers as the kind accepted last.
- A push that overlaps another one can make the copy of line 352 run past staging, and build an
  interpreter over torn bytes; both are undefined behaviour, which the model lets halt the board or not.
- An acknowledgement published without a connection is dropped, and the caller is not told
  (`iotc_mqtt_client.c:229`): the cloud may never hear how a push or a snapshot ended.
- A console snapshot asked for during an upload disappears (`iotc_app.c:552` and `:420`).  A failure
  after a restart request is retried on the old backoff timer (`iotc_app.c:744`).
- `README.md:304`: an empty line or `cancel` aborts a PEM capture.  An empty line does only before
  any other input (`iotc_cli.c:155`) and `cancel` only before a BEGIN line is kept (`:163`); inside
  a block both become part of it or are ignored.
- A paste that stops in the middle of a line runs into the next one.  A second block in the same
  paste reaches the prompt and its lines are run as commands.
- `erase` answers ok when a file could not be removed (`iotc_config.c:102`); a PKCS#11 object that
  could not be deleted goes unnoticed, and the next connection is refused or fails.
- `led_auto_set(false)` between the AI thread's two accesses leaves the LED lit.
- A viewer who joins a running stream gets no key frame on request: the port is started for the
  first viewer only.

## 4. What is proved

Everything below holds for every value of the constants that satisfies the modules' named
assumptions (`StoreAssumption`, `SwapAssumption`, `AppAssumption`, `MqttAssumption`,
`ConfigAssumption`, `CaptureAssumption`, `PipelineAssumption`), with no bound on faults, resets,
requests or tasks beside those the modules count in their constants.  tlapm checks every leaf.

**ModelStoreProofs** (`StoreTypeOK`, `SavedIsDurable`, `SavedIsLoaded`, `HealthyFlash`,
`Implements`).  `Durable` is not inductive: a state in which a task that does not hold the mutex
stands in the middle of a rewrite satisfies it and its next step breaks it.  `StoreInv` adds
`TypeOK`, `LockDiscipline` (a task in the middle of a rewrite holds the mutex, hence is alone, and
nothing counts as saved while it works) and `FullLength` (a save works on the whole length of the
blob it was given, so the comparison of `Verify` covers the blob and establishes `Durable`).
`SavedIsLoaded` is an action property from the same invariant.  `HealthyFlash` adds `Progress`: as
long as nothing failed, the blocks a save has passed are erased and the chunks it has passed are
programmed, whatever the slot held; `BlocksCover` is the arithmetic of the last, partial block.
`Implements` is step simulation under the mapping "the blob that validates, or nothing": the first
command of a rewrite spoils the abstract content, the last program step fills it, and the rest
stutters.

**HotSwapProofs** (`SwapTypeCorrect`, `FlashMutexKept`, `InterpreterGoneFirst`,
`BootsWholeModel`; `CopyStaysInside`, `StoredModelLoads`, `ReportedModelInfers`, `HaltsForAReason`,
`RevertedStaysReverted`).  The first
four hold for any overlap of pushes, reverts and resets, in both builds:

- `TypeInv` says which task is inside which call of the store (`StoreUse`).  It is what keeps every
  length and index of a download or a save inside its buffer: a save works only on a length that
  validated.  The copy into staging has no such check, and goes no further than `PastEnd` only
  because that stands for everything past the end.
- `FlashHeld` ties the mutex to the two program counters: whoever is between two flash commands
  holds it, and every return, the failing ones included, has given it back.
- `EngineInv`: at every program counter at which staging is about to be overwritten there is no
  interpreter, and only the AI thread touches it.
- `BootInv`: until the board is connected the buffers belong to the boot, so what the load
  validated is what staging gets.

The last five are promised to an operator who lets one push or revert take effect, and waits for the
next inference, before the next, and rest on `TurnInv`, which follows one model on its way: `OneAtATime` (the AI thread and
the other two tasks take turns, with `s_pending_len` as the only handover), `Buffers` (what a non-zero
length says about the pending buffer, including that a download that began with one model's header
cannot validate as another), `EngineInTurn` (staging, name and interpreter at each point of
a swap, and what the board stopped over) and `Reverts` (what a failed erase spared).  None of them is inductive alone: `NameIsRunning` needs to know what was
copied, that what was queued, and that the slot.

**LifecycleProofs** (`StoreUsedAsSpecified`, `SwappedModelSurvives`, `LifecycleImplementsSlot`,
`SavedModelComesBack`, `SwapEndsWithQueued`).  `ModelStore` is proved correct for callers
that leave their buffer alone during a save; the real caller saves from the pending buffer, which
three tasks write.  `StoreUsedAsSpecified` shows, for pushes and reverts in turn, that every step
of `HotSwap` is a step of `ModelStore` or leaves the flash alone: `SavesQueued` and `SavedSource`
say that while the flash is programmed and compared the pending buffer is, over the length of
the model, what `Source` is.  The theorems of `ModelStoreProofs`, taken from an instance of that module,
then hold under the lifecycle: durability, and by composition of the two refinements the abstract
slot.  `SavedModelComesBack` carries it on from the flash to the interpreter: a model whose
save was reported before a reset is the one the boot after it ends with, still in the slot, through `LoadFindsSaved` and an invariant
that follows it through the pending buffer and staging.  `SwapEndsWithQueued` is the safety
core of `QueuedModelRuns`: a swap of a supported model has no other way to end than
with that model accepted and reported.  Where pushes overlap these do not hold: a download
that begins during a save may change what is stored, for the same reason as in `swap_validated`.

**IotcAppProofs** (`AppTypeCorrect`, `ConnectionOutlivesTransfer`, `ResponseBufferExclusive`,
`StartedTransferWakes`, `ChangedConfigIsUsed`, `NoDoubleAnswer`, `TakenRequestsKept`).
`TransferInv` (for `ConnectionOutlivesTransfer`, `ResponseBufferExclusive`, `StartedTransferWakes`)
ties the program counter of the transfer task to the running flags and the notification: while it
works its flag is set, and a set flag means it works or will be woken. Only with that does the test
of the two running flags before a teardown mean anything. `ConfigInv` (for `ChangedConfigIsUsed`)
says that what is loaded is at least what was last applied unless a restart is still asked for.
`RequestInv` (for `NoDoubleAnswer`) says that a request in the pump's hand, in the acknowledgement
id or taken up for download has not ended yet, and that these three places never hold the same
request in a way that ends it again; it survives the spurious second run of `request_lost` and
any preemption.  `KeptInv` (for `TakenRequestsKept`) says that a pending flag is up exactly while
the stored request may not be replaced: no callback stores one then, a running transfer keeps it up
until its last step, and it is taken down only when the storage is empty.  It needs that the net
thread reads both flags of a condition in one turn; `request_lost` shows that without this it fails.

**MqttClientProofs** (`TypeCorrect`, `Served`, `TransferServed`, `Exclusive`).  The inductive
invariant joins `TypeOK` with `TransferInv` (a transfer and a closing or opening net thread exclude
each other), `ConnectionInv` (what the flags say about the session and the pump at each point of a
connect and a disconnect) and `MutexInv` (who is inside coreMQTT holds the mutex, or is the net
thread at a point where no other task can be).  `Exclusive` follows although connect and disconnect
never take the mutex, because of the other two.

**DeviceConfigProofs** (`TypeCorrect`, `Complete`, `AsLoaded`, `AsApplied`, `Implements`).
`ConsoleInv` and `LockInv` place each task in its section; `NetInv` carries `LoadedSoFar` (the fields
read since the last change are those of the files) and `CopiedSoFar` (the objects before the current
one are those of the loaded identity).  `Implements` maps an empty file to an unset field and each
step of the files to one of `ConfigStore` or a stutter.  `AsApplied` compares the identity with what
the files read as (`FilesAsRead`): that this is what they hold fails for a value too long
(`ConnectsWithStored`).

**PemCaptureProofs** (`CaptureTypeCorrect`, `FramedIsStored`, `BlockStoredWhole`, `PasteIsNotRun`,
`BlockReturnsToPrompt`).  `FramedIsStored` holds whatever the ring drops: `FramedInv` adds to it that
the text kept so far begins with a BEGIN line of the wanted label.  The others are about a ring that
dropped nothing, and there `WholeInv` makes the capture a function of how much of the last thing
sent was read.  It joins ring and wire into one sequence, `Unread`, which receiving leaves as it is
and reading only shortens.  Either neither it nor the line has to do with a block (`Quiet`), or `c`
lines of a block have been read, and `mode` and `s_pem` are what those lines make of them: of a block
pasted by itself (`InBlock`), of one in a script behind its `set` (`InScript`), or of one whose
first line is missing (`InTail`).  That a line end is one or two characters, and that the LF of a
CR+LF comes when its line is already handled, is in `Between` and the lemmas about `Lines`.
`BlockReturnsToPrompt` is the safety core of `BlockEndsCapture`: a whole block that has been read
leaves the console at its prompt, the wrong and the too large ones included.

**FramePipelineProofs**.  Each theorem has an invariant over the few variables its property names,
over `PcTyping` and lemmas of what each group of actions leaves alone.  `ResultHolds` uses the
priorities (`AiRunsAlone`: when the AI thread moves, the display thread is not between its two
calls), `LevelHolds` that a level which is not written yet has a request behind it, and `KeyFrameHolds`
the same of a key frame.  They say that no request is missed; that the sensor takes the level and the
viewer gets the frame is not promised (`SensorAsSet`, `ViewerGetsKeyFrame`).

So every invariant and every action property of the passing runs, and every refinement they check,
is also proved.  Only model-checked is liveness (`QueuedModelRuns`, `SwapConsumed`,
`RequestsCarriedOut`, `ApplyTakesEffect`, `RebootHappens`, `LossNoticed`, `PublishReturns`,
`Reconnects`, `BlockEndsCapture`), which is outside the proof system.  What can be said of it without
time is proved: the mutexes are given back (`FlashMutexKept`, `TypeCorrect` of `MqttClientProofs`),
no wake-up and no accepted request is lost (`StartedTransferWakes`, `TakenRequestsKept`), and swap and
capture end as they should (`SwapEndsWithQueued`, `BlockReturnsToPrompt`).

## 5. What is taken as given, and what is not modelled

- The pump of an old connection, told to stop and with its socket closed under it, is gone when
  the TLS handshake of the next connection ends, and out of its callback before (`MqttClient`,
  `IotcApp`).  The code does not enforce it.
- The AI thread has finished `face_detection_init` before the first push arrives: it takes
  milliseconds to seconds and the network, SNTP, discovery and TLS come first.  For the same reason
  the mutex of `iotc_fs.c` exists before two tasks ask for it.
- CRC32 accepts exactly the complete blobs; a file of LittleFS has its old or its new content.
- A handshake needs a certificate and key of one identity.
- Inference, post-processing, drawing, PNG and HTTP contents, register programming: arithmetic or
  pure I/O, no state shared with the rest.
- Telemetry and the commands that only answer (interval, model-info).
- The box list of `FaceDetection.cc:117` is not volatile: that boxes and count are written in source
  order (lines 530-538), and that a draw is not interrupted by another result, is what
  `OneResultDrawn` rests on.  The first is left to the compiler.
- How long a copy, a register write or an encode takes: `FramePipeline` has no clock, any number of
  frames may complete during each.
- The KVS task and the lwIP socket shim serve threads of a vendored SDK; the order in which those
  call them is not in the first-party code.
- The vendored part of the tree (`ra/`, `src/kvs/`, more than nine tenths of its lines) enters only
  where the firmware leans on its state: the PKCS#11 file layer and the provisioning code.

## 6. Plan

1. *Done:* `ModelSlot`, `ModelStore`, `HotSwap`, `IotcApp`; `MqttClient`; `ConfigStore`,
   `DeviceConfig`; `FramePipeline`; `PemCapture`; the theorems of section 4.
2. *Done:* all invariants, action properties and refinements of the runs proved; `ModelStore`'s
   theorems carried over to `HotSwap`.  Left: what `HotSwap` keeps of them where pushes overlap; the
   same composition for `DeviceConfig` under `IotcApp`, which sees a configuration as a version.
3. The console's write mutex with its bounded wait; the KVS task's retry loop with the identity
   hook; the socket shim, once the SDK's use of it is fixed.
