# Verification of sys-audio-router

TLA+ models of the engine of sys-audio-router, the TLC configurations that check them on
small instances, and the theorems about them that TLAPS checks. Paths are relative to the
repository.

## 1. The system

One engine process (`tools/sar_engine_service.cpp`) owns an audio graph, runs an audio
runtime that drives devices, answers control commands on a named pipe, keeps a session
file, and serves DAWs that load its Virtual ASIO driver.

| Component | State | Operations | Talks to |
|---|---|---|---|
| Graph snapshot (`core/graph/graph_snapshot`) | owning pointer, published pointer, count of audio threads inside | `publish`, `current`, `process` | audio threads, control threads; all through atomics |
| Control session (`core/control/control_session`) | committed preset, graph, graph version | prepare and commit a preset update | called by the service |
| Engine control service (`core/service/engine_control_service`) | session, runtime, runtime configuration, replay cache | start, stop, configure, mutate, query, each as one wire request | configurator, preset commit observer, runtime |
| Engine process (`tools/sar_engine_service`) | desired session, session file, stop flag | load, restore, merge and save, change of the Virtual ASIO topology, shutdown | service, registrations, pipes, hosts |
| Audio runtimes (`core/service/*_runtime`, `core/platform/windows_wasapi_*`) | streams, worker threads, recovery policy | start, stop, recover | devices, endpoint notifications |
| Virtual ASIO hosts and broker (`core/service/windows_virtual_asio_*`, `core/platform/virtual_asio_client_registry`) | client registry, sessions, graph generation | format, connect, disconnect, refresh, reap | DAW processes, buses, preset observer |
| Transport session, shared queue, buses (`core/platform/virtual_asio_*`) | block queues in shared memory, slots of a bus | push, pop, attach, detach | driver, host, audio thread |
| Driver DLL (`driver/`) | ASIO state machine, broker connection, callback thread | init, createBuffers, start, stop, dispose | DAW, broker |
| Pipes (`core/service/windows_named_pipe_control`) | worker threads, stop event | accept, serve, transact | every client of the engine |
| Driver registration (`driver/windows_virtual_asio_registration`) | COM classes and ASIO discovery entries in the registry | register, unregister if owned, reconcile | engine process, installer, DAWs |
| WASAPI loops, recovery, matrix (`core/platform/windows_wasapi_*`, `wasapi_recovery_policy`, `core/service/*_runtime`) | streams, worker and observer threads, retry budget, endpoint queues | open, start, cycle, recover, stop | devices, endpoint notifications, graph |
| Control panel (`app/gui/engine_controller`) | view of the preset, undo and redo history, command queue, timers | edit, undo, poll, start the engine | control pipe |
| Virtual WASAPI transport (`core/platform/virtual_wasapi_*`) | packet ring in shared memory, the packet being read | push, pop, read a block | laboratory producer or kernel driver, graph |
| Codecs (`core/control/*`) | none | encode, decode, limit, validate | pipes, session file, preset files |
| Command line tools, diagnostics, device enumeration | | | clients of the above, or pure data |

What is hard here: a lock-free exchange of graphs with real-time threads; commands that must
leave everything as it was when one of their many steps fails; retries that race their first
attempt's answer; a file, a process and a service whose states drift apart at a crash or at a
failing save; DAWs that die at any time, and preset changes that race their admission; devices
that disappear while they are being reopened; a panel and an engine with deadlines of their own.

`PROJECT.json` lists every component with its status and every hazard with its line.

## 2. Modules

| Module | Code | State and actions |
|---|---|---|
| `GraphSnapshot` | `core/graph/graph_snapshot.cpp`, `.h` | One action per atomic access of `publish`, `current` and `process`. `freed` and `handles` stand for the reference counts of `shared_ptr`. |
| `GraphSnapshotProofs` | | The inductive invariant of `GraphSnapshot` and the theorems. |
| `EngineControlService` | `core/service/engine_control_service.cpp`, `core/control/control_session.cpp`, `core/service/audio_runtime_matrix_preset.cpp` | One action per wire request (`control_mutex_` is held throughout). A preset is its channel total, whether its Virtual ASIO ports have the letters of a stereo pair, its port groups, and for each group one value for its routes or none; a runtime is what it was built from and whether it runs. `reply` is the last answer. |
| `PresetGraph` | `core/control/preset_document.cpp`, `core/graph/*` | Operators only: the preset's validation, the route matrix and the nodes built from it, live parameter updates, and a block through the nodes and their two scratch buffers. `Promised` and `Composed` are what they are compared with. |
| `ControlSession` | `core/control/control_session.cpp`, `control_command.cpp`, `core/platform/virtual_endpoint.cpp`, `audio_device.cpp` | `EXTENDS PresetGraph`. Operators from a session to the session after a command or a batch, with the validation of every command. |
| `MCControlSession` | | The instances of the two, and what is asked of them. |
| `DriverRegistration` | `driver/windows_virtual_asio_registration.cpp`, `synchronize_virtual_asio_registration()` of `tools/sar_engine_service.cpp` | Each call is the set of its outcomes: every write to the registry may fail, and those before it stay. A loop over a list of devices is a function of how many devices it has done. No variables of its own. |
| `EngineSession` | `tools/sar_engine_service.cpp` | `EXTENDS EngineControlService, DriverRegistration`. The request lambda is two actions, `ReceiveRequest` (the service) and `MergeAndSave` (merge and save): a kill can come between them. Other requests cannot, `request_mutex` is held. A change of the devices is two as well, `ConfigureVirtualAsioDevices` (registration) and its save. |
| `EngineSessionProofs` | | Inductive invariants of the service, of the process with its file and of the registry; what the loops over devices leave in it; and the theorems. |
| `VirtualAsioHost` | `core/service/windows_virtual_asio_transport_host.cpp`, `windows_virtual_asio_broker_server.cpp`, `core/platform/virtual_asio_client_registry.cpp`, the life of `windows_virtual_asio_transport_session.cpp`, the preset observer | A host operation is a step, since its mutex is held; a broker request is three (generation, graph, admission) or two (peer check, removal); the observer visits one host a step. Drivers query, connect, open the shared objects one after the other and roll back, disconnect, close and die. |
| `BlockChannel` | (abstract) | What one direction of audio promises: a bounded first-in first-out channel of whole blocks, in which a malformed one is heard as silence. |
| `SharedQueue` | `core/platform/windows_virtual_asio_shared_queue.cpp` | The ring in shared memory, `QueueSpec`. `push` and `pop` are a step that claims a slot and a step that copies and publishes; `read_position` and `write_position` are the only things both sides see. Implements `BlockChannel`. |
| `SharedMemoryLayout` | `core/platform/virtual_asio_shared_memory_layout.cpp` | Operators only: the offsets of a mapping's parts, the formats refused, and the header the driver accepts. |
| `VirtualAsioProofs` | | `EXTENDS VirtualAsioHost, VirtualAsioTransport, SharedMemoryLayout`: inductive invariants of hosts, requests and observer, of the queue and of a connection, the queue's refinement for every capacity, what the layout promises for every format, and the theorems. |
| `VirtualAsioTransport` | `driver/windows_virtual_asio_runtime.cpp` (`process_cycle`), `core/service/windows_virtual_asio_transport_session.cpp` (`run`, `process_available_input`, `stop`) | The callback thread and the pump thread. `EXTENDS SharedQueue` for the queue into the engine and instantiates it for the one back; with the input event, the shutdown event, restarts of the driver, its death, and the session's stop. |
| `VirtualAsioDriver` | `driver/windows_virtual_asio_driver.cpp`, `start`/`stop`/`run` of `driver/windows_virtual_asio_runtime.cpp` | The object a DAW calls from several threads: each call is a step under the mutex, steps without it, and a step under it again; `pc` says where a thread is. The callback thread, its request for the mutex, and the engine's disappearance. |
| `VirtualAsioRenderBus` | `core/platform/virtual_asio_render_bus.cpp` | The control thread in `attach` or `detach`, the audio thread in `read`, and a session thread per slot in `push`, one action per access another thread can meet. `stores` is the audio thread's store buffer; `overtaken` remembers the slots that were claimed while an announcement waited in it. |
| `VirtualAsioThreadProofs` | | `EXTENDS VirtualAsioDriver, VirtualAsioRenderBus`: an inductive invariant of each, and the theorems. |
| `NamedPipeControl` | `core/service/windows_named_pipe_control.cpp` | The server thread (`Accept` is a turn of `run()`'s loop with its reaping), a worker per connection, and the client's transaction. Each end has its deadline. The handler is left to the module that extends this one. |
| `ControlPanel` | `app/gui/engine_controller.cpp`, the request handler reduced to the preset | `EXTENDS NamedPipeControl`. One step per turn of the panel's event loop: a user's action (edits, undo, presets saved and loaded, devices and runtimes configured), a timer, a finished transaction. The engine crashes, restarts and is started again; another client sends requests too. |
| `ControlPanelProofs` | | Inductive invariants of the pipe and of the panel with its history, and the theorems. |
| `WasapiRecovery` | `core/platform/windows_wasapi_duplex_supervisor.cpp`, `wasapi_recovery_policy.cpp`, `wasapi_endpoint_selection_policy.cpp`, `windows_wasapi_endpoint_notification.cpp`, start and stop of `core/service/windows_wasapi_engine_runtime.cpp` | A wake of the supervisor is a step, since its mutex is held; time is what is left until each deadline. Devices fail, come back and change places. |
| `WasapiRecoveryProofs` | | `EXTENDS MCWasapiRecovery`, whose history counts the openings: inductive invariant and the theorems. |
| `WasapiDuplexLoop` | `core/platform/windows_wasapi_duplex_loop.cpp`, life of `windows_wasapi_realtime_worker.cpp` and `windows_wasapi_stream.cpp` | Three threads: the owner's calls, the worker, the clock observer. Any step of a start and any cycle may fail. |
| `WasapiGraphRunner` | `core/platform/windows_wasapi_graph_runner.cpp`, the cycle of the worker | A cycle from the capture packets to the frames rendered, frame by frame, beside two devices with phases of their own. A captured frame is the stretch it was captured in; a packet keeps its stretch in the client's buffer, over a stop too. |
| `MCWasapiDuplex` | | Loop and runner in one specification: they share no variable, and each behaviour moves one of them. |
| `VirtualWasapiRing` | `core/platform/virtual_wasapi_transport_ring.h`, `virtual_wasapi_ring_audio_source.h` | A push and a pop are two steps each, beside the other side's; a block is read frame by frame out of packets of other sizes. A sample is the packet it belongs to. |
| `WasapiDuplexProofs` | | `EXTENDS WasapiDuplexLoop, WasapiGraphRunner, VirtualWasapiRing`: an inductive invariant for each of the three and the theorems. |
| `VirtualWasapiLayout` | `core/platform/virtual_wasapi_transport_layout.cpp`, `windows_virtual_wasapi_render_source.cpp` | Operators only: the offsets of the mapping, and the headers either side accepts. |
| `PhysicalAsio` | `core/platform/windows_asio_vendor_host.cpp`, `windows_asio_callback_transport.cpp`, `core/service/windows_physical_asio_*`, `configure_audio_runtime_locked()` and `start_audio_runtime_locked()` of the service | The control thread, step by step through opening, starting, stopping and teardown of hosts that share a process-wide pointer, and a callback thread per driver. |
| `MatrixRuntime` | `core/service/windows_wasapi_matrix_runtime.cpp`, `multi_endpoint_audio_runtime.cpp`, `audio_runtime_matrix_binding.cpp`, sources, sinks and queues of `core/platform/realtime_audio_*`, `windows_physical_asio_*` as a master | The validation and opening of a configuration, the binding of ports by name, start and stop member by member, and the cycles that move blocks. A sample is where and when it was captured. |
| `AudioRuntimeProofs` | | `EXTENDS MatrixRuntime, PhysicalAsio`: inductive invariants of both runtimes and the theorems. |
| `ControlWire` | `core/control/control_wire_protocol.cpp`, `virtual_asio_broker_protocol.cpp`, `session_file_codec.cpp`, `preset_file_codec.cpp` | Writers and readers of every message as lists of fields, for every version. The preset file in a session file is decoded into its preset and made anew by the writer. One cell stands for an integer, a length or a character. Recursive, for TLC only. |
| `MC*` | | Constants and symmetry for TLC. |

In a module, an operator whose comment begins "Fault:" is not part of the specification. It
is a plausible error in the definition that follows it; putting it in that definition's
place must break the property named for it in `PROJECT.json`. This shows that the
properties are sensitive to the code.

## 3. Runs

| Run | Instance | Shows |
|---|---|---|
| `graph_snapshot` | 2 control threads, 2 audio threads, 3 graph addresses (addresses are reused) | no use after free; `publish` returns |
| `engine_session` | 1 matrix and 1 duplex configuration, 2 gains, 2 channel totals, 2 command ids, a replay cache of 1, device lists of one and of two devices and one that renames; kills, failing saves, failing writes of the registry | the running graph is the committed one; a rejected command changes nothing; a remembered id executes nothing; an accepted route edit whose save succeeded is what the next process starts with, unless a configuration has reconciled the preset and no command on it followed; the runtime's own failures do not change `auto_start`; the registered drivers are those of the session file, until a device is renamed |
| `virtual_asio_host` | 1 host, 2 processes with an id each, 2 rates, 2 admissions, 1 refresh | registry and sessions agree after every failure; no session keeps a graph from before a refresh; only its own process ends a running session; a dead DAW leaves the registry and does not come back |
| `virtual_asio_transport` | capacity 2, 2 blocks a wake, 2 runs of the driver, 3 sequence numbers, 6 positions | the queue is the abstract channel; no accepted block is slept on or left behind; the DAW never hears an older block after a newer one; a stop ends both threads |
| `virtual_asio_driver` | 2 threads of the DAW, one callback thread | no callback on freed buffers or after a stop; every call returns, also when the callback asks for the mutex a stop would hold |
| `render_bus` | 1 slot, DAW blocks of 1 to 3 frames into engine blocks of 2, a ring of 1, 3 attachments, 4 frames in each, a store buffer of 3 | what is mixed belongs to the present attachment, complete and in order, and a published block is heard, unless the slot was claimed past an announcement (section 6) |
| `wasapi_recovery` | 2 devices, a loop that follows the default render device, 3 sets of failures, a policy of a few time units | never more attempts in a window than the policy's schedule; when devices and default hold still the route plays on the default |
| `duplex` | loop: 4 starts, every step may fail; cycles: graph blocks of 4 frames, device periods of 3, buffers of 6, either device a period ahead, a worker a period late | devices are released however a start or a run ended; nothing of a stopped loop runs; every call returns; nothing taken from the client before a discontinuity or a start reaches the graph, and no block joins what was captured on either side of a gap, unless the run began with packets of the one before (section 6); the silence of a recovery stays within its documented bound |
| `matrix_runtime` | 8 configurations, valid or not, of a capture of 2 channels and 2 renders; 3 presets, 2 sets of routes; queues of 1 and 2 blocks | each endpoint plays what the routes say by the ports' names; a start that fails or a stop leaves no endpoint running, but an ASIO driver that refuses to stop; every queued block is used once and in order; while all members run nothing stands still |
| `control_panel` | 1 route, 2 gains, 2 edits, a history of 1, 1 worker, 1 fault (a deadline, a crash, another client's edit) | the handler is not running when the server has stopped; the history is that of the engine's preset, unless a gain was moved during another edit (section 6); the view becomes the engine's preset; a crashed or restarted engine is up again |
| `control_wire` | commands, responses, 6 broker messages, sessions of versions 1 to 5 with the preset file of their time, all releases 8 to 14; lists and texts of 0 to 2, codes up to their last value, messages of 391 cells and files of 152; one damaged cell | what an older or this release writes is read; what is read from a damaged message is what that message says; what is read can be written again, but for a long one of an older release (section 6) |
| `physical_asio` (violation) | 3 hosts, 5 calls of the control service | a runtime that is restored after a failed reconfiguration is not called by its driver (section 6) |

TLC also evaluates what is asked of the pure modules, as assumptions of the modules of these runs:
with `virtual_asio_host`, `SmallMappingsAreSound` (`SharedMemoryLayout`); with `duplex`,
`MappingsAreSound` and `SizesAreTold` (`VirtualWasapiLayout`: what a side calculates the other attaches to, and whatever
altered header is accepted leaves all parts apart, aligned and inside), and that the priming
of the render FIFO ends at its target; with `control_panel`, over all presets of up to two ports a
side: a preset has a graph exactly when it is valid, and the graph plays what its routes say
(`PresetsPlay`); a live update leaves the graph playing the other preset, or is refused
(`LiveUpdatePlays`); a chain of nodes over two scratch buffers is the composition of its nodes
whatever was left in them (`ChainsCompose`); a session after any commands agrees with its graph, and
a rejected one changes nothing (`SessionsAreConsistent`); a batch is all or nothing
(`BatchesAreAtomic`); and what the panel expects of an edit is what the session makes of it
(`PanelPredictsSession`).

Bounds. `MaxVersion` bounds graph versions, `MaxGraphs` the graph generations of a host,
`MaxConnection` the connection generations a registry hands out, `MaxReplayed` is the limit of
the replay cache (64 in the code; what matters is that an entry can be evicted). Two
actors of a kind are enough for every pairwise race; two generations are enough for anything
stale; three graph addresses are enough for a retired graph, the active graph and a
fresh one at an address in use before. `MaxPosition` bounds how many blocks a queue ever
passes, past its capacity so that slots are used again. `Capacity = MaxPerWake = 2` in the
transport stands for eight and eight: what matters is that one wake can empty a full queue, and that
blocks can arrive meanwhile. In the render bus `MaxGeneration` bounds the attachments and
`MaxAccepted` the frames of each: the third attachment follows a clean one and one that was overtaken, and four
frames fill the ring of one block, leave a remainder and have a push refused. The three stores of a visit fit the
store buffer at once. One slot is enough, since slots share only the audio thread and its buffer; the proofs are
for any number. With `MaxClients = 2` the
registry is never full by its capacity; that refusal is one of the failures an
admission may meet at any time. Client ids are drawn at random in the code, so each process has
its own.

`engine_session` follows nothing beyond a change of the registry that was cut short or that renames a
device (constraint `RegistryIsWhole`), which leaves registry and session apart for good; the theorems do. No
command of it disconnects routes. `MaxSessions = 4` in the
duplex loop bounds the starts, of which two in a row are needed to see anything stale. The graph
runner's `MaxLate` and `MaxSkew` are one period: with two the documented bound of the silence does not hold, because a
worker that late starves of frames on its own account. In `matrix_runtime` the queues hold one block (32 in the code) and
the FIFOs two: full and empty are reached in any order. `MaxFaults` in the panel is one budget for
all that can go wrong, so that the properties speak of one fault from any state; its initial states
are a panel just started and a panel at rest with one connected route. In `control_wire` a list
or text has no, one or two elements, which are as many as it may have, and all optional groups are there, or none, or all but one. The limits of a message
and of a file are the lengths of the longest response of version 13 and of the longest session of version 4:
these are read to the last cell, cannot be written again at the present version, and what the present version could say
beyond them is not sent.

Deadlock is checked in `graph_snapshot`, `engine_session`, `virtual_asio_driver`, `render_bus`,
`wasapi_recovery`, `duplex` and `control_panel`; the owner of a duplex loop may leave it at rest for
good, which is a step of its own there. The hosts, the transport, the physical ASIO hosts and
the matrix runtime may come to rest (everything stopped, a bound reached, or a configuration
refused), and a letter of `control_wire` is read once, so their configurations turn the check off;
that the parts stop only where they should is what `DeadClientsLeave`, `EveryBlockIsTaken`,
`StopEndsBothThreads`, `CallsReturn` and `Flow` say.

Fairness. `GraphSnapshot` gives each thread weak fairness for the steps it takes without
waiting, and strong fairness for the two spins, whose conditions come and go: the code
promises that `publish` returns only when the audio threads leave gaps often enough for its
loop to see one, and the property says so under that assumption. `VirtualAsioHost` has weak
fairness for session threads (they wake at least at every timeout), for the main loop's reaping
every 20 ms, and for broker requests being handled; DAWs and users owe nothing.
`VirtualAsioTransport` has weak fairness for both threads (a timer and an event with a timeout
drive them) and for a stop that has begun. `VirtualAsioDriver` has strong fairness for a call's
next step, because the mutex and the condition variable are free again and again while others use
them, and weak fairness for the callback thread: a callback returns. `VirtualAsioRenderBus` has
weak fairness for the audio thread, which reads as long as the engine runs, for its stores becoming
visible, and for the control thread, whose `attach` or `detach` spins without giving up.
`WasapiRecovery` has weak fairness for the supervisor's thread, which wakes by a timeout, and for a
stop that waits for it, and strong fairness for the passing of time. `WasapiDuplexLoop` has it for
its three threads: none waits without a timeout or an event another one sets. `MatrixRuntime` has it for
the cycle of each device, which the device's clock drives; a device that is lost or waits in the slow retry does not
cycle, and is a member that has given up. `ControlPanel` has it for the server's
thread and workers, for the panel's timers and its transaction, and for a launched engine to come up.

## 4. Proofs

`GraphSnapshotProofs` proves for any sets of control threads, audio threads and graphs:
`TypeCorrect`, `UseAfterFreeFreedom`, `PublishBarrier` and `CurrentAgrees`. The run
`graph_snapshot` checks the second; the others are what it rests on. None is inductive alone. The argument: the counter equals
the number of audio threads between their increment and decrement, hence is zero
only when none is inside; one control thread holds the lock; the holder's program counter
says which of owner, published pointer and retired graph differ; and a thread that is using a
graph uses the published one, or the one a publisher is about to retire, in which case that
publisher has not passed its wait. `InvHolds` proves that invariant, with one step per action.
The assumptions are those of the module: the graphs' addresses do not include the null one and
the sets of threads are finite.

`EngineSessionProofs` proves for any configurations, gains, channel totals, device lists, ids and
size of the replay cache, in the engine's process with its kills and failing saves:
`CommittedGraphRuns`, `VersionsIdentify`, `ConfigurationIsInPlace`, `RejectionsAreTransactional`,
`RememberedIdsAreInert`, `RoutesAreSaved`, `RuntimeIntentIsKept`, `UnreadableFileStays` and
`DriversAreOffered`. The
service's invariant is that a runtime in place is of the configuration in force and of no later graph than the
committed one, that one which runs plays the committed preset, and that no id is remembered twice; a
lemma per command says that a rejection restores the service to what it was.
`RoutesArePersisted` is about the file, the session and the answer at once, and takes two steps of
the process to hold again after an edit. Inductive is therefore that the file is the desired session
unless the last save failed; that the desired session lacks of the committed preset only what the answer
not merged yet carries, and what a configuration has made of it since a preset was last merged (the history
variable `unmerged`, without which the property is false: section 6); and that a change of the topology is never half done while such an answer
waits. The assumptions are those of the modules.

`DriversAreOffered` needs what a loop of registry calls leaves behind, for a list of any length. The
induction it takes is over the number of devices done, and is itself proved (`LeastNatural`, `Induction`): the library's
induction theorems have operators as parameters, which no prover here can instantiate, but that the
finite subsets of a set are well-founded has none, and the intervals 1..n are such subsets. The same induction
shows that the loop's recursive function exists (`LoopTurns`). Then: no call touches the entries of another device;
a class that is not our driver's is never listed (`Honest`), so that `..._if_owned` passing over it
leaves nothing behind; when a loop has succeeded, its devices are registered, or unlisted unless passed
over (`RegisterLoopKeeps`, `UnregisterLoopKeeps`); hence a change that succeeds offers the new list and a complete
restoration the old one, from whatever state the failure left (`SynchronizeOffers`). `DriversInv` carries this
through the process: the registry offers the list that waits for its save, or else that of the session
the engine would start with. The module assumes of the lists that classes and names are those of the
registry and that no list has two devices of a class or a name (`validate_session_document()`). Nothing is
assumed of two lists: that a change of the devices was asked for that gives a class another name, or a name to another class, is what
the history variable `renamed` records, and the property excepts (section 6).

`VirtualAsioProofs` proves for any number of devices, processes and clients: `RegistryIsSessions`,
`GraphsAreFresh` and `DisconnectionIsOwn`. `HostInv` says of a broker request between its steps what it
still knows: its graph was built between two reads of a generation that only grows
(`GraphsAreBetween`), so that an admission that finds the generation unchanged has a fresh graph; and
past the check of the peer the connection it removes is the peer's own, or is gone (`RequestsAreOwn`).
The latter needs that generation numbers are never given out twice, whoever still remembers a
connection (`GenerationsIdentify`), and the first property that the registry holds as many entries as its
capacity at most, since an admission and its rollback change registry and sessions apart.

Of the queue it proves for every capacity and any set of blocks: `SlotsAreOwned`,
`TypeCorrect`, and `QueueImplementsChannel`, the refinement `QueueSpec => Channel!Spec`. The argument
rests on one fact about the ring: two positions less than a capacity apart have different slots.
With it `QueueTypeOK` and `SlotOwnership` are inductive together: each side moves only its own position,
and the producer writes a slot no published position has. The abstract queue is the sequence of
the published slots, so that a publish appends a block and a pop removes one; every other step is
a stutter. The module also proves for every format, capacity and limit of a mapping:
`PartsDoNotMeet`, `PartsLineUp`, `ArithmeticStaysInWidth` (within the limits the overflow checks refuse
nothing), `CreatedIsAccepted` and `AcceptedIsInside`. All rest on one fact about a queue: the part at a
place ends where the multiple of the stride says, and the next begins no earlier.

Of a connection it proves for every capacity, limit of a wake and number of runs: `DawHearsInOrder`, `InputIsNotSleptOn`,
`TransportImplementsChannel` and `TransportTypes`. For the order, every block on its way has one of seven
places, from the block heard last over the output queue, the session's hands and the input queue to the block being pushed (`At`), and of two blocks
the one that is nearer to the DAW has the smaller run and number (`InLine`); each step adds a block with the latest
number, drops one, or moves one ahead past no other. That no accepted block is slept on holds because,
until the event is set again, what a wake has taken and what is left were in the queue when it began, and
a wake may take as much as a queue holds (`Wakes`). The assumptions are the transport's: `Capacity <= MaxPerWake`, and the
driver's blocks are those the queue carries. What is proved of a single queue cites neither.

`VirtualAsioThreadProofs` proves of the driver, for any set of threads: `TypeCorrect`, `OneOperationAtATime`,
`CallbacksHaveBuffers` and `StoppedIsSilent`. The invariant says, for each place of a call where the
mutex is released, what the caller may rely on when it comes back: buffers exist while it starts
the runtime, and the callback thread is joined when it has stopped or destroyed it. That, and
that one thread at most is in such a place, is what makes each completion safe.

Of the render bus, for every number of slots, block size of the engine and of the DAW, capacity of the
ring and depth of the store buffer, it proves `BusTypeCorrect`, `HandshakeIsLock` (`SlotIsHeld`),
`NoStaleAudio` and `WholeStreamIsHeard`. Nothing is assumed of the processor beyond a store buffer that is first
in, first out. The last three speak of a slot whose last claim saw every announcement made; what happens
to the others is in section 6. `BusInv` says that whatever the audio thread does with a slot comes behind an announcement,
visible or waiting in front of it (`Covered`), so that a slot in use whose announcement nobody missed stays as
it is (`Handshake`); and that the indices that wait come nearer and nearer to the place to write (`InOrder`).
What was heard of it, the ring from the audio thread's own index to the place to write, the block being
copied and the remainder are then one stream (`Stream`). The ring's part names for each place the frame
before the block there (`Line`), which avoids arithmetic on wrapped indices; three lemmas say what taking a
block, putting one and spoiling the place to write do to it.

`WasapiDuplexProofs` has three parts. Of the loop, for any number of starts: `TypeCorrect`,
`DevicesReleased`, `StoppedIsQuiet`, `DeathHasReason` and `FeedForwardIsFresh`, from `InvHolds`. The
invariant says that `running_` is what the worker's thread says it is and that streams are started between
its startup and its cleanup only; which of the worker and the clock observer can still run at each
place of a call of the owner; and that whatever ends the loop has left an error or is a stop under way.
Of the cycles, for all sizes of blocks, periods and buffers that the code accepts and however far the
devices drift: `InputIsNeverStale`. `FramesAreTaken` says that all that is queued between the capture
device and the graph (the FIFO, the resampler, the block begun and the last one's rest) was taken from the
client since the last discontinuity or start, because either empties all of them in the same cycle.
`GapsAreMarked` says that what is in the client behind what was taken changes its stretch only with a packet
that is flagged, unless the run began with packets from before a stop. `RunnerInv` is the two.
It assumes what the module does: sizes the code's validation accepts, and that the priming of the render FIFO ends
at its target, which is a fact about a recursive function that TLC evaluates. Of the ring, for every
number of slots and all sizes of packets and blocks: `PacketsStayWhole` and `FramesComeInOrder`, from
`RingInv`. The argument for the slots is that of the shared queue, and the cursor of
the source is at the frame after the last one heard. No run checks the ring; TLC found its
invariants to hold with 2 slots of 3 frames, blocks of 2 and 5 packets.

`AudioRuntimeProofs` proves of the matrix runtime for any configurations, presets, routes and sizes of the queues:
`EndpointsPlayTheirRoutes`, `BlocksComeOnceInOrder` and `StartIsAllOrNothing`. The invariant has three
parts. A member that runs is one that `start()` has passed and `stop()` has not, or one whose driver refused
to stop (`held`). The range of channels
an endpoint was given when the runtime was opened holds that endpoint's ports on its axis, because the
opening has checked that they lie there one after the other, and because ids are unique and no endpoint
has the id of the DAWs; hence what a cycle cuts out for an endpoint is what the routes name
for its ports, and every slice queued for it carries that. And the blocks of a capture from the one heard last
to the one accepted last are, in this order and without a gap modulo the numbers, in its FIFO and then in
its queue; a FIFO never exceeds its capacity, so that a fill is never cut short. The only assumption is the
module's: sizes are positive, the latency is below the FIFO's capacity, ids are not the DAWs'.

Of the physical ASIO runtime it proves for any set of hosts: `TypeCorrect`; `TransportOutlivesCallbacks`, from an
invariant that says which objects a callback under way keeps alive while its host is torn down; and
`HeardWithOneHost`, that the property the run finds violated holds as long as no host is created
while another exists, so that the second host is the only reason for the violation.

`WasapiRecoveryProofs` proves for any devices, failures, schedules of attempts and windows:
`OpeningsKeepCadence` and `SupervisorFollowsPolicy`, from `RecoveryInvariant`. That the openings in
quick succession never exceed the attempts of the schedule is not inductive: an opening of the slow retry
takes no attempt. The invariant adds why that one does not count. In the back-off either the schedule
has an attempt left, or the time since the last opening and the time until the next make up a whole
`DeviceRetryDelay`; and the policy forgets its attempts only after a stability window, which makes the
history forget its openings. Each of the policy's and the supervisor's functions
is shown to keep this, and a wake to be a composition of them. The assumptions are the
module's: delays are numbers, and the marks for no loop and no supervisor are not one.

`ControlPanelProofs` proves for any routes, gains, workers, faults and length of the history: `TypeCorrect`,
`NoHandlerOutlivesServer` and `HistoryIsTheEngines`. An answer can be lost at every step of the pipe, and the
engine can die between an edit and its answer, so `PanelInv` follows one edit from the panel's queue to
the engine and back: the one connection the panel has carries its active command
(`CallInv`); an edit that is queued or under way is the only one, or `lost` says otherwise (`OneEdit`); an answer under way says what the
engine's preset is (`AnswersAreTrue`); and the last entry of the history leads to the engine's preset or,
once the engine has executed the edit, will when the answer comes (`HistoryFollows`). An edit whose own answer
was lost may have been executed or not (`lost` in the module, like an edit by another client): the property
and the invariant then say nothing of the history until a preset is loaded, which clears it.
The same variable remembers that a gain was moved while another edit was under way, which the panel allows
(section 6); nothing is assumed of the user. `SetRoute` needs a preset in view: the panel draws the crosspoints
of that preset only (`selectRoute()`, `toggleRoute()` of `Main.qml`). TLC found `PanelInv` to hold with two
routes, two gains, two workers, a fault and two edits, and with three edits of one route.

The other properties are only model-checked. Liveness stays with TLC: the prover has no
support for fairness and ENABLED. So does `ControlWire`: its writers and readers are mutually recursive
operators over the structure of a document, which the prover's SMT backend does not take. `RecoveryIsBounded` holds within the bounds of the run for the phases of two devices only
(section 3), and no proof of it was tried. `PresetGraph`, `ControlSession` and
`VirtualWasapiLayout` are evaluated on small inputs only.

The modules state a few invariants that no configuration lists because a listed property implies or
covers them, or because they are meant for a proof: the type invariants, `VersionIdentifiesGraph`,
`ConfigurationIsRuntimes`, `UnreadableFileIsPreserved`, `SupervisorAgreesWithPolicy`, `DeadLoopHasReason`,
`FeedForwardIsOfThisSession`, `PacketsAreWhole`, `CursorFollows`, `EveryFrameInOrder`,
`NoLostWakeup` of the transport and `SlotIsHeld` of the render bus (all these proved). Each holds when it is added to the configuration of its module.

## 5. Not modelled

Formatting, diagnostics and counters; audio arithmetic (mixing, resampling and drift estimation in
floating point); the bytes of a cell in the protocols (round trips, covered by unit tests); the value
checks of the codecs' validators other than those of presets, commands and matrices; wrappers of operating system
objects; device enumeration; the handles, the counters and the kernel side of the Virtual WASAPI
transport; command line tools; third-party code. Of the
modelled parts the components' notes in `PROJECT.json` say what was left out.

The registry's entries of other installations, display names and access rights are abstracted in
`DriverRegistration`: a class is absent, without a server, or ours. In `EngineSession` the refusal
to change the devices while a DAW is connected is left out, and the physical ASIO
configurations are in the module but not in the run. `MatrixRuntime` takes a matrix as given by its
initial state; what a DAW gets back and the rate controller are left out, and the DAWs' input
always has a block. `ControlPanel` leaves out quitting the engine, what the
configuration dialogs offer and the diagnostics polls. Only the node type of the matrix can be
built from a preset; the other nodes are in `PresetGraph` because the graph runs them.

The models assume sequentially consistent
atomics, which `GraphSnapshotPublisher` asks for. The queues use release and acquire, but no side of
a queue loads anything after a store that an older value would let it do, so that a late store is a
late step of the model. The render bus depends on the difference, and models the
audio thread's store buffer. No other thread of the bus needs a store buffer, by the argument for the queues. The capture bus has the
same handshake with the roles exchanged, and is not modelled a second time.

## 6. Where the code and its documents disagree

Where a model meets a disagreement a property either states what the document says, and a run shows it violated,
or it states what the code does: a variable of the model then records that the case has occurred
(`overtaken`, `lost`, `held`, `unmerged`, `renamed`, `leftover`), and
the property excepts it. With the exception deleted TLC shows the disagreement, and each paragraph says which to delete.

One has a run of its own. `physical_asio`: `current-system.md:102-104` says that a failed reconfiguration restores the
previous runtime. When both runtimes are physical ASIO, the candidate's host finds the
callback slot taken (`windows_asio_vendor_host.cpp:100`), and its destruction (`164-186`) clears the
pointer that belongs to the previous host: the restored runtime reports that it runs and is never
called. The same happens at a start that rebuilds a runtime whose graph is
stale (`engine_control_service.cpp:322-342`, the plan "rebuild" of the module), and, by its code, at a
preset edit that restarts one (`566-616`, not in the module).

The others have none of their own. These four can be had from TLC by the change named:

1. A cached answer is merged into the desired session again, over newer settings
   (`sar_engine_service.cpp:1583`): add `RetryDoesNotRollBack` to `MCEngineSession.cfg`.
   `current-system.md` says that an exact retry does not roll controls back.
2. A refresh that fails on the second device is not undone on the first
   (`sar_engine_service.cpp:1389`): `OneRouteGeneration` of `VirtualAsioHost` with `NumHosts = 2`.
3. The audio thread announces itself on a bus slot with a release store, which its
   second look at the slot's state can overtake (`virtual_asio_render_bus.cpp:147-148`); a slot is then
   cleared and given to the next client while the audio thread still mixes from it. The next client's
   stream can begin with the earlier one's audio, have a gap or be half written when it is mixed, or end in
   silence because an index of the earlier attachment is stored behind the clearing.
   `virtual-asio-driver-abi.md:233-234` says that audio memory is zeroed before reuse where stale audio could cross client
   lifetimes. Delete `~overtaken[slot]` from `Mixes` and from `PublishedIsHeard`: TLC finds each of the three
   properties violated.
4. A device that is lost three times within the deadline, with loops that run in between, ends the
   runtime for good (`wasapi_recovery_policy.cpp:227`): the invariant `DeviceLossKeepsRetrying` of
   `MCWasapiRecovery` with `Failures = {{"DeviceInvalidated"}}`.

Engine, session and registry. A preset command between a topology change and the
restart overwrites the saved session with the old channel count, and the engine then refuses to
start; `EngineSession` reaches that as `phase = "refused"`. Matrix, then physical ASIO, then duplex leaves
the matrix ports in the preset (`engine_control_service.cpp:164` compares only neighbouring
configurations). The preset that a configure command has reconciled is not merged into the saved
session (`sar_engine_service.cpp:768`) until another command changes the preset, although
`current-system.md:754-756` says that the preset is persisted: delete `~unmerged` from `RoutesArePersisted` and
TLC finds it violated. A device renamed
under its class leaves the old discovery entry; a device removed whose name a new one takes over
removes the new one's entry: delete `~renamed` from `DriversAreTheSessions`. A registration that fails before it writes the server path leaves the
class behind, since ownership is read from that path; a kill between the registration and the save
leaves entries no later start removes. `dynamic-matrix-topology.md` promises rename and removal
with a transactional rollback.

Drivers and buses. A driver that learned the rate before a reconfiguration is admitted at the old
rate (`VirtualAsioHost` reaches it). The capture bus has the handshake of item 3.

Pipe and panel. A gain edit is not refused while another edit is in flight, and its history entry is made from the
preset before that edit (`engine_controller.cpp:807-827`): an undo or redo then loses one of the two, where
`current-system.md:718-720` says that the history commits what the engine has accepted. Delete `Overlaps(q)` from
`UserDoes`, with two routes or with a mute and a gain of one: TLC finds `HistoryIsEngines` violated. The worker's
deadline of 2 s covers the handler while the panel waits 5 s: a slow command is executed, its answer
dropped, and the panel takes the engine for gone and starts a second one. The worker limit counts
workers that have ended and are not yet reaped (`windows_named_pipe_control.cpp:609`).

WASAPI. A default device that changes between the opening of the first loop and the first poll is
not heard (`windows_wasapi_duplex_supervisor.cpp:252`). `start()` on a running duplex loop ends its clock
observer and then reports that it is already running. When one member of a matrix runtime dies
`running()` is false while the others play: start fails until a stop, and edits committed meanwhile do not
reach the members that live. The queues of a matrix runtime keep their blocks over a stop and
start; so does the client of a capture stream, which is stopped and started and never reset
(`windows_wasapi_stream.cpp:546-608`): a run of the duplex loop first hears what was captured before the stop, joined to
what comes after it without a mark if the device does not flag its first new packet. Delete `~leftover` from
`NoStaleInput`. A matrix whose master is a physical ASIO device refuses live route edits; and when its driver
refuses to stop, the runtime reports that it is stopped while the driver calls back and the graph goes on
(`multi_endpoint_audio_runtime.cpp:219-232`): replace `held` in `AllOrNothing` by `{}`. A backlog in a follower's queue is drained by
the rate correction alone.

Codecs. A preset at the validators' limits encodes to more than a message or file may hold, so that it
is accepted and cannot be saved; a session that fits its file in an older version may not fit in this one, which adds
fields (`RewritingKeepsDocument` excepts it; put `FALSE` for its `ELSE` branch); of the preset file in a session the
preset alone is kept, so that files with another command id, version or errors there are read as one session; writers do not refuse values that readers do (a float that is not
finite, a name that is not ASCII in the broker's messages is read and cannot be written).

## 7. Plan

1. (done) graph snapshot, control service, engine session with the drivers' registration, Virtual ASIO
   hosts; the shared queue, the transport over it, the driver object with its runtime; the render bus.
2. (done) WASAPI recovery, duplex loop and graph runner; the matrix runtime; the control pipe and
   the panel over it; the messages and files.
3. (done) Presets and the graphs made of them, the session's commands; the layouts of both shared
   mappings; the Virtual WASAPI ring; the physical ASIO hosts; proofs of the duplex loop, the layouts, the
   ring and the hosts.
4. (done) Proofs of the control service and the engine session, the Virtual ASIO hosts, connections and render bus, the cycles of a
   duplex loop, the matrix runtime, the recovery, and the panel over its pipe.
5. The capture bus, and both buses composed with the hosts' slots; live graph updates of a matrix
   runtime; rates that differ in the graph runner; a chosen endpoint id in the recovery.
