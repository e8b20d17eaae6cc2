--------------------------- MODULE EngineSession ---------------------------
(***************************************************************************)
(* tools/sar_engine_service.cpp: the process around EngineControlService.  *)
(* It answers control requests one at a time under request_mutex, merges   *)
(* every accepted one into desired_session, saves that to the session file *)
(* by an atomic replacement, and starts again from the file.               *)
(*                                                                         *)
(* The service's execution of a request and the merge and save after it    *)
(* are two steps, so that the process can die, and a save can fail, between *)
(* them.  So are, for a change of the Virtual ASIO devices, registering    *)
(* them and saving the session.  The engine can be killed at any moment;   *)
(* only the file and the registry survive.                                 *)
(***************************************************************************)
EXTENDS EngineControlService, DriverRegistration, SequencesExt

CONSTANTS
  MissingFile,     \* there is no session file
  UnreadableFile,  \* there is one, malformed or of another version
  NoTopology,      \* no change of the devices waits for its save
  Topologies,      \* lists of enabled devices, of [clsid, registry_name, channels]
  DefaultDevices   \* devices of default_session(), which the installer registers

ChannelTotal(devices) == FoldLeft(LAMBDA n, device : n + device.channels, 0, devices)

\* validate_session_document(), of the devices: at least one, and no two with
\* one class or one name.
ValidDevices(devices) ==
  /\ devices # <<>>
  /\ \A i, j \in DOMAIN devices : i # j =>
       /\ devices[i].clsid # devices[j].clsid
       /\ devices[i].registry_name # devices[j].registry_name

\* A class has another name in the other list, or a name another class: no
\* check of the engine or the panel is against the list before.
Renames(devices, others) ==
  \E i \in DOMAIN devices, j \in DOMAIN others :
    ~(devices[i].clsid = others[j].clsid <=> devices[i].registry_name = others[j].registry_name)

ASSUME EngineSessionAssumption ==
  /\ DefaultDevices \in Topologies
  /\ Topologies \subseteq Seq([clsid : Clsids, registry_name : RegistryNames, channels : Nat])
  /\ \A t \in Topologies : ValidDevices(t) /\ ChannelTotal(t) \in Channels

VARIABLES
  phase,          \* "down", "serving", "stopping" (stop_requested), "refused"
  desired,        \* desired_session
  file,           \* the session file
  writes_allowed, \* session_writes_allowed
  save_ok,        \* history: whether the last save attempt succeeded
  unmerged,       \* history: a configuration has changed the preset, and it was not merged since
  topology,       \* the candidate session whose devices have been registered
  registry,
  torn,           \* history: a change of the registry was cut short
  renamed         \* history: a change of the devices was asked for that renames one

sessionVars  == <<phase, desired, file, writes_allowed, save_ok, unmerged>>
registryVars == <<topology, registry, torn, renamed>>
appVars      == <<sessionVars, registryVars>>
vars    == <<serviceVars, appVars>>

Sessions ==
  [preset : Presets, audio_runtime : Configs \union {NoConfig},
   auto_start : BOOLEAN, devices : Topologies]

\* The marks of a file without a session are no sessions.
ASSUME MarksAssumption ==
  /\ {MissingFile, UnreadableFile, NoTopology} \intersect Sessions = {}
  /\ MissingFile # UnreadableFile

\* The ports of two channels have the letters of a stereo pair.
InitialPreset(channels) ==
  [channels |-> channels, lettered |-> (channels = 2), ports |-> {LegacyPorts},
   gain |-> [group \in PortGroups |-> IF group = LegacyPorts THEN UnityGain ELSE NoRoutes]]

DefaultSession ==
  [preset |-> InitialPreset(ChannelTotal(DefaultDevices)),
   audio_runtime |-> NoConfig, auto_start |-> FALSE, devices |-> DefaultDevices]

Init ==
  /\ Created(DefaultSession.preset)
  /\ phase = "down"
  /\ desired = DefaultSession
  /\ file \in {MissingFile, UnreadableFile}
  /\ writes_allowed = FALSE
  /\ save_ok = FALSE /\ unmerged = FALSE
  /\ topology = NoTopology
  /\ registry = RegistryOf(DefaultDevices)
  /\ torn = FALSE /\ renamed = FALSE

Saved(session) ==
  \/ save_ok' = TRUE /\ file' = session
  \/ save_ok' = FALSE /\ UNCHANGED file

-----------------------------------------------------------------------------
(* main() up to the pipe server.                                           *)

\* load_session_file(): a valid file, or the default session.
Loaded == IF file \in {MissingFile, UnreadableFile} THEN DefaultSession ELSE file

\* virtual_asio_instance_layout(): enabled devices fill the matrix port group.
LayoutFits(session) == ChannelTotal(session.devices) = session.preset.channels

\* The saved runtime is configured, with no observer yet, and started if it
\* was; a failure of either leaves the service online.
RestoreRuntime(session) ==
  LET next == session.audio_runtime
      p    == IF ChangesTopology(NoConfig, next)
              THEN Reconcile(session.preset, NoConfig, next) ELSE session.preset
      v    == IF ChangesTopology(NoConfig, next) THEN 2 ELSE 1
  IN  \/ /\ preset' = session.preset /\ graph_version' = 1
         /\ runtime' = NoRuntime /\ configuration' = NoConfig
      \/ /\ next # NoConfig
         /\ preset' = p /\ graph_version' = v
         /\ configuration' = next
         /\ \E up \in {session.auto_start, FALSE} : runtime' = WithRunning(Build(next, v, p), up)

\* A missing file is created now; were that to fail the process would end.
Startup ==
  /\ phase = "down"
  /\ LayoutFits(Loaded)
  /\ phase' = "serving"
  /\ desired' = Loaded
  /\ writes_allowed' = (file # UnreadableFile)
  /\ RestoreRuntime(Loaded)
  /\ unmerged' = (preset' # Loaded.preset)
  /\ asio_channels' = ChannelTotal(Loaded.devices)
  /\ file' = IF file = MissingFile THEN Loaded ELSE file
  /\ save_ok' = TRUE
  /\ replayed' = <<>>
  /\ UNCHANGED <<reply, registryVars>>

\* virtual_asio_instance_layout_invalid: the process exits with an error, and
\* does so again at every later start.
RefuseToStart ==
  /\ phase \in {"down", "refused"}
  /\ ~LayoutFits(Loaded)
  /\ phase' = "refused"
  /\ UNCHANGED <<serviceVars, desired, file, writes_allowed, save_ok, unmerged, registryVars>>

-----------------------------------------------------------------------------
(* The pipe server's request handler, before and after stop_requested.     *)

Up == phase \in {"serving", "stopping"}

\* request_mutex is free.
Idle == Up /\ reply = NoReply /\ topology = NoTopology

ReceiveRequest(r) ==
  /\ Idle
  /\ HandleWireRequest(r)
  /\ unmerged' = (unmerged \/ (r.command.type = "Configure" /\ preset' # preset))
  /\ UNCHANGED <<phase, desired, file, writes_allowed, save_ok, registryVars>>

\* command_changes_persisted_session().
ChangesPersisted(command) == command.type # "Query"

\* Fault: the preset is not merged.
MergedWithoutPreset(command) ==
  CASE command.type = "Configure" ->
         [desired EXCEPT !.audio_runtime = command.config, !.auto_start = IsRunning(runtime)]
    [] command.type \in {"Start", "Stop"} ->
         [desired EXCEPT !.auto_start = (command.type = "Start")]
    [] OTHER -> desired

\* Fault: auto_start is what the runtime happens to be doing.
MergedAutoStart(command) ==
  CASE command.type \in {"SetGain", "LoadPreset"} ->
         [desired EXCEPT !.preset = preset, !.auto_start = IsRunning(runtime)]
    [] command.type = "Configure" ->
         [desired EXCEPT !.audio_runtime = command.config, !.auto_start = IsRunning(runtime)]
    [] command.type \in {"Start", "Stop"} ->
         [desired EXCEPT !.auto_start = (command.type = "Start")]

\* merge_successful_command(), with the service's state at the time of the merge.
Merged(command) ==
  CASE command.type \in {"SetGain", "LoadPreset"} -> [desired EXCEPT !.preset = preset]
    [] command.type = "Configure" ->
         [desired EXCEPT !.audio_runtime = command.config, !.auto_start = IsRunning(runtime)]
    [] command.type \in {"Start", "Stop"} ->
         [desired EXCEPT !.auto_start = (command.type = "Start")]

\* An accepted response, cached or not, is merged and saved.
MergeAndSave ==
  /\ reply # NoReply
  /\ LET command == reply.request.command IN
       IF /\ writes_allowed
          /\ ChangesPersisted(command)
          /\ reply.status = "Accepted"
       THEN /\ desired' = Merged(command)
            /\ Saved(desired')
            /\ unmerged' = (unmerged /\ command.type \notin {"SetGain", "LoadPreset"})
       ELSE UNCHANGED <<desired, file, save_ok, unmerged>>
  /\ reply' = NoReply
  /\ UNCHANGED <<engineVars, phase, writes_allowed, registryVars>>

\* resize_virtual_asio_matrix_profile(): the Virtual ASIO ports are numbered
\* ones from now on, and the routes of lettered ones go with them.
Resized(p, channels) ==
  [p EXCEPT !.channels = channels, !.lettered = FALSE,
            !.gain = IF p.lettered THEN [group \in PortGroups |-> NoRoutes] ELSE @]

Candidate(devices) ==
  [desired EXCEPT !.devices = devices, !.preset = Resized(@, ChannelTotal(devices))]

\* ConfigureVirtualAsioDevices, up to the registration of the drivers: refused
\* without a writable session and with a runtime running.  (With a client
\* connected too, which is a refusal the model leaves out.)
ConfigureVirtualAsioDevices(devices) ==
  /\ Idle
  /\ writes_allowed
  /\ ~IsRunning(runtime)
  /\ \E out \in Synchronize(registry, desired.devices, devices) :
       /\ registry' = out.registry
       /\ torn' = (torn \/ ~out.complete)
       /\ topology' = IF out.ok THEN Candidate(devices) ELSE NoTopology
  /\ renamed' = (renamed \/ Renames(desired.devices, devices))
  /\ UNCHANGED <<serviceVars, sessionVars>>

\* The candidate is saved and the engine stops, for the bootstrap to start it
\* again.
TopologySaved ==
  /\ topology # NoTopology
  /\ desired' = topology
  /\ file' = topology
  /\ save_ok' = TRUE
  /\ phase' = "stopping"
  /\ topology' = NoTopology
  /\ UNCHANGED <<serviceVars, writes_allowed, unmerged, registry, torn, renamed>>

\* session_write_failed: the registrations go back, with no regard to whether
\* that works.
TopologySaveFailed ==
  /\ topology # NoTopology
  /\ \E out \in Synchronize(registry, topology.devices, desired.devices) :
       /\ registry' = out.registry
       /\ torn' = (torn \/ ~out.ok)
  /\ topology' = NoTopology
  /\ save_ok' = FALSE
  /\ UNCHANGED <<serviceVars, phase, desired, file, writes_allowed, unmerged, renamed>>

-----------------------------------------------------------------------------
(* The end of the process.                                                 *)

\* Console handler, stop event.
RequestStop ==
  /\ phase = "serving"
  /\ phase' = "stopping"
  /\ UNCHANGED <<serviceVars, desired, file, writes_allowed, save_ok, unmerged, registryVars>>

\* pipe_server.stop() waits for the request in progress; then the brokers,
\* the hosts and the runtime stop, and desired_session is saved once more.
Shutdown ==
  /\ phase = "stopping" /\ Idle
  /\ phase' = "down"
  /\ IF writes_allowed THEN Saved(desired) ELSE UNCHANGED <<file, save_ok>>
  /\ UNCHANGED <<serviceVars, desired, writes_allowed, unmerged, registryVars>>

\* The process is killed.
Crash ==
  /\ Up
  /\ phase' = "down"
  /\ reply' = NoReply
  /\ topology' = NoTopology
  /\ torn' = (torn \/ topology # NoTopology)
  /\ UNCHANGED <<engineVars, desired, file, writes_allowed, save_ok, unmerged, registry, renamed>>

\* It is killed while it registers drivers, for a new list or for the old one.
CrashRegistering(devices) ==
  /\ Idle
  /\ writes_allowed
  /\ ~IsRunning(runtime)
  /\ \E left \in Interrupted(registry, desired.devices, devices) :
       /\ left # registry
       /\ registry' = left
  /\ torn' = TRUE
  /\ renamed' = (renamed \/ Renames(desired.devices, devices))
  /\ phase' = "down"
  /\ UNCHANGED <<serviceVars, desired, file, writes_allowed, save_ok, unmerged, topology>>

RuntimeStopsAlone ==
  /\ Up
  /\ RuntimeStops
  /\ UNCHANGED appVars

Next ==
  \/ Startup \/ RefuseToStart
  \/ \E r \in Requests : ReceiveRequest(r)
  \/ MergeAndSave
  \/ \E devices \in Topologies : ConfigureVirtualAsioDevices(devices)
  \/ TopologySaved \/ TopologySaveFailed
  \/ \E devices \in Topologies : CrashRegistering(devices)
  \/ RequestStop \/ Shutdown \/ Crash \/ RuntimeStopsAlone

Spec == Init /\ [][Next]_vars

-----------------------------------------------------------------------------
TypeOK ==
  /\ ServiceTypeOK
  /\ phase \in {"down", "serving", "stopping", "refused"}
  /\ desired \in Sessions
  /\ file \in Sessions \union {MissingFile, UnreadableFile}
  /\ writes_allowed \in BOOLEAN /\ save_ok \in BOOLEAN /\ unmerged \in BOOLEAN
  /\ torn \in BOOLEAN /\ renamed \in BOOLEAN
  /\ topology \in Sessions \union {NoTopology}
  /\ registry \in Registries

\* An existing file that could not be read is never replaced, by no save of
\* any invocation (docs/lab/engine-session-persistence.md).
UnreadableFileIsPreserved == [][file = UnreadableFile => UNCHANGED file]_vars

\* When the last save succeeded and no request is in progress, the file holds
\* the preset the engine has: a kill loses no accepted edit of it.  Only what a
\* configuration, or its restoration at the start, has made of the ports and
\* routes of the matrix is not merged, until the next command on the preset is.
RoutesArePersisted ==
  (phase = "serving" /\ writes_allowed /\ reply = NoReply /\ save_ok /\ ~unmerged)
    => file.preset = preset

\* The saved runtime configuration and auto_start change only with an accepted
\* configure, start or stop: not with a preset edit made while a restoration
\* has failed or the runtime has stopped on its own, and not by a restart.  (A
\* save after one that failed may write what the failed one held.)
RuntimeIntentSurvives ==
  [][ /\ file \notin {MissingFile, UnreadableFile}
      /\ \/ file'.audio_runtime # file.audio_runtime
         \/ file'.auto_start # file.auto_start
      => \/ /\ reply # NoReply
            /\ reply.request.command.type \in {"Configure", "Start", "Stop"}
            /\ reply.status = "Accepted"
         \/ ~save_ok ]_vars

\* The drivers a DAW finds are those of the session the engine starts with,
\* through changes of the devices whose registration or save fails, through
\* kills, and through the commands still served between a change and the end
\* of the process.  What separates the two is a restoration that fails itself, a
\* kill between the first registration and the save, and a change of the devices
\* that gives a class another name, or a name another class.
DriversAreTheSessions ==
  file # MissingFile /\ topology = NoTopology /\ ~torn /\ ~renamed =>
    Offers(registry, IF file = UnreadableFile THEN DefaultDevices ELSE file.devices)

-----------------------------------------------------------------------------
(* What the documents promise and the code does not keep.                  *)

\* docs/architecture/current-system.md: an exact retry receives the cached
\* response, so that it does not roll controls back to older state.  Stated on
\* desired_session: merging a cached response moves no runtime setting back.
RetryDoesNotRollBack ==
  [][reply # NoReply /\ reply.cached => UNCHANGED <<desired.audio_runtime, desired.auto_start>>]_vars
=============================================================================
