----------------------- MODULE EngineControlService -----------------------
(***************************************************************************)
(* core/service/engine_control_service.cpp and the part of                 *)
(* core/control/control_session.cpp it drives: the committed preset, the   *)
(* graph version, the audio runtime and its configuration, and the cache   *)
(* of answered requests.                                                   *)
(*                                                                         *)
(* control_mutex_ is held for the whole of handle_wire_request(), so one   *)
(* request is one step; what may fail inside it (building a runtime,       *)
(* starting it, the preset observer, restoring the previous runtime) is a  *)
(* choice inside the step.  A runtime may also stop on its own.            *)
(*                                                                         *)
(* A preset is abstracted to what decides here: the number of Virtual ASIO *)
(* channels and whether their ports are named after the two of a stereo    *)
(* pair, the groups of physical runtime ports in the matrix, and for each  *)
(* group one value for the parameters of the routes between it and the     *)
(* Virtual ASIO ports.                                                     *)
(***************************************************************************)
EXTENDS Naturals, Sequences

CONSTANTS
  MatrixConfigs,  \* configurations of mode WasapiMatrix, each with its ports
  DirectConfigs,  \* configurations of mode WasapiRender or WasapiDuplex
  AsioConfigs,    \* configurations of mode PhysicalAsio
  NoConfig,       \* audio_runtime_configuration_ is empty
  NoRuntime,      \* audio_runtime_ is null
  NoReply,        \* no request has been answered and waits for what the caller does with it
  LegacyPorts,    \* the stereo wasapi-capture-* and wasapi-render-* ports
  Channels,       \* totals of Virtual ASIO channels
  Gains,          \* values of the route parameters
  UnityGain,      \* those of a route that is added by default
  NoRoutes,       \* a group of ports without routes
  RouteEdits,     \* what a route command may ask for, of a group of ports
  LoadablePresets,\* presets a LoadPreset command may carry
  CommandIds,     \* command_id values
  MaxReplayed,    \* kMaxReplayedResponses
  MaxVersion      \* bound: no preset is committed beyond this graph version

ASSUME EngineControlServiceAssumption ==
  /\ MaxReplayed \in Nat \ {0}
  /\ MaxVersion \in Nat \ {0, 1}
  /\ NoConfig \notin MatrixConfigs \union DirectConfigs \union AsioConfigs
  /\ LegacyPorts \notin MatrixConfigs
  /\ UnityGain \in Gains

Configs    == MatrixConfigs \union DirectConfigs \union AsioConfigs
PortGroups == MatrixConfigs \union {LegacyPorts}
RouteGains == Gains \union {NoRoutes}
Presets    == [channels : Channels, lettered : BOOLEAN, ports : SUBSET PortGroups,
               gain : [PortGroups -> RouteGains]]
Runtimes   == [config : Configs, graph_version : Nat, preset : Presets, running : BOOLEAN]

(* SetGain stands for the four route commands, which connect the ports of  *)
(* a group, change the routes there or disconnect them; LoadPreset for the *)
(* commands that replace the preset, Query for those that change nothing.  *)
Commands ==
       {[type |-> t] : t \in {"Start", "Stop", "Query"}}
  \union {[type |-> "SetGain", ports |-> e.ports, gain |-> e.gain] : e \in RouteEdits}
  \union {[type |-> "LoadPreset", preset |-> p] : p \in LoadablePresets}
  \union {[type |-> "Configure", config |-> c] : c \in Configs}

Requests == [id : CommandIds, command : Commands]
Statuses == {"Accepted", "Rejected"}
Answers  == [request : Requests, status : Statuses]
Replies  == [request : Requests, status : Statuses, cached : BOOLEAN]

ASSUME CommandsAssumption ==
  /\ RouteEdits \subseteq [ports : PortGroups, gain : RouteGains]
  /\ LoadablePresets \subseteq Presets
  /\ NoReply \notin Replies

VARIABLES
  preset,         \* ControlSession::current_preset_
  graph_version,  \* version of the graph the session has published
  runtime,        \* audio_runtime_: what it was built from, and running()
  configuration,  \* audio_runtime_configuration_
  replayed,       \* replayed_responses_, oldest first
  asio_channels,  \* channel total of asio_layout, captured by the observer
  reply           \* the request just answered, and how; the caller takes it away

engineVars  == <<preset, graph_version, runtime, configuration, replayed, asio_channels>>
serviceVars == <<engineVars, reply>>

-----------------------------------------------------------------------------
(* The runtime.                                                            *)

Build(config, version, p) ==
  [config |-> config, graph_version |-> version, preset |-> p, running |-> FALSE]

IsRunning(rt)   == rt # NoRuntime /\ rt.running
WithRunning(rt, up) == [rt EXCEPT !.running = up]

(* start_audio_runtime_locked(): what may come of starting rt.  A runtime   *)
(* built for an older graph is first replaced by a new one, which may fail. *)
StartOutcomes(rt) ==
  CASE rt = NoRuntime \/ IsRunning(rt) -> {[ok |-> FALSE, runtime |-> rt]}
    [] rt # NoRuntime /\ ~IsRunning(rt) /\ rt.graph_version = graph_version ->
         {[ok |-> up, runtime |-> WithRunning(rt, up)] : up \in BOOLEAN}
    [] OTHER ->
         {[ok |-> FALSE, runtime |-> rt]} \union
         {[ok |-> up, runtime |->
             WithRunning(Build(configuration, graph_version, preset), up)] : up \in BOOLEAN}

\* Graph::apply_realtime_parameters_from() wants equal topologies; the
\* PhysicalAsio runtime keeps the base class's refusal.
AppliesLive(rt, p) ==
  /\ rt.config \notin AsioConfigs
  /\ rt.preset.ports = p.ports /\ rt.preset.channels = p.channels

\* The observer refuses another channel total; the rest of it, refreshing the
\* clients' graphs, may fail for reasons of its own.
ObserverMayAccept(p) == p.channels = asio_channels

-----------------------------------------------------------------------------
(* Answers.                                                                *)

Known(r) == {i \in 1 .. Len(replayed) : replayed[i].request.id = r.id}

Accepted(r) == reply' = [request |-> r, status |-> "Accepted", cached |-> FALSE]
Rejected(r) == reply' = [request |-> r, status |-> "Rejected", cached |-> FALSE]

\* remember_response_locked(): the oldest entry makes room.
Remember(r) ==
  LET entry == [request |-> r, status |-> reply'.status]
      kept  == IF Len(replayed) < MaxReplayed THEN replayed ELSE Tail(replayed)
  IN  replayed' = Append(kept, entry)

\* Fault: the cache is looked up by command id alone.
ReplayAnyRequest(r) ==
  /\ \E i \in Known(r) : reply' = [request |-> r, status |-> replayed[i].status, cached |-> TRUE]
  /\ UNCHANGED engineVars

\* The same bytes under the same id: the cached response, and nothing else.
ReplayExact(r) ==
  /\ \E i \in Known(r) :
       /\ replayed[i].request = r
       /\ reply' = [request |-> r, status |-> replayed[i].status, cached |-> TRUE]
  /\ UNCHANGED engineVars

\* command_id_conflict: neither executed nor remembered.
ReplayConflict(r) ==
  /\ \E i \in Known(r) : replayed[i].request # r
  /\ Rejected(r)
  /\ UNCHANGED engineVars

-----------------------------------------------------------------------------
(* Commands.                                                               *)

Query(r) ==
  /\ r.command.type = "Query"
  /\ Accepted(r)
  /\ UNCHANGED <<preset, graph_version, runtime, configuration>>

StartAudioRuntime(r) ==
  /\ r.command.type = "Start"
  /\ \E out \in StartOutcomes(runtime) :
       /\ runtime' = out.runtime
       /\ IF out.ok THEN Accepted(r) ELSE Rejected(r)
  /\ UNCHANGED <<preset, graph_version, configuration>>

StopAudioRuntime(r) ==
  /\ r.command.type = "Stop"
  /\ runtime' = IF IsRunning(runtime) THEN WithRunning(runtime, FALSE) ELSE runtime
  /\ Accepted(r)
  /\ UNCHANGED <<preset, graph_version, configuration>>

\* ControlSession::commit_preset_update().
Commit(p) ==
  /\ graph_version < MaxVersion
  /\ preset' = p
  /\ graph_version' = graph_version + 1

\* A route command names ports of the matrix.
KnowsPorts(command) == command.type = "SetGain" => command.ports \in preset.ports

UpdatedPreset(command) ==
  IF command.type = "SetGain" THEN [preset EXCEPT !.gain[command.ports] = command.gain]
  ELSE command.preset

\* Fault: the running graph is not told about the new parameters.
UpdateRouteCommitOnly(r) ==
  /\ r.command.type = "SetGain"
  /\ IsRunning(runtime)
  /\ KnowsPorts(r.command)
  /\ Commit(UpdatedPreset(r.command))
  /\ Accepted(r)
  /\ UNCHANGED <<runtime, configuration>>

\* A route command while the runtime runs: the observer, then the running
\* graph takes the new parameters, then the commit.
UpdateRouteLive(r) ==
  /\ r.command.type = "SetGain"
  /\ IsRunning(runtime)
  /\ LET p == UpdatedPreset(r.command) IN
       \/ /\ Rejected(r)          \* the observer or the runtime refuses, or there is no such route
          /\ UNCHANGED <<preset, graph_version, runtime>>
       \/ /\ KnowsPorts(r.command) /\ ObserverMayAccept(p) /\ AppliesLive(runtime, p)
          /\ runtime' = [runtime EXCEPT !.preset.gain = p.gain]
          /\ Commit(p)
          /\ Accepted(r)
  /\ UNCHANGED configuration

\* A preset mutation with no runtime to restart: the observer, then the commit.
MutatePresetStopped(r) ==
  /\ r.command.type \in {"SetGain", "LoadPreset"}
  /\ ~IsRunning(runtime)
  /\ LET p == UpdatedPreset(r.command) IN
       \/ /\ Rejected(r)
          /\ UNCHANGED <<preset, graph_version>>
       \/ /\ KnowsPorts(r.command) /\ ObserverMayAccept(p)
          /\ Commit(p)
          /\ Accepted(r)
  /\ UNCHANGED <<runtime, configuration>>

\* Fault: the preset is committed before the replacement has started.
MutatePresetCommitFirst(r) ==
  /\ r.command.type = "LoadPreset"
  /\ IsRunning(runtime)
  /\ ObserverMayAccept(r.command.preset)
  /\ Commit(r.command.preset)
  /\ \/ /\ runtime' = WithRunning(runtime, TRUE)
        /\ Rejected(r)
     \/ /\ runtime' = WithRunning(Build(configuration, graph_version + 1, r.command.preset), TRUE)
        /\ Accepted(r)
  /\ UNCHANGED configuration

\* Any other mutation while the runtime runs: stop it, build and start a
\* candidate for the new graph, ask the observer, commit.  When one of these
\* fails the candidate is dropped and the previous runtime is started again,
\* through start_audio_runtime_locked(), which may rebuild it or fail.
MutatePresetRestart(r) ==
  /\ r.command.type = "LoadPreset"
  /\ IsRunning(runtime)
  /\ \/ /\ \/ UNCHANGED runtime          \* refused before anything was stopped
           \/ \E out \in StartOutcomes(WithRunning(runtime, FALSE)) : runtime' = out.runtime
        /\ Rejected(r)
        /\ UNCHANGED <<preset, graph_version>>
     \/ /\ ObserverMayAccept(r.command.preset)
        /\ runtime' = WithRunning(Build(configuration, graph_version + 1, r.command.preset), TRUE)
        /\ Commit(r.command.preset)
        /\ Accepted(r)
  /\ UNCHANGED configuration

\* changes_matrix_topology.
ChangesTopology(previous, next) ==
  \/ next \in MatrixConfigs
  \/ previous \in MatrixConfigs /\ next \notin AsioConfigs

\* reconcile_audio_runtime_matrix_preset(): the ports of the previous matrix
\* configuration and the legacy ports give way to those of the next one.  The
\* routes of ports that go are erased; the legacy ports without routes get the
\* default ones, which the stereo pair's names are looked up for.
Reconcile(p, previous, next) ==
  LET wanted  == IF next \in MatrixConfigs THEN {next} ELSE {LegacyPorts}
      ports   == (p.ports \ {previous, LegacyPorts}) \union wanted
      kept    == [group \in PortGroups |->
                    IF group \in p.ports \intersect ports THEN p.gain[group] ELSE NoRoutes]
      default == LegacyPorts \in ports /\ p.lettered /\ kept[LegacyPorts] = NoRoutes
  IN  [p EXCEPT !.ports = ports,
                !.gain = IF default THEN [kept EXCEPT ![LegacyPorts] = UnityGain] ELSE kept]

ReconciledPreset(next) ==
  IF ChangesTopology(configuration, next) THEN Reconcile(preset, configuration, next) ELSE preset

ReconciledVersion(next) ==
  IF ChangesTopology(configuration, next) THEN graph_version + 1 ELSE graph_version

\* restore_previous_runtime: what was running is started again as it is.
ConfigureFailed ==
  /\ IF IsRunning(runtime)
     THEN \E up \in BOOLEAN : runtime' = WithRunning(runtime, up)
     ELSE UNCHANGED runtime
  /\ UNCHANGED <<preset, graph_version, configuration>>

ConfigureSucceeded(next) ==
  LET p == ReconciledPreset(next)
      v == ReconciledVersion(next)
  IN  /\ runtime' = WithRunning(Build(next, v, p), IsRunning(runtime))
      /\ configuration' = next
      /\ IF ChangesTopology(configuration, next)
         THEN Commit(p)
         ELSE UNCHANGED <<preset, graph_version>>

\* configure_audio_runtime_locked() with the observer installed, which only
\* sees changes of the matrix.
ConfigureAudioRuntime(r) ==
  /\ r.command.type = "Configure"
  /\ \/ ConfigureFailed /\ Rejected(r)
     \/ /\ ChangesTopology(configuration, r.command.config) =>
             ObserverMayAccept(ReconciledPreset(r.command.config))
        /\ ConfigureSucceeded(r.command.config)
        /\ Accepted(r)

Execute(r) ==
  /\ Known(r) = {}
  /\ \/ Query(r) \/ StartAudioRuntime(r) \/ StopAudioRuntime(r)
     \/ UpdateRouteLive(r) \/ MutatePresetStopped(r) \/ MutatePresetRestart(r)
     \/ ConfigureAudioRuntime(r)
  /\ Remember(r)
  /\ UNCHANGED asio_channels

HandleWireRequest(r) == ReplayExact(r) \/ ReplayConflict(r) \/ Execute(r)

\* The runtime's worker gives up: running() turns false.
RuntimeStops ==
  /\ IsRunning(runtime)
  /\ runtime' = WithRunning(runtime, FALSE)
  /\ UNCHANGED <<preset, graph_version, configuration, replayed, asio_channels, reply>>

-----------------------------------------------------------------------------
\* EngineControlService::create(), before any runtime is configured.
Created(p) ==
  /\ preset = p
  /\ graph_version = 1
  /\ runtime = NoRuntime
  /\ configuration = NoConfig
  /\ replayed = <<>>
  /\ asio_channels = p.channels
  /\ reply = NoReply

-----------------------------------------------------------------------------
ServiceTypeOK ==
  /\ preset \in Presets
  /\ graph_version \in 1 .. MaxVersion
  /\ runtime \in Runtimes \union {NoRuntime}
  /\ configuration \in Configs \union {NoConfig}
  /\ replayed \in Seq(Answers) /\ Len(replayed) <= MaxReplayed
  /\ asio_channels \in Channels
  /\ reply \in Replies \union {NoReply}

\* A running runtime executes the committed preset, its topology and its
\* route parameters, whatever sequence of live updates, restarts, rejections
\* and restored runtimes led there.
RunningGraphIsCommitted == IsRunning(runtime) => runtime.preset = preset

\* A stopped runtime is restarted without a rebuild when its graph_version()
\* is the session's: the two versions agree only if the graphs do.
VersionIdentifiesGraph ==
  runtime # NoRuntime /\ runtime.graph_version = graph_version => runtime.preset = preset

\* The configuration reported and used for rebuilding is that of the runtime
\* in place, also after a rejected ConfigureAudioRuntime.
ConfigurationIsRuntimes == runtime # NoRuntime => runtime.config = configuration

\* A rejected request commits nothing: preset, graph version and
\* configuration stay, and a runtime still up runs what it ran before.
RejectionIsTransactional ==
  [][reply' # reply /\ reply' # NoReply /\ reply'.status = "Rejected" =>
       /\ UNCHANGED <<preset, graph_version, configuration>>
       /\ IsRunning(runtime) /\ IsRunning(runtime') => runtime'.preset = runtime.preset]_serviceVars

\* While a response is remembered its command id changes nothing more: not
\* when the request is repeated, not when the id is used for another request.
RememberedIdIsInert ==
  [][\A i \in 1 .. Len(replayed) :
       reply' # reply /\ reply' # NoReply /\ replayed[i].request.id = reply'.request.id =>
         /\ UNCHANGED <<preset, graph_version, runtime, configuration>>
         /\ (replayed[i].request = reply'.request <=> reply'.cached)]_serviceVars
=============================================================================
