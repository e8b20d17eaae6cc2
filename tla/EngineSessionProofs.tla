------------------------ MODULE EngineSessionProofs ------------------------
(***************************************************************************)
(* What EngineControlService and EngineSession promise, for every set of   *)
(* configurations, ports, presets and commands, every size of the cache of *)
(* answers and every list of devices.                                      *)
(*                                                                         *)
(* ServiceInv relates the runtime to the session that is committed: what   *)
(* it was built for is never newer, and its graph is the committed one     *)
(* whenever it runs or the versions agree.  SessionInv relates the state   *)
(* of the service, desired_session and the file, while an answer, or the   *)
(* save of a new list of devices, is still on its way.  DriversInv relates *)
(* the registry to both; what a loop over a list of devices leaves there   *)
(* is by induction over the list.                                          *)
(***************************************************************************)
EXTENDS EngineSession, SequenceTheorems, FiniteSetTheorems, WellFoundedInduction, TLAPS

-----------------------------------------------------------------------------
(* The inductive invariants. *)

\* A runtime is of the configuration in force and of no later graph.
RuntimeIsNoLater ==
  runtime # NoRuntime => runtime.graph_version <= graph_version

\* No command id is remembered twice.
IdsAreUnique ==
  \A i, j \in 1 .. Len(replayed) : replayed[i].request.id = replayed[j].request.id => i = j

ServiceInv ==
  /\ ServiceTypeOK
  /\ RunningGraphIsCommitted
  /\ VersionIdentifiesGraph
  /\ ConfigurationIsRuntimes
  /\ RuntimeIsNoLater
  /\ IdsAreUnique

SessionTypeOK ==
  /\ phase \in {"down", "serving", "stopping", "refused"}
  /\ desired \in Sessions
  /\ file \in Sessions \union {MissingFile, UnreadableFile}
  /\ writes_allowed \in BOOLEAN /\ save_ok \in BOOLEAN /\ unmerged \in BOOLEAN
  /\ topology \in Sessions \union {NoTopology}

\* The answer to a command that has changed the committed preset.
PresetAnswer ==
  /\ reply # NoReply
  /\ reply.status = "Accepted"
  /\ reply.request.command.type \in {"SetGain", "LoadPreset"}

\* Only a process that is up has an answer to take away or a list to save, and
\* never both.
OneInProgress ==
  /\ reply # NoReply \/ topology # NoTopology => Up
  /\ topology # NoTopology => reply = NoReply /\ writes_allowed

\* Until its answer is merged an accepted preset command is all that the
\* desired session lacks, unless a configuration has changed the preset.
DesiredFollows ==
  phase = "serving" /\ writes_allowed /\ ~PresetAnswer /\ ~unmerged => desired.preset = preset

\* What was saved last is what is desired.
FileFollows ==
  Up /\ writes_allowed /\ save_ok => file = desired

UnreadableIsKept ==
  Up /\ writes_allowed => file # UnreadableFile

\* The candidate differs in its devices and its preset only.
CandidateFollows ==
  topology # NoTopology =>
    /\ topology.audio_runtime = desired.audio_runtime
    /\ topology.auto_start = desired.auto_start

SessionInv ==
  /\ SessionTypeOK
  /\ OneInProgress
  /\ DesiredFollows
  /\ FileFollows
  /\ UnreadableIsKept
  /\ CandidateFollows

-----------------------------------------------------------------------------
(* Runtimes and presets. *)

\* What the invariants say of a runtime in a session of preset p, version v
\* and configuration c.
Fits(rt, p, v, c) ==
  rt # NoRuntime =>
    /\ rt.config = c
    /\ rt.graph_version <= v
    /\ rt.running \/ rt.graph_version = v => rt.preset = p

RuntimeFits == Fits(runtime, preset, graph_version, configuration)

\* The four invariants of the runtime, in one.
LEMMA FitsIsTheInvariants ==
  RuntimeFits <=> /\ RunningGraphIsCommitted
                  /\ VersionIdentifiesGraph
                  /\ ConfigurationIsRuntimes
                  /\ RuntimeIsNoLater
BY DEF RuntimeFits, Fits, RunningGraphIsCommitted, VersionIdentifiesGraph,
       ConfigurationIsRuntimes, RuntimeIsNoLater, IsRunning

\* Build() makes a stopped runtime of what it is given.
LEMMA BuildType ==
  ASSUME NEW c \in Configs, NEW v \in Nat, NEW p \in Presets
  PROVE  /\ Build(c, v, p) \in Runtimes
         /\ Build(c, v, p).config = c
         /\ Build(c, v, p).graph_version = v
         /\ Build(c, v, p).preset = p
BY DEF Build, Runtimes

\* Starting or stopping a runtime changes nothing else of it.
LEMMA WithRunningType ==
  ASSUME NEW rt \in Runtimes, NEW up \in BOOLEAN
  PROVE  /\ WithRunning(rt, up) \in Runtimes
         /\ WithRunning(rt, up).config = rt.config
         /\ WithRunning(rt, up).graph_version = rt.graph_version
         /\ WithRunning(rt, up).preset = rt.preset
         /\ WithRunning(rt, up).running = up
BY DEF WithRunning, Runtimes

\* A new runtime for the committed session fits it, started or not.
LEMMA NewRuntimeFits ==
  ASSUME NEW c \in Configs, NEW v \in Nat, NEW p \in Presets, NEW up \in BOOLEAN
  PROVE  /\ WithRunning(Build(c, v, p), up) \in Runtimes
         /\ WithRunning(Build(c, v, p), up).preset = p
         /\ Fits(WithRunning(Build(c, v, p), up), p, v, c)
<1>1. Build(c, v, p) \in Runtimes
  BY BuildType
<1>2. QED
  BY <1>1, BuildType, WithRunningType DEF Fits

\* start_audio_runtime_locked() leaves a runtime that fits when the one it was
\* given does; a runtime it starts in the place of a running one runs what that
\* one ran.
LEMMA StartFits ==
  ASSUME ServiceTypeOK,
         NEW rt \in Runtimes \union {NoRuntime},
         Fits(rt, preset, graph_version, configuration),
         NEW out \in StartOutcomes(rt)
  PROVE  /\ out.runtime \in Runtimes \union {NoRuntime}
         /\ Fits(out.runtime, preset, graph_version, configuration)
         /\ IsRunning(rt) => out.runtime = rt /\ ~out.ok
<1>1. CASE rt = NoRuntime \/ IsRunning(rt)
  BY <1>1 DEF StartOutcomes
<1>2. CASE rt # NoRuntime /\ ~IsRunning(rt) /\ rt.graph_version = graph_version
  <2>1. PICK up \in BOOLEAN : out = [ok |-> up, runtime |-> WithRunning(rt, up)]
    BY <1>2 DEF StartOutcomes
  <2>2. rt \in Runtimes
    BY <1>2
  <2>3. QED
    BY <1>2, <2>1, <2>2, WithRunningType DEF Fits
<1>3. CASE rt # NoRuntime /\ ~IsRunning(rt) /\ rt.graph_version # graph_version
  <2>1. configuration \in Configs /\ graph_version \in Nat /\ preset \in Presets
    BY <1>3 DEF Fits, Runtimes, ServiceTypeOK
  <2>2. \/ out = [ok |-> FALSE, runtime |-> rt]
        \/ \E up \in BOOLEAN :
             out = [ok |-> up,
                    runtime |-> WithRunning(Build(configuration, graph_version, preset), up)]
    BY <1>3 DEF StartOutcomes
  <2>3. CASE out = [ok |-> FALSE, runtime |-> rt]
    BY <2>3, <1>3
  <2>4. ASSUME NEW up \in BOOLEAN,
               out = [ok |-> up,
                      runtime |-> WithRunning(Build(configuration, graph_version, preset), up)]
        PROVE  /\ out.runtime \in Runtimes
               /\ Fits(out.runtime, preset, graph_version, configuration)
    BY <2>1, <2>4, NewRuntimeFits
  <2>5. QED
    BY <1>3, <2>2, <2>3, <2>4
<1>4. QED
  BY <1>1, <1>2, <1>3

\* A preset keeps its type under the edits of the commands.
LEMMA PresetEdits ==
  ASSUME NEW p \in Presets
  PROVE  /\ \A group \in PortGroups, g \in RouteGains : [p EXCEPT !.gain[group] = g] \in Presets
         /\ \A c, d : Reconcile(p, c, d) \in Presets
<1>1. ASSUME NEW group \in PortGroups, NEW g \in RouteGains
      PROVE  [p EXCEPT !.gain[group] = g] \in Presets
  BY DEF Presets
<1>2. ASSUME NEW c, NEW d
      PROVE  Reconcile(p, c, d) \in Presets
  <2> DEFINE wanted  == IF d \in MatrixConfigs THEN {d} ELSE {LegacyPorts}
             ports   == (p.ports \ {c, LegacyPorts}) \union wanted
             kept    == [group \in PortGroups |->
                           IF group \in p.ports \intersect ports THEN p.gain[group] ELSE NoRoutes]
             default == LegacyPorts \in ports /\ p.lettered /\ kept[LegacyPorts] = NoRoutes
             gain    == IF default THEN [kept EXCEPT ![LegacyPorts] = UnityGain] ELSE kept
  <2>1. p.ports \in SUBSET PortGroups /\ p.gain \in [PortGroups -> RouteGains]
    BY DEF Presets
  <2>2. ports \in SUBSET PortGroups
    BY <2>1 DEF PortGroups
  <2>3. kept \in [PortGroups -> RouteGains]
    BY <2>1 DEF RouteGains
  <2>4. UnityGain \in RouteGains
    BY EngineControlServiceAssumption DEF RouteGains
  <2>5. gain \in [PortGroups -> RouteGains]
    <3> HIDE DEF kept, ports, default
    <3>1. QED
      BY <2>3, <2>4
  <2>6. Reconcile(p, c, d) = [p EXCEPT !.ports = ports, !.gain = gain]
    BY DEF Reconcile
  <2> HIDE DEF ports, gain
  <2>7. QED
    BY <2>2, <2>5, <2>6 DEF Presets
<1>3. QED
  BY <1>1, <1>2

\* The preset and the runtime a Configure command would commit.
LEMMA ReconciledType ==
  ASSUME ServiceTypeOK, NEW next \in Configs
  PROVE  /\ ReconciledPreset(next) \in Presets
         /\ ReconciledVersion(next) \in Nat
<1>1. preset \in Presets /\ configuration \in Configs \union {NoConfig} /\ graph_version \in Nat
  BY DEF ServiceTypeOK
<1>2. Reconcile(preset, configuration, next) \in Presets
  BY <1>1, PresetEdits
<1>3. QED
  BY <1>1, <1>2 DEF ReconciledPreset, ReconciledVersion

\* What a request carries.
LEMMA RequestTypes ==
  ASSUME NEW r \in Requests
  PROVE  /\ r.id \in CommandIds
         /\ r.command.type \in {"Start", "Stop", "Query", "SetGain", "LoadPreset", "Configure"}
         /\ r.command.type = "SetGain" =>
              r.command.ports \in PortGroups /\ r.command.gain \in RouteGains
         /\ r.command.type = "LoadPreset" => r.command.preset \in Presets
         /\ r.command.type = "Configure" => r.command.config \in Configs
BY CommandsAssumption DEF Requests, Commands

-----------------------------------------------------------------------------
(* Commands. *)

\* What a rejection leaves alone.
Transactional ==
  /\ UNCHANGED <<preset, graph_version, configuration>>
  /\ IsRunning(runtime) /\ IsRunning(runtime') => runtime'.preset = runtime.preset

\* What every command does to the state it works on: types and the relation of
\* the runtime to the session are kept, and a rejection is transactional.
CommandKeeps ==
  /\ preset' \in Presets
  /\ graph_version' \in 1 .. MaxVersion
  /\ runtime' \in Runtimes \union {NoRuntime}
  /\ configuration' \in Configs \union {NoConfig}
  /\ RuntimeFits'
  /\ reply'.status = "Rejected" => Transactional

LEMMA AnswerType ==
  ASSUME NEW r \in Requests, Accepted(r) \/ Rejected(r)
  PROVE  reply' \in Replies /\ reply'.request = r /\ ~reply'.cached
<1>1. PICK s \in Statuses : reply' = [request |-> r, status |-> s, cached |-> FALSE]
  BY DEF Accepted, Rejected, Statuses
<1>2. [request |-> r, status |-> s, cached |-> FALSE] \in Replies
  BY DEF Replies
<1>3. QED
  BY <1>1, <1>2

LEMMA QueryKeeps ==
  ASSUME ServiceInv, NEW r \in Requests, Query(r)
  PROVE  CommandKeeps
<1>1. RuntimeFits
  BY FitsIsTheInvariants DEF ServiceInv
<1>2. QED
  BY <1>1 DEF CommandKeeps, Transactional, Query, ServiceInv, ServiceTypeOK, RuntimeFits

LEMMA StartKeeps ==
  ASSUME ServiceInv, NEW r \in Requests, StartAudioRuntime(r)
  PROVE  CommandKeeps
<1>1. RuntimeFits /\ ServiceTypeOK
  BY FitsIsTheInvariants DEF ServiceInv
<1>2. PICK out \in StartOutcomes(runtime) : runtime' = out.runtime
  BY DEF StartAudioRuntime
<1>3. /\ runtime' \in Runtimes \union {NoRuntime}
      /\ Fits(runtime', preset, graph_version, configuration)
      /\ IsRunning(runtime) => runtime' = runtime
  BY <1>1, <1>2, StartFits DEF RuntimeFits, ServiceTypeOK
<1>4. UNCHANGED <<preset, graph_version, configuration>>
  BY DEF StartAudioRuntime
<1>5. QED
  BY <1>1, <1>3, <1>4 DEF CommandKeeps, Transactional, ServiceTypeOK, RuntimeFits

\* Stopping, by a command or by itself.
LEMMA StoppedFits ==
  ASSUME ServiceInv, IsRunning(runtime)
  PROVE  /\ WithRunning(runtime, FALSE) \in Runtimes
         /\ Fits(WithRunning(runtime, FALSE), preset, graph_version, configuration)
<1>1. RuntimeFits
  BY FitsIsTheInvariants DEF ServiceInv
<1>2. runtime \in Runtimes
  BY DEF ServiceInv, ServiceTypeOK, IsRunning
<1>3. QED
  BY <1>1, <1>2, WithRunningType DEF RuntimeFits, Fits, IsRunning

LEMMA StopKeeps ==
  ASSUME ServiceInv, NEW r \in Requests, StopAudioRuntime(r)
  PROVE  CommandKeeps
<1>1. RuntimeFits /\ ServiceTypeOK
  BY FitsIsTheInvariants DEF ServiceInv
<1>2. /\ runtime' \in Runtimes \union {NoRuntime}
      /\ Fits(runtime', preset, graph_version, configuration)
  BY <1>1, StoppedFits DEF StopAudioRuntime, ServiceTypeOK, RuntimeFits
<1>3. UNCHANGED <<preset, graph_version, configuration>> /\ reply'.status = "Accepted"
  BY DEF StopAudioRuntime, Accepted
<1>4. QED
  BY <1>1, <1>2, <1>3 DEF CommandKeeps, ServiceTypeOK, RuntimeFits

\* A runtime that fits the committed session is older than a newly committed
\* one, so that it fits that too unless it runs another preset.
LEMMA OlderFits ==
  ASSUME ServiceTypeOK, NEW p, NEW q,
         NEW rt \in Runtimes, NEW old \in Runtimes,
         Fits(old, p, graph_version, configuration),
         old # NoRuntime,
         rt.config = old.config, rt.graph_version = old.graph_version,
         rt.running => rt.preset = q
  PROVE  Fits(rt, q, graph_version + 1, configuration)
<1>1. rt.graph_version \in Nat /\ graph_version \in Nat
  BY DEF Runtimes, ServiceTypeOK
<1>2. rt.graph_version <= graph_version
  BY DEF Fits
<1>3. QED
  BY <1>1, <1>2 DEF Fits

\* The live update tells the running graph what it commits.
LEMMA UpdateRouteLiveKeeps ==
  ASSUME ServiceInv, NEW r \in Requests, UpdateRouteLive(r)
  PROVE  CommandKeeps
<1> DEFINE p == UpdatedPreset(r.command)
<1>1. RuntimeFits /\ ServiceTypeOK
  BY FitsIsTheInvariants DEF ServiceInv
<1>2. runtime \in Runtimes /\ runtime # NoRuntime /\ runtime.running /\ runtime.preset = preset
  BY <1>1 DEF UpdateRouteLive, IsRunning, ServiceTypeOK, RuntimeFits, Fits
<1>3. /\ p \in Presets /\ preset \in Presets
      /\ p = [preset EXCEPT !.gain = p.gain]
  <2>1. p = [preset EXCEPT !.gain[r.command.ports] = r.command.gain]
    BY DEF UpdateRouteLive, UpdatedPreset
  <2>2. preset \in Presets
    BY <1>1 DEF ServiceTypeOK
  <2>3. r.command.ports \in PortGroups /\ r.command.gain \in RouteGains
    BY RequestTypes DEF UpdateRouteLive
  <2>4. p.gain = [preset.gain EXCEPT ![r.command.ports] = r.command.gain]
    BY <2>1, <2>2 DEF Presets
  <2>5. p = [preset EXCEPT !.gain = [preset.gain EXCEPT ![r.command.ports] = r.command.gain]]
    BY <2>1
  <2>6. p \in Presets
    BY <2>1, <2>2, <2>3, PresetEdits
  <2> HIDE DEF p
  <2>7. QED
    BY <2>2, <2>4, <2>5, <2>6
<1>4. CASE UNCHANGED <<preset, graph_version, runtime>>
  <2>1. UNCHANGED configuration
    BY DEF UpdateRouteLive
  <2>2. QED
    BY <1>1, <1>4, <2>1 DEF CommandKeeps, Transactional, ServiceTypeOK, RuntimeFits
<1>5. CASE /\ runtime' = [runtime EXCEPT !.preset.gain = p.gain]
           /\ Commit(p)
           /\ Accepted(r)
  <2>1. [runtime EXCEPT !.preset.gain = p.gain] = [runtime EXCEPT !.preset = p]
    BY <1>2, <1>3 DEF Runtimes
  <2>2. /\ runtime' \in Runtimes
        /\ runtime'.config = runtime.config
        /\ runtime'.graph_version = runtime.graph_version
        /\ runtime'.preset = p
    BY <1>2, <1>3, <1>5, <2>1 DEF Runtimes
  <2>3. preset' = p /\ graph_version' = graph_version + 1 /\ graph_version < MaxVersion
    BY <1>5 DEF Commit
  <2>4. Fits(runtime', p, graph_version + 1, configuration)
    BY <1>1, <1>2, <2>2, OlderFits DEF RuntimeFits
  <2>5. graph_version' \in 1 .. MaxVersion
    BY <1>1, <2>3, EngineControlServiceAssumption DEF ServiceTypeOK
  <2>6. UNCHANGED configuration /\ reply'.status = "Accepted"
    BY <1>5 DEF UpdateRouteLive, Accepted
  <2>7. QED
    BY <1>1, <1>3, <2>2, <2>3, <2>4, <2>5, <2>6 DEF CommandKeeps, ServiceTypeOK, RuntimeFits
<1>6. QED
  BY <1>4, <1>5 DEF UpdateRouteLive

LEMMA MutatePresetStoppedKeeps ==
  ASSUME ServiceInv, NEW r \in Requests, MutatePresetStopped(r)
  PROVE  CommandKeeps
<1> DEFINE p == UpdatedPreset(r.command)
<1>1. RuntimeFits /\ ServiceTypeOK
  BY FitsIsTheInvariants DEF ServiceInv
<1>2. p \in Presets
  BY <1>1, RequestTypes, PresetEdits DEF MutatePresetStopped, UpdatedPreset, ServiceTypeOK
<1>3. UNCHANGED <<runtime, configuration>>
  BY DEF MutatePresetStopped
<1>4. CASE UNCHANGED <<preset, graph_version>>
  BY <1>1, <1>3, <1>4 DEF CommandKeeps, Transactional, ServiceTypeOK, RuntimeFits
<1>5. CASE Commit(p) /\ Accepted(r)
  <2>1. preset' = p /\ graph_version' = graph_version + 1 /\ graph_version < MaxVersion
    BY <1>5 DEF Commit
  <2>2. Fits(runtime, p, graph_version + 1, configuration)
    <3>1. CASE runtime = NoRuntime
      BY <3>1 DEF Fits
    <3>2. CASE runtime # NoRuntime
      <4>1. runtime \in Runtimes /\ ~runtime.running
        BY <1>1, <3>2 DEF ServiceTypeOK, MutatePresetStopped, IsRunning
      <4>2. QED
        BY <1>1, <3>2, <4>1, OlderFits DEF RuntimeFits
    <3>3. QED
      BY <3>1, <3>2
  <2>3. graph_version' \in 1 .. MaxVersion
    BY <1>1, <2>1, EngineControlServiceAssumption DEF ServiceTypeOK
  <2>4. reply'.status = "Accepted"
    BY <1>5 DEF Accepted
  <2>5. QED
    BY <1>1, <1>2, <1>3, <2>1, <2>2, <2>3, <2>4 DEF CommandKeeps, ServiceTypeOK, RuntimeFits
<1>6. QED
  BY <1>4, <1>5 DEF MutatePresetStopped

LEMMA MutatePresetRestartKeeps ==
  ASSUME ServiceInv, NEW r \in Requests, MutatePresetRestart(r)
  PROVE  CommandKeeps
<1> DEFINE p == r.command.preset
<1>1. RuntimeFits /\ ServiceTypeOK
  BY FitsIsTheInvariants DEF ServiceInv
<1>2. p \in Presets
  BY RequestTypes DEF MutatePresetRestart
<1>3. UNCHANGED configuration /\ IsRunning(runtime)
  BY DEF MutatePresetRestart
<1>4. configuration \in Configs /\ runtime.preset = preset
  BY <1>1, <1>3 DEF IsRunning, RuntimeFits, Fits, ServiceTypeOK, Runtimes
<1>5. CASE /\ \/ UNCHANGED runtime
              \/ \E out \in StartOutcomes(WithRunning(runtime, FALSE)) : runtime' = out.runtime
           /\ UNCHANGED <<preset, graph_version>>
  <2>1. /\ runtime' \in Runtimes \union {NoRuntime}
        /\ Fits(runtime', preset, graph_version, configuration)
    <3>1. CASE UNCHANGED runtime
      BY <1>1, <3>1 DEF ServiceTypeOK, RuntimeFits
    <3>2. ASSUME NEW out \in StartOutcomes(WithRunning(runtime, FALSE)), runtime' = out.runtime
          PROVE  /\ runtime' \in Runtimes \union {NoRuntime}
                 /\ Fits(runtime', preset, graph_version, configuration)
      BY <1>1, <1>3, <3>2, StoppedFits, StartFits
    <3>3. QED
      BY <1>5, <3>1, <3>2
  <2>2. IsRunning(runtime') => runtime'.preset = runtime.preset
    BY <1>4, <2>1 DEF IsRunning, Fits
  <2>3. QED
    BY <1>1, <1>3, <1>5, <2>1, <2>2 DEF CommandKeeps, Transactional, ServiceTypeOK, RuntimeFits
<1>6. CASE /\ runtime' = WithRunning(Build(configuration, graph_version + 1, p), TRUE)
           /\ Commit(p)
           /\ Accepted(r)
  <2>1. preset' = p /\ graph_version' = graph_version + 1 /\ graph_version < MaxVersion
    BY <1>6 DEF Commit
  <2>2. graph_version + 1 \in Nat /\ graph_version' \in 1 .. MaxVersion
    BY <1>1, <2>1, EngineControlServiceAssumption DEF ServiceTypeOK
  <2>3. runtime' \in Runtimes /\ Fits(runtime', p, graph_version + 1, configuration)
    BY <1>2, <1>4, <1>6, <2>2, NewRuntimeFits
  <2>4. reply'.status = "Accepted"
    BY <1>6 DEF Accepted
  <2>5. QED
    BY <1>1, <1>2, <1>3, <2>1, <2>2, <2>3, <2>4 DEF CommandKeeps, ServiceTypeOK, RuntimeFits
<1>7. QED
  BY <1>5, <1>6 DEF MutatePresetRestart

LEMMA ConfigureKeeps ==
  ASSUME ServiceInv, NEW r \in Requests, ConfigureAudioRuntime(r)
  PROVE  CommandKeeps
<1> DEFINE next == r.command.config
           p    == ReconciledPreset(next)
           v    == ReconciledVersion(next)
<1>1. RuntimeFits /\ ServiceTypeOK
  BY FitsIsTheInvariants DEF ServiceInv
<1>2. next \in Configs
  BY RequestTypes DEF ConfigureAudioRuntime
<1>3. p \in Presets /\ v \in Nat
  BY <1>1, <1>2, ReconciledType
<1>4. CASE ConfigureFailed
  <2>1. UNCHANGED <<preset, graph_version, configuration>>
    BY <1>4 DEF ConfigureFailed
  <2>2. CASE UNCHANGED runtime
    BY <1>1, <2>1, <2>2 DEF CommandKeeps, Transactional, ServiceTypeOK, RuntimeFits
  <2>3. ASSUME IsRunning(runtime), NEW up \in BOOLEAN, runtime' = WithRunning(runtime, up)
        PROVE  CommandKeeps
    <3>1. runtime \in Runtimes
      BY <1>1, <2>3 DEF ServiceTypeOK, IsRunning
    <3>2. /\ runtime' \in Runtimes
          /\ runtime'.config = runtime.config
          /\ runtime'.graph_version = runtime.graph_version
          /\ runtime'.preset = runtime.preset
      BY <2>3, <3>1, WithRunningType
    <3>3. Fits(runtime', preset, graph_version, configuration)
      BY <1>1, <2>3, <3>2 DEF RuntimeFits, Fits, IsRunning
    <3>4. QED
      BY <1>1, <2>1, <3>2, <3>3 DEF CommandKeeps, Transactional, ServiceTypeOK, RuntimeFits
  <2>4. QED
    BY <1>4, <2>2, <2>3 DEF ConfigureFailed
<1>5. CASE ConfigureSucceeded(next) /\ Accepted(r)
  <2>1. /\ runtime' = WithRunning(Build(next, v, p), IsRunning(runtime))
        /\ configuration' = next
        /\ preset' = p
        /\ graph_version' = v
        /\ ChangesTopology(configuration, next) => graph_version < MaxVersion
    BY <1>5 DEF ConfigureSucceeded, Commit, ReconciledPreset, ReconciledVersion
  <2>2. graph_version' \in 1 .. MaxVersion
    BY <1>1, <2>1, EngineControlServiceAssumption DEF ServiceTypeOK, ReconciledVersion
  <2>3. IsRunning(runtime) \in BOOLEAN
    BY <1>1 DEF IsRunning, ServiceTypeOK, Runtimes
  <2>4. runtime' \in Runtimes /\ Fits(runtime', p, v, next)
    BY <1>2, <1>3, <2>1, <2>3, NewRuntimeFits
  <2>5. reply'.status = "Accepted"
    BY <1>5 DEF Accepted
  <2>6. QED
    BY <1>2, <1>3, <2>1, <2>2, <2>4, <2>5 DEF CommandKeeps, RuntimeFits
<1>6. QED
  BY <1>4, <1>5 DEF ConfigureAudioRuntime

-----------------------------------------------------------------------------
(* Requests. *)

\* An executed command is remembered last; the oldest answer makes room.
LEMMA RememberKeeps ==
  ASSUME ServiceTypeOK, IdsAreUnique,
         NEW r \in Requests, Known(r) = {}, reply' \in Replies, Remember(r)
  PROVE  /\ replayed' \in Seq(Answers)
         /\ Len(replayed') <= MaxReplayed
         /\ IdsAreUnique'
<1> DEFINE entry == [request |-> r, status |-> reply'.status]
           kept  == IF Len(replayed) < MaxReplayed THEN replayed ELSE Tail(replayed)
<1>1. replayed \in Seq(Answers) /\ Len(replayed) <= MaxReplayed /\ MaxReplayed \in Nat \ {0}
  BY EngineControlServiceAssumption DEF ServiceTypeOK
<1>2. entry \in Answers /\ entry.request.id = r.id
  BY DEF Answers, Replies
<1>3. \A i \in 1 .. Len(replayed) : replayed[i].request.id # r.id
  BY DEF Known
<1>4. /\ kept \in Seq(Answers)
      /\ Len(kept) < MaxReplayed
      /\ \E d \in {0, 1} : \A i \in 1 .. Len(kept) :
           i + d \in 1 .. Len(replayed) /\ kept[i] = replayed[i + d]
  <2>1. CASE Len(replayed) < MaxReplayed
    BY <1>1, <2>1
  <2>2. CASE Len(replayed) = MaxReplayed
    <3>1. replayed # <<>>
      BY <1>1, <2>2
    <3>2. /\ Tail(replayed) \in Seq(Answers)
          /\ Len(Tail(replayed)) = Len(replayed) - 1
          /\ \A i \in 1 .. Len(Tail(replayed)) : Tail(replayed)[i] = replayed[i + 1]
      BY <1>1, <3>1, HeadTailProperties
    <3>3. QED
      BY <1>1, <2>2, <3>2
  <2>3. QED
    BY <1>1, <2>1, <2>2
<1> HIDE DEF entry, kept
<1>5. replayed' = Append(kept, entry)
  BY DEF Remember, entry, kept
<1>6. /\ replayed' \in Seq(Answers)
      /\ Len(replayed') = Len(kept) + 1
      /\ \A i \in 1 .. Len(kept) : replayed'[i] = kept[i]
      /\ replayed'[Len(kept) + 1] = entry
  BY <1>2, <1>4, <1>5, AppendProperties
<1>7. PICK d \in {0, 1} : \A i \in 1 .. Len(kept) :
        i + d \in 1 .. Len(replayed) /\ kept[i] = replayed[i + d]
  BY <1>4
<1>8. Len(kept) \in Nat
  BY <1>4
<1>9. ASSUME NEW i \in 1 .. Len(replayed'), NEW j \in 1 .. Len(replayed'),
             replayed'[i].request.id = replayed'[j].request.id
      PROVE  i = j
  <2>1. CASE i \in 1 .. Len(kept) /\ j \in 1 .. Len(kept)
    <3>1. /\ i + d \in 1 .. Len(replayed) /\ replayed'[i] = replayed[i + d]
          /\ j + d \in 1 .. Len(replayed) /\ replayed'[j] = replayed[j + d]
      BY <1>6, <1>7, <2>1
    <3>2. replayed[i + d].request.id = replayed[j + d].request.id
      BY <1>9, <3>1
    <3>3. i + d = j + d
      BY <3>1, <3>2 DEF IdsAreUnique
    <3>4. QED
      BY <1>8, <2>1, <3>3
  <2>2. CASE i \in 1 .. Len(kept) /\ j = Len(kept) + 1
    BY <1>2, <1>3, <1>6, <1>7, <1>9, <2>2
  <2>3. CASE i = Len(kept) + 1 /\ j \in 1 .. Len(kept)
    BY <1>2, <1>3, <1>6, <1>7, <1>9, <2>3
  <2>4. QED
    BY <1>6, <1>8, <2>1, <2>2, <2>3
<1>10. QED
  BY <1>1, <1>4, <1>6, <1>8, <1>9 DEF IdsAreUnique

\* A command that is executed keeps the invariant of the service, answers the
\* request it was given and rejects transactionally.
LEMMA ExecuteKeeps ==
  ASSUME ServiceInv, NEW r \in Requests, Execute(r)
  PROVE  /\ ServiceInv'
         /\ reply' \in Replies /\ reply'.request = r
         /\ reply'.status = "Rejected" => Transactional
<1>1. CommandKeeps
  <2>1. CASE Query(r)
    BY <2>1, QueryKeeps
  <2>2. CASE StartAudioRuntime(r)
    BY <2>2, StartKeeps
  <2>3. CASE StopAudioRuntime(r)
    BY <2>3, StopKeeps
  <2>4. CASE UpdateRouteLive(r)
    BY <2>4, UpdateRouteLiveKeeps
  <2>5. CASE MutatePresetStopped(r)
    BY <2>5, MutatePresetStoppedKeeps
  <2>6. CASE MutatePresetRestart(r)
    BY <2>6, MutatePresetRestartKeeps
  <2>7. CASE ConfigureAudioRuntime(r)
    BY <2>7, ConfigureKeeps
  <2>8. QED
    BY <2>1, <2>2, <2>3, <2>4, <2>5, <2>6, <2>7 DEF Execute
<1>2. Accepted(r) \/ Rejected(r)
  <2>1. CASE Query(r)
    BY <2>1 DEF Query
  <2>2. CASE StartAudioRuntime(r)
    BY <2>2 DEF StartAudioRuntime
  <2>3. CASE StopAudioRuntime(r)
    BY <2>3 DEF StopAudioRuntime
  <2>4. CASE UpdateRouteLive(r)
    BY <2>4 DEF UpdateRouteLive
  <2>5. CASE MutatePresetStopped(r)
    BY <2>5 DEF MutatePresetStopped
  <2>6. CASE MutatePresetRestart(r)
    BY <2>6 DEF MutatePresetRestart
  <2>7. CASE ConfigureAudioRuntime(r)
    BY <2>7 DEF ConfigureAudioRuntime
  <2>8. QED
    BY <2>1, <2>2, <2>3, <2>4, <2>5, <2>6, <2>7 DEF Execute
<1>3. reply' \in Replies /\ reply'.request = r
  BY <1>2, AnswerType
<1>4. /\ replayed' \in Seq(Answers)
      /\ Len(replayed') <= MaxReplayed
      /\ IdsAreUnique'
  BY <1>3, RememberKeeps DEF Execute, ServiceInv
<1>5. asio_channels' \in Channels
  BY DEF Execute, ServiceInv, ServiceTypeOK
<1>6. ServiceTypeOK'
  BY <1>1, <1>3, <1>4, <1>5 DEF CommandKeeps, ServiceTypeOK
<1>7. ServiceInv'
  BY <1>1, <1>4, <1>6 DEF CommandKeeps, ServiceInv, RuntimeFits, Fits, RunningGraphIsCommitted,
     VersionIdentifiesGraph, ConfigurationIsRuntimes, RuntimeIsNoLater, IsRunning
<1>8. QED
  BY <1>1, <1>3, <1>7 DEF CommandKeeps

\* The invariant of the service is one of engineVars, but for the type of the
\* answer that waits.
LEMMA EngineUnchanged ==
  ASSUME ServiceInv, UNCHANGED engineVars, reply' \in Replies \union {NoReply}
  PROVE  ServiceInv'
BY DEF engineVars, ServiceInv, ServiceTypeOK, RunningGraphIsCommitted, VersionIdentifiesGraph,
       ConfigurationIsRuntimes, RuntimeIsNoLater, IdsAreUnique, IsRunning

LEMMA HandleWireRequestKeeps ==
  ASSUME ServiceInv, NEW r \in Requests, HandleWireRequest(r)
  PROVE  /\ ServiceInv'
         /\ reply' \in Replies /\ reply'.request = r
         /\ reply'.status = "Rejected" => Transactional
<1>1. CASE ReplayExact(r)
  <2>1. PICK i \in Known(r) : reply' = [request |-> r, status |-> replayed[i].status, cached |-> TRUE]
    BY <1>1 DEF ReplayExact
  <2>2. replayed[i].status \in Statuses
    <3>1. replayed \in Seq(Answers) /\ i \in 1 .. Len(replayed)
      BY <2>1 DEF Known, ServiceInv, ServiceTypeOK
    <3>2. replayed[i] \in Answers
      BY <3>1
    <3>3. QED
      BY <3>2 DEF Answers
  <2>3. reply' \in Replies /\ reply'.request = r
    BY <2>1, <2>2 DEF Replies
  <2>4. Transactional
    BY <1>1 DEF ReplayExact, Transactional, engineVars
  <2>5. QED
    BY <1>1, <2>3, <2>4, EngineUnchanged DEF ReplayExact
<1>2. CASE ReplayConflict(r)
  <2>1. reply' \in Replies /\ reply'.request = r
    BY <1>2, AnswerType DEF ReplayConflict
  <2>2. Transactional
    BY <1>2 DEF ReplayConflict, Transactional, engineVars
  <2>3. QED
    BY <1>2, <2>1, <2>2, EngineUnchanged DEF ReplayConflict
<1>3. CASE Execute(r)
  BY <1>3, ExecuteKeeps
<1>4. QED
  BY <1>1, <1>2, <1>3 DEF HandleWireRequest

LEMMA RuntimeStopsKeeps ==
  ASSUME ServiceInv, RuntimeStops
  PROVE  ServiceInv'
<1>1. /\ runtime' \in Runtimes
      /\ Fits(runtime', preset, graph_version, configuration)
  BY StoppedFits DEF RuntimeStops
<1>2. UNCHANGED <<preset, graph_version, configuration, replayed, asio_channels, reply>>
  BY DEF RuntimeStops
<1>3. ServiceTypeOK' /\ IdsAreUnique'
  BY <1>1, <1>2 DEF ServiceInv, ServiceTypeOK, IdsAreUnique
<1>4. QED
  BY <1>1, <1>2, <1>3 DEF ServiceInv, Fits, RunningGraphIsCommitted,
     VersionIdentifiesGraph, ConfigurationIsRuntimes, RuntimeIsNoLater, IsRunning

\* Only a preset command that is accepted, and a configuration, change the preset.
LEMMA PresetIsKept ==
  ASSUME ServiceInv, NEW r \in Requests, HandleWireRequest(r),
         ~(reply'.status = "Accepted" /\ r.command.type \in {"SetGain", "LoadPreset"}),
         r.command.type # "Configure"
  PROVE  preset' = preset
<1>1. reply'.status \in Statuses
  BY HandleWireRequestKeeps DEF Replies
<1>2. CASE reply'.status = "Rejected"
  BY <1>2, HandleWireRequestKeeps DEF Transactional
<1>3. CASE reply'.status = "Accepted"
  <2>1. ~(r.command.type \in {"SetGain", "LoadPreset"})
    BY <1>3
  <2>2. CASE ReplayExact(r)
    BY <2>2 DEF ReplayExact, engineVars
  <2>3. CASE ReplayConflict(r)
    BY <2>3 DEF ReplayConflict, engineVars
  <2>4. CASE Execute(r)
    BY <2>1, <2>4 DEF Execute, Query, StartAudioRuntime, StopAudioRuntime, UpdateRouteLive,
       MutatePresetStopped, MutatePresetRestart, ConfigureAudioRuntime
  <2>5. QED
    BY <2>2, <2>3, <2>4 DEF HandleWireRequest
<1>4. QED
  BY <1>1, <1>2, <1>3 DEF Statuses

-----------------------------------------------------------------------------
(* The session: start and restart. *)

LEMMA DefaultSessionType == DefaultSession \in Sessions
<1>1. ChannelTotal(DefaultDevices) \in Channels /\ UnityGain \in Gains
  BY EngineSessionAssumption, EngineControlServiceAssumption
<1> DEFINE gain == [group \in PortGroups |-> IF group = LegacyPorts THEN UnityGain ELSE NoRoutes]
<1>2. gain \in [PortGroups -> RouteGains]
  BY <1>1 DEF RouteGains
<1>3. DefaultSession.preset = [channels |-> ChannelTotal(DefaultDevices),
                               lettered |-> (ChannelTotal(DefaultDevices) = 2),
                               ports |-> {LegacyPorts}, gain |-> gain]
  BY DEF DefaultSession, InitialPreset
<1> HIDE DEF gain
<1>4. (ChannelTotal(DefaultDevices) = 2) \in BOOLEAN
  OBVIOUS
<1>5. DefaultSession.preset \in Presets
  BY <1>1, <1>2, <1>3, <1>4 DEF Presets, PortGroups
<1>6. QED
  BY <1>5, EngineSessionAssumption DEF DefaultSession, Sessions

LEMMA LoadedType ==
  ASSUME SessionTypeOK
  PROVE  Loaded \in Sessions
BY DefaultSessionType DEF Loaded, SessionTypeOK

\* A change of the devices keeps a session a session.
LEMMA CandidateType ==
  ASSUME SessionTypeOK, NEW devices \in Topologies
  PROVE  /\ Candidate(devices) \in Sessions
         /\ Candidate(devices).audio_runtime = desired.audio_runtime
         /\ Candidate(devices).auto_start = desired.auto_start
<1>1. desired \in Sessions /\ ChannelTotal(devices) \in Channels
  BY EngineSessionAssumption DEF SessionTypeOK
<1> DEFINE n == ChannelTotal(devices)
           q == desired.preset
           p == Resized(q, n)
<1>2. p \in Presets
  <2>1. q \in Presets
    BY <1>1 DEF Sessions
  <2>2. [group \in PortGroups |-> NoRoutes] \in [PortGroups -> RouteGains]
    BY DEF RouteGains
  <2> HIDE DEF n, q
  <2>3. QED
    BY <1>1, <2>1, <2>2 DEF Resized, Presets, n
<1>3. Candidate(devices) = [desired EXCEPT !.devices = devices, !.preset = p]
  BY <1>1 DEF Candidate, Sessions
<1> HIDE DEF p
<1>4. QED
  BY <1>1, <1>2, <1>3 DEF Sessions

\* The runtime of the saved session, configured in a new process.
LEMMA RestoreKeeps ==
  ASSUME NEW session \in Sessions, RestoreRuntime(session),
         replayed' = <<>>, asio_channels' \in Channels, reply' \in Replies \union {NoReply}
  PROVE  ServiceInv'
<1> DEFINE next == session.audio_runtime
           p    == IF ChangesTopology(NoConfig, next)
                   THEN Reconcile(session.preset, NoConfig, next) ELSE session.preset
           v    == IF ChangesTopology(NoConfig, next) THEN 2 ELSE 1
<1>1. session.preset \in Presets /\ next \in Configs \union {NoConfig} /\ session.auto_start \in BOOLEAN
  BY DEF Sessions
<1>2. p \in Presets
  BY <1>1, PresetEdits
<1>3. v \in Nat /\ v \in 1 .. MaxVersion /\ 1 \in 1 .. MaxVersion
  BY EngineControlServiceAssumption
<1>4. \/ /\ preset' = session.preset /\ graph_version' = 1
         /\ runtime' = NoRuntime /\ configuration' = NoConfig
      \/ /\ next # NoConfig
         /\ preset' = p /\ graph_version' = v
         /\ configuration' = next
         /\ \E up \in {session.auto_start, FALSE} : runtime' = WithRunning(Build(next, v, p), up)
  BY DEF RestoreRuntime
<1> HIDE DEF p, v
<1>5. /\ preset' \in Presets
      /\ graph_version' \in 1 .. MaxVersion
      /\ runtime' \in Runtimes \union {NoRuntime}
      /\ configuration' \in Configs \union {NoConfig}
      /\ RuntimeFits'
  <2>1. CASE /\ preset' = session.preset /\ graph_version' = 1
             /\ runtime' = NoRuntime /\ configuration' = NoConfig
    BY <1>1, <1>3, <2>1 DEF RuntimeFits, Fits
  <2>2. ASSUME next # NoConfig, preset' = p, graph_version' = v, configuration' = next,
               NEW up \in {session.auto_start, FALSE}, runtime' = WithRunning(Build(next, v, p), up)
        PROVE  /\ preset' \in Presets
               /\ graph_version' \in 1 .. MaxVersion
               /\ runtime' \in Runtimes
               /\ configuration' \in Configs
               /\ RuntimeFits'
    <3>1. up \in BOOLEAN /\ next \in Configs
      BY <1>1, <2>2
    <3>2. runtime' \in Runtimes /\ Fits(runtime', p, v, next)
      BY <1>2, <1>3, <2>2, <3>1, NewRuntimeFits
    <3>3. QED
      BY <1>2, <1>3, <2>2, <3>1, <3>2 DEF RuntimeFits
  <2>3. QED
    BY <1>4, <2>1, <2>2
<1>6. /\ replayed' \in Seq(Answers) /\ Len(replayed') <= MaxReplayed
      /\ IdsAreUnique'
  BY EngineControlServiceAssumption DEF IdsAreUnique
<1>7. QED
  BY <1>5, <1>6 DEF ServiceInv, ServiceTypeOK, RuntimeFits, Fits, RunningGraphIsCommitted,
     VersionIdentifiesGraph, ConfigurationIsRuntimes, RuntimeIsNoLater, IsRunning

-----------------------------------------------------------------------------
(* The session: every step. *)

Invariant == ServiceInv /\ SessionInv

LEMMA InitInvariant == Init => Invariant
<1> SUFFICES ASSUME Init
             PROVE  Invariant
  OBVIOUS
<1>1. DefaultSession \in Sessions
  BY DefaultSessionType
<1>2. /\ preset \in Presets
      /\ preset.channels \in Channels
  BY <1>1 DEF Init, Created, Sessions, Presets
<1>3. ServiceTypeOK /\ IdsAreUnique
  BY <1>2, EngineControlServiceAssumption DEF Init, Created, ServiceTypeOK, IdsAreUnique
<1>4. ServiceInv
  BY <1>3 DEF ServiceInv, Init, Created, RunningGraphIsCommitted, VersionIdentifiesGraph,
     ConfigurationIsRuntimes, RuntimeIsNoLater, IsRunning
<1>5. SessionInv
  BY <1>1 DEF Init, Created, SessionInv, SessionTypeOK, OneInProgress, DesiredFollows, FileFollows,
     UnreadableIsKept, CandidateFollows, Up
<1>6. QED
  BY <1>4, <1>5 DEF Invariant

LEMMA StartupKeeps ==
  ASSUME Invariant, Startup
  PROVE  Invariant'
<1>1. SessionTypeOK /\ Loaded \in Sessions
  BY LoadedType DEF Invariant, SessionInv
<1>2. Loaded.devices \in Topologies
  BY <1>1 DEF Sessions
<1>3. asio_channels' \in Channels
  BY <1>2, EngineSessionAssumption DEF Startup
<1>4. reply = NoReply /\ topology = NoTopology /\ reply' = reply /\ topology' = topology
  BY DEF Startup, registryVars, Invariant, SessionInv, OneInProgress, Up
<1>5. ServiceInv'
  BY <1>1, <1>3, <1>4, RestoreKeeps DEF Startup
<1>6. desired' = Loaded /\ phase' = "serving" /\ writes_allowed' = (file # UnreadableFile)
      /\ file' = (IF file = MissingFile THEN Loaded ELSE file) /\ save_ok' = TRUE
      /\ unmerged' = (preset' # Loaded.preset)
  BY DEF Startup
<1>7. SessionTypeOK'
  BY <1>1, <1>4, <1>6 DEF SessionTypeOK
<1>8. file # UnreadableFile => file' = Loaded
  BY <1>6 DEF Loaded
<1>9. Loaded # UnreadableFile
  BY <1>1, MarksAssumption
<1>10. SessionInv'
  BY <1>4, <1>5, <1>6, <1>7, <1>8, <1>9 DEF SessionInv, OneInProgress, DesiredFollows, FileFollows,
     UnreadableIsKept, CandidateFollows
<1>11. QED
  BY <1>5, <1>10 DEF Invariant

LEMMA ReceiveRequestKeeps ==
  ASSUME Invariant, NEW r \in Requests, ReceiveRequest(r)
  PROVE  Invariant'
<1>1. HandleWireRequest(r) /\ ServiceInv /\ SessionInv
  BY DEF ReceiveRequest, Invariant
<1>2. ServiceInv' /\ reply' \in Replies /\ reply'.request = r
  BY <1>1, HandleWireRequestKeeps
<1>3. /\ UNCHANGED <<phase, desired, file, writes_allowed, save_ok, topology>>
      /\ unmerged' = (unmerged \/ (r.command.type = "Configure" /\ preset' # preset))
  BY DEF ReceiveRequest, registryVars
<1>4. Up /\ reply = NoReply /\ topology = NoTopology
  BY DEF ReceiveRequest, Idle
<1>5. reply' # NoReply
  BY <1>2, CommandsAssumption
<1>6. ~PresetAnswer' /\ ~unmerged' => preset' = preset
  BY <1>1, <1>2, <1>3, <1>5, PresetIsKept DEF PresetAnswer
<1>7. phase = "serving" /\ writes_allowed /\ ~unmerged => desired.preset = preset
  BY <1>1, <1>4 DEF SessionInv, DesiredFollows, PresetAnswer
<1>8. DesiredFollows'
  BY <1>3, <1>6, <1>7 DEF DesiredFollows
<1>9. SessionInv'
  BY <1>1, <1>3, <1>4, <1>8 DEF SessionInv, SessionTypeOK, OneInProgress, FileFollows,
     UnreadableIsKept, CandidateFollows, Up
<1>10. QED
  BY <1>2, <1>9 DEF Invariant

\* The merge of an accepted answer.
LEMMA MergedType ==
  ASSUME ServiceTypeOK, SessionTypeOK, NEW command \in Commands, ChangesPersisted(command)
  PROVE  /\ Merged(command) \in Sessions
         /\ Merged(command).devices = desired.devices
         /\ Merged(command).preset =
              IF command.type \in {"SetGain", "LoadPreset"} THEN preset ELSE desired.preset
         /\ command.type \in {"SetGain", "LoadPreset"} =>
              /\ Merged(command).audio_runtime = desired.audio_runtime
              /\ Merged(command).auto_start = desired.auto_start
<1>1. desired \in Sessions /\ preset \in Presets /\ IsRunning(runtime) \in BOOLEAN
  BY DEF SessionTypeOK, ServiceTypeOK, IsRunning, Runtimes
<1>2. CASE command.type \in {"SetGain", "LoadPreset"}
  <2>1. Merged(command) = [desired EXCEPT !.preset = preset]
    BY <1>2 DEF Merged
  <2>2. QED
    BY <1>1, <1>2, <2>1 DEF Sessions
<1>3. CASE command.type = "Configure"
  <2>1. Merged(command) = [desired EXCEPT !.audio_runtime = command.config,
                                          !.auto_start = IsRunning(runtime)]
    BY <1>3 DEF Merged
  <2>2. command.config \in Configs
    BY <1>3 DEF Commands
  <2>3. QED
    BY <1>1, <1>3, <2>1, <2>2 DEF Sessions
<1>4. CASE command.type \in {"Start", "Stop"}
  <2>1. Merged(command) = [desired EXCEPT !.auto_start = (command.type = "Start")]
    BY <1>4 DEF Merged
  <2>2. QED
    BY <1>1, <1>4, <2>1 DEF Sessions
<1>5. command.type \in {"Start", "Stop", "SetGain", "LoadPreset", "Configure"}
  BY DEF Commands, ChangesPersisted
<1>6. QED
  BY <1>2, <1>3, <1>4, <1>5

LEMMA MergeAndSaveKeeps ==
  ASSUME Invariant, MergeAndSave
  PROVE  Invariant'
<1> DEFINE command == reply.request.command
<1>1. ServiceInv /\ ServiceTypeOK /\ SessionInv /\ SessionTypeOK
  BY DEF Invariant, ServiceInv, SessionInv
<1>2. /\ reply # NoReply /\ reply' = NoReply
      /\ UNCHANGED engineVars /\ UNCHANGED <<phase, writes_allowed, topology>>
  BY DEF MergeAndSave, registryVars
<1>3. ServiceInv'
  BY <1>1, <1>2, EngineUnchanged
<1>4. reply \in Replies /\ command \in Commands /\ Up /\ topology = NoTopology
  BY <1>1, <1>2 DEF ServiceTypeOK, SessionInv, OneInProgress, Replies, Requests
<1>5. preset' = preset
  BY <1>2 DEF engineVars
<1>6. CASE /\ writes_allowed /\ ChangesPersisted(command) /\ reply.status = "Accepted"
  <2>1. /\ desired' = Merged(command) /\ Saved(desired')
        /\ unmerged' = (unmerged /\ command.type \notin {"SetGain", "LoadPreset"})
    BY <1>6 DEF MergeAndSave
  <2>2. /\ desired' \in Sessions
        /\ desired'.preset = IF command.type \in {"SetGain", "LoadPreset"}
                             THEN preset ELSE desired.preset
    BY <1>1, <1>4, <1>6, <2>1, MergedType
  <2>3. phase = "serving" /\ command.type \notin {"SetGain", "LoadPreset"} /\ ~unmerged
          => desired.preset = preset
    BY <1>1, <1>4, <1>6 DEF SessionInv, DesiredFollows, PresetAnswer
  <2>4. phase = "serving" /\ ~unmerged' => desired'.preset = preset'
    BY <1>5, <2>1, <2>2, <2>3
  <2>5. \/ save_ok' = TRUE /\ file' = desired'
        \/ save_ok' = FALSE /\ file' = file
    BY <2>1 DEF Saved
  <2>6. desired' # UnreadableFile
    BY <2>2, MarksAssumption
  <2>7. unmerged' \in BOOLEAN
    BY <1>1, <2>1 DEF SessionTypeOK
  <2>8. SessionTypeOK'
    BY <1>1, <1>2, <2>2, <2>5, <2>7 DEF SessionTypeOK
  <2>9. file' # UnreadableFile
    BY <1>1, <1>4, <1>6, <2>5, <2>6 DEF SessionInv, UnreadableIsKept
  <2>10. SessionInv'
    BY <1>2, <1>4, <2>4, <2>5, <2>8, <2>9 DEF SessionInv, OneInProgress, DesiredFollows,
       FileFollows, UnreadableIsKept, CandidateFollows
  <2>11. QED
    BY <1>3, <2>10 DEF Invariant
<1>7. CASE ~(writes_allowed /\ ChangesPersisted(command) /\ reply.status = "Accepted")
  <2>1. UNCHANGED <<desired, file, save_ok, unmerged>>
    BY <1>7 DEF MergeAndSave
  <2>2. writes_allowed => ~PresetAnswer
    BY <1>7 DEF PresetAnswer, ChangesPersisted
  <2>3. DesiredFollows'
    BY <1>1, <1>2, <1>4, <1>5, <2>1, <2>2 DEF SessionInv, DesiredFollows
  <2>4. SessionInv'
    BY <1>1, <1>2, <1>4, <2>1, <2>3 DEF SessionInv, SessionTypeOK, OneInProgress, FileFollows,
       UnreadableIsKept, CandidateFollows, Up
  <2>5. QED
    BY <1>3, <2>4 DEF Invariant
<1>8. QED
  BY <1>6, <1>7

LEMMA ConfigureDevicesKeeps ==
  ASSUME Invariant, NEW devices \in Topologies, ConfigureVirtualAsioDevices(devices)
  PROVE  Invariant'
<1>1. SessionInv /\ SessionTypeOK /\ ServiceInv
  BY DEF Invariant, SessionInv
<1>2. UNCHANGED <<serviceVars, sessionVars>> /\ Up /\ reply = NoReply /\ writes_allowed
  BY DEF ConfigureVirtualAsioDevices, Idle
<1>3. topology' = Candidate(devices) \/ topology' = NoTopology
  BY DEF ConfigureVirtualAsioDevices
<1>4. topology' \in Sessions \union {NoTopology} /\ CandidateFollows'
  BY <1>1, <1>2, <1>3, CandidateType DEF CandidateFollows, sessionVars
<1>5. reply' \in Replies \union {NoReply}
  BY <1>1, <1>2 DEF serviceVars, ServiceInv, ServiceTypeOK
<1>6. ServiceInv'
  BY <1>1, <1>2, <1>5, EngineUnchanged DEF serviceVars
<1>7. SessionInv'
  BY <1>1, <1>2, <1>4 DEF SessionInv, SessionTypeOK, OneInProgress, DesiredFollows, PresetAnswer,
     FileFollows, UnreadableIsKept, Up, serviceVars, engineVars, sessionVars
<1>8. QED
  BY <1>6, <1>7 DEF Invariant

LEMMA TopologySavedKeeps ==
  ASSUME Invariant, TopologySaved
  PROVE  Invariant'
<1>1. SessionInv /\ SessionTypeOK /\ ServiceInv
  BY DEF Invariant, SessionInv
<1>2. /\ UNCHANGED serviceVars /\ UNCHANGED <<writes_allowed, unmerged>>
      /\ topology # NoTopology /\ topology' = NoTopology
      /\ desired' = topology /\ file' = topology /\ save_ok' = TRUE /\ phase' = "stopping"
  BY DEF TopologySaved
<1>3. topology \in Sessions /\ topology # UnreadableFile
  BY <1>1, <1>2, MarksAssumption DEF SessionTypeOK
<1>4. Up /\ reply = NoReply /\ writes_allowed
  BY <1>1, <1>2 DEF SessionInv, OneInProgress
<1>6. reply' = NoReply
  BY <1>2, <1>4 DEF serviceVars
<1>7. ServiceInv'
  BY <1>1, <1>2, <1>6, EngineUnchanged DEF serviceVars
<1>8. SessionTypeOK'
  BY <1>1, <1>2, <1>3 DEF SessionTypeOK
<1>9. SessionInv'
  BY <1>2, <1>3, <1>6, <1>8 DEF SessionInv, OneInProgress, DesiredFollows,
     FileFollows, UnreadableIsKept, CandidateFollows, Up
<1>10. QED
  BY <1>7, <1>9 DEF Invariant

LEMMA TopologySaveFailedKeeps ==
  ASSUME Invariant, TopologySaveFailed
  PROVE  Invariant'
<1>1. SessionInv /\ SessionTypeOK /\ ServiceInv
  BY DEF Invariant, SessionInv
<1>2. /\ UNCHANGED serviceVars /\ UNCHANGED <<phase, desired, file, writes_allowed, unmerged>>
      /\ topology' = NoTopology /\ save_ok' = FALSE
  BY DEF TopologySaveFailed
<1>3. reply' \in Replies \union {NoReply}
  BY <1>1, <1>2 DEF serviceVars, ServiceInv, ServiceTypeOK
<1>4. ServiceInv'
  BY <1>1, <1>2, <1>3, EngineUnchanged DEF serviceVars
<1>5. SessionInv'
  BY <1>1, <1>2 DEF SessionInv, SessionTypeOK, OneInProgress, DesiredFollows, PresetAnswer,
     FileFollows, UnreadableIsKept, CandidateFollows, Up, serviceVars, engineVars
<1>6. QED
  BY <1>4, <1>5 DEF Invariant

\* A process that has ended, or refused to start, owes nothing but its types.
LEMMA EndedKeeps ==
  ASSUME Invariant, phase' \in {"down", "refused"},
         UNCHANGED <<engineVars, desired, writes_allowed, unmerged>>,
         reply' = NoReply, topology' = NoTopology,
         file' \in Sessions \union {MissingFile, UnreadableFile}, save_ok' \in BOOLEAN
  PROVE  Invariant'
<1>1. SessionInv /\ SessionTypeOK /\ ServiceInv
  BY DEF Invariant, SessionInv
<1>2. ServiceInv'
  BY <1>1, EngineUnchanged
<1>3. SessionInv'
  BY <1>1 DEF SessionInv, SessionTypeOK, OneInProgress, DesiredFollows,
     FileFollows, UnreadableIsKept, CandidateFollows, Up
<1>4. QED
  BY <1>2, <1>3 DEF Invariant

LEMMA EndKeeps ==
  ASSUME Invariant, \/ RefuseToStart \/ Shutdown \/ Crash
                    \/ \E devices \in Topologies : CrashRegistering(devices)
  PROVE  Invariant'
<1>1. SessionInv /\ SessionTypeOK
  BY DEF Invariant, SessionInv
<1>2. CASE RefuseToStart
  <2>1. reply = NoReply /\ topology = NoTopology
    BY <1>1, <1>2 DEF RefuseToStart, SessionInv, OneInProgress, Up
  <2>2. QED
    BY <1>1, <1>2, <2>1, EndedKeeps DEF RefuseToStart, serviceVars, registryVars, SessionTypeOK
<1>3. CASE Shutdown
  <2>1. \/ file' = file /\ save_ok' \in {save_ok, FALSE}
        \/ file' = desired /\ save_ok' = TRUE
    <3>1. CASE writes_allowed
      BY <1>3, <3>1 DEF Shutdown, Saved
    <3>2. CASE ~writes_allowed
      BY <1>3, <3>2 DEF Shutdown
    <3>3. QED
      BY <3>1, <3>2
  <2>2. file' \in Sessions \union {MissingFile, UnreadableFile} /\ save_ok' \in BOOLEAN
    BY <1>1, <2>1 DEF SessionTypeOK
  <2>3. QED
    BY <1>3, <2>2, EndedKeeps DEF Shutdown, Idle, serviceVars, registryVars
<1>4. CASE Crash
  BY <1>1, <1>4, EndedKeeps DEF Crash, SessionTypeOK
<1>5. ASSUME NEW devices \in Topologies, CrashRegistering(devices)
      PROVE  Invariant'
  BY <1>1, <1>5, EndedKeeps DEF CrashRegistering, Idle, serviceVars, SessionTypeOK
<1>6. QED
  BY <1>2, <1>3, <1>4, <1>5

LEMMA RequestStopKeeps ==
  ASSUME Invariant, RequestStop \/ UNCHANGED vars
  PROVE  Invariant'
<1>1. SessionInv /\ SessionTypeOK /\ ServiceInv
  BY DEF Invariant, SessionInv
<1>2. /\ UNCHANGED <<serviceVars, desired, file, writes_allowed, save_ok, unmerged, topology>>
      /\ phase' = phase \/ (phase = "serving" /\ phase' = "stopping")
  BY DEF RequestStop, vars, appVars, sessionVars, registryVars
<1>3. reply' \in Replies \union {NoReply}
  BY <1>1, <1>2 DEF serviceVars, ServiceInv, ServiceTypeOK
<1>4. ServiceInv'
  BY <1>1, <1>2, <1>3, EngineUnchanged DEF serviceVars
<1>5. SessionInv'
  BY <1>1, <1>2 DEF SessionInv, SessionTypeOK, OneInProgress, DesiredFollows, PresetAnswer,
     FileFollows, UnreadableIsKept, CandidateFollows, Up, serviceVars, engineVars
<1>6. QED
  BY <1>4, <1>5 DEF Invariant

LEMMA RuntimeStopsAloneKeeps ==
  ASSUME Invariant, RuntimeStopsAlone
  PROVE  Invariant'
<1>1. SessionInv /\ ServiceInv /\ RuntimeStops /\ UNCHANGED appVars
  BY DEF Invariant, RuntimeStopsAlone
<1>2. ServiceInv' /\ UNCHANGED <<preset, reply>>
  BY <1>1, RuntimeStopsKeeps DEF RuntimeStops
<1>3. SessionInv'
  BY <1>1, <1>2 DEF SessionInv, SessionTypeOK, OneInProgress, DesiredFollows, PresetAnswer,
     FileFollows, UnreadableIsKept, CandidateFollows, Up, appVars, sessionVars, registryVars
<1>4. QED
  BY <1>2, <1>3 DEF Invariant

LEMMA StepInvariant == Invariant /\ [Next]_vars => Invariant'
<1> SUFFICES ASSUME Invariant, [Next]_vars
             PROVE  Invariant'
  OBVIOUS
<1>1. CASE Startup
  BY <1>1, StartupKeeps
<1>2. ASSUME NEW r \in Requests, ReceiveRequest(r)
      PROVE  Invariant'
  BY <1>2, ReceiveRequestKeeps
<1>3. CASE MergeAndSave
  BY <1>3, MergeAndSaveKeeps
<1>4. ASSUME NEW devices \in Topologies, ConfigureVirtualAsioDevices(devices)
      PROVE  Invariant'
  BY <1>4, ConfigureDevicesKeeps
<1>5. CASE TopologySaved
  BY <1>5, TopologySavedKeeps
<1>6. CASE TopologySaveFailed
  BY <1>6, TopologySaveFailedKeeps
<1>7. CASE \/ RefuseToStart \/ Shutdown \/ Crash
           \/ \E devices \in Topologies : CrashRegistering(devices)
  BY <1>7, EndKeeps
<1>8. CASE RequestStop \/ UNCHANGED vars
  BY <1>8, RequestStopKeeps
<1>9. CASE RuntimeStopsAlone
  BY <1>9, RuntimeStopsAloneKeeps
<1>10. QED
  BY <1>1, <1>2, <1>3, <1>4, <1>5, <1>6, <1>7, <1>8, <1>9 DEF Next

-----------------------------------------------------------------------------
(* Induction over the naturals. *)

LEMMA LeastNatural ==
  ASSUME NEW T, T \subseteq Nat, T # {}
  PROVE  \E x \in T : \A y \in T : x <= y
<1> DEFINE Below == {1 .. n : n \in T}
           Smaller == StrictSubsetOrdering(Nat)
<1>1. IsWellFoundedOn(Smaller, FiniteSubsetsOf(Nat))
  BY FS_StrictSubsetOrderingWellFounded
<1>2. Below \subseteq FiniteSubsetsOf(Nat)
  <2>1. \A n \in T : IsFiniteSet(1 .. n)
    BY FS_Interval
  <2> QED BY <2>1 DEF FiniteSubsetsOf
<1>3. Below # {}
  OBVIOUS
<1>4. PICK s \in Below : \A t \in Below : ~(<<t, s>> \in Smaller)
  <2> HIDE DEF Below, Smaller
  <2> QED BY <1>1, <1>2, <1>3, WFMin
<1>5. PICK x \in T : s = 1 .. x
  OBVIOUS
<1>6. ASSUME NEW y \in T PROVE x <= y
  <2>1. SUFFICES ASSUME y < x PROVE FALSE
    OBVIOUS
  <2>2. x \in Nat /\ y \in Nat /\ x \in 1 .. x /\ x \notin 1 .. y
    BY <2>1
  <2>3. 1 .. y \subseteq 1 .. x
    BY <2>1, <2>2
  <2>3a. 1 .. x \subseteq Nat
    BY <2>2
  <2>4. <<1 .. y, 1 .. x>> \in Smaller
    BY <2>2, <2>3, <2>3a DEF StrictSubsetOrdering
  <2>5. 1 .. y \in Below
    OBVIOUS
  <2> HIDE DEF Below, Smaller
  <2> QED BY <1>4, <1>5, <2>4, <2>5
<1> QED BY <1>6

\* Induction, for a set of naturals.
LEMMA Induction ==
  ASSUME NEW T, 0 \in T, \A n \in Nat : n \in T => n + 1 \in T
  PROVE  Nat \subseteq T
<1> DEFINE Rest == Nat \ T
<1>1. SUFFICES ASSUME Rest # {} PROVE FALSE
  OBVIOUS
<1>2. PICK x \in Rest : \A y \in Rest : x <= y
  <2>1. Rest \subseteq Nat
    OBVIOUS
  <2> HIDE DEF Rest
  <2> QED BY <1>1, <2>1, LeastNatural
<1>3. x # 0 /\ x \in Nat /\ x - 1 \in Nat
  OBVIOUS
<1>4. x - 1 \in Rest
  BY <1>3
<1> QED BY <1>2, <1>3, <1>4

-----------------------------------------------------------------------------
(* The registrations. *)

\* Devices of which no name leads to two classes and no class has two names.
Alike(D) ==
  /\ \A d \in D : d.clsid \in Clsids /\ d.registry_name \in RegistryNames
  /\ \A d, e \in D : d.clsid = e.clsid <=> d.registry_name = e.registry_name

\* A class no driver of ours serves leads nowhere: its entry is not listed.
Honest(r, D) == \A d \in D : r.class[d.clsid] # OwnDll => r.discovery[d.registry_name] = Absent

\* A registry with entries of these devices only.
Within(r, D) ==
  r \in Registries /\ Honest(r, D) /\ Listed(r) \subseteq {d.registry_name : d \in D}

NamesOf(devices) == {devices[i].registry_name : i \in DOMAIN devices}

\* The devices of two lists.
Both(t, u) == {t[i] : i \in DOMAIN t} \union {u[i] : i \in DOMAIN u}

\* What is known of a list by itself.
LEMMA ListFacts ==
  ASSUME NEW t \in Topologies
  PROVE  /\ Len(t) \in Nat /\ DOMAIN t = 1 .. Len(t)
         /\ \A i \in DOMAIN t : t[i].clsid \in Clsids /\ t[i].registry_name \in RegistryNames
         /\ \A i, j \in DOMAIN t : t[i].clsid = t[j].clsid <=> t[i].registry_name = t[j].registry_name
<1>1. t \in Seq([clsid : Clsids, registry_name : RegistryNames, channels : Nat]) /\ ValidDevices(t)
  BY EngineSessionAssumption
<1>2. Len(t) \in Nat /\ DOMAIN t = 1 .. Len(t)
  BY <1>1
<1>3. ASSUME NEW i \in DOMAIN t
      PROVE  t[i].clsid \in Clsids /\ t[i].registry_name \in RegistryNames
  <2>1. t[i] \in [clsid : Clsids, registry_name : RegistryNames, channels : Nat]
    BY <1>1, <1>2, ElementOfSeq
  <2>2. QED
    BY <2>1
<1>4. ASSUME NEW i \in DOMAIN t, NEW j \in DOMAIN t
      PROVE  t[i].clsid = t[j].clsid <=> t[i].registry_name = t[j].registry_name
  BY <1>1 DEF ValidDevices
<1>5. QED
  BY <1>2, <1>3, <1>4

\* Two lists of which the one renames no device of the other.
LEMMA BothAlike ==
  ASSUME NEW t \in Topologies, NEW u \in Topologies, ~Renames(t, u)
  PROVE  Alike(Both(t, u)) /\ Both(t, u) = Both(u, t) /\ ~Renames(u, t)
<1>1. ~Renames(u, t)
  BY DEF Renames
<1>2. \A d \in Both(t, u) : d.clsid \in Clsids /\ d.registry_name \in RegistryNames
  BY ListFacts DEF Both
<1>3. ASSUME NEW d \in Both(t, u), NEW e \in Both(t, u)
      PROVE  d.clsid = e.clsid <=> d.registry_name = e.registry_name
  <2>1. CASE (\E i \in DOMAIN t : d = t[i]) /\ (\E j \in DOMAIN t : e = t[j])
    BY <2>1, ListFacts
  <2>2. CASE (\E i \in DOMAIN u : d = u[i]) /\ (\E j \in DOMAIN u : e = u[j])
    BY <2>2, ListFacts
  <2>3. CASE (\E i \in DOMAIN t : d = t[i]) /\ (\E j \in DOMAIN u : e = u[j])
    BY <2>3 DEF Renames
  <2>4. CASE (\E i \in DOMAIN u : d = u[i]) /\ (\E j \in DOMAIN t : e = t[j])
    BY <1>1, <2>4 DEF Renames
  <2>5. QED
    BY <2>1, <2>2, <2>3, <2>4 DEF Both
<1>4. Both(t, u) = Both(u, t)
  BY DEF Both
<1>5. QED
  BY <1>1, <1>2, <1>3, <1>4 DEF Alike

\* The registries that Register() leaves: a class key written or not, an entry or not.
LEMMA RegisterLeaves ==
  ASSUME NEW r \in Registries, NEW d, d.clsid \in Clsids, d.registry_name \in RegistryNames,
         NEW o \in Register(r, d)
  PROVE  /\ o.ok \in BOOLEAN
         /\ o.registry \in Registries
         /\ o.ok => Verified(o.registry, d)
         /\ \A c \in Clsids : c # d.clsid => o.registry.class[c] = r.class[c]
         /\ \A name \in RegistryNames :
              name # d.registry_name => o.registry.discovery[name] = r.discovery[name]
         /\ o.registry.class[d.clsid] # OwnDll =>
              r.class[d.clsid] # OwnDll /\ o.registry.discovery = r.discovery
         /\ r.discovery[d.registry_name] = d.clsid => o.registry.discovery[d.registry_name] = d.clsid
<1> DEFINE named   == [r EXCEPT !.class[d.clsid] = KeyOrBlank(@)]
           served  == [named EXCEPT !.class[d.clsid] = OwnDll]
           listed  == [served EXCEPT !.discovery[d.registry_name] = KeyOrBlank(@)]
           leading == [listed EXCEPT !.discovery[d.registry_name] = d.clsid]
<1>1. d.clsid \in Clsids /\ d.registry_name \in RegistryNames
  OBVIOUS
<1> DEFINE written == {r, named, served, listed, leading}
<1>2a. Verified(leading, d) \in BOOLEAN
  BY DEF Verified
<1>2b. o \in {Outcome(FALSE, x) : x \in written} \union {Outcome(Verified(leading, d), leading)}
  BY DEF Register
<1> HIDE DEF named, served, listed, leading
<1>3. /\ o.ok \in BOOLEAN /\ o.registry \in {r, named, served, listed, leading}
      /\ o.ok => o.registry = leading /\ Verified(leading, d)
  <2>1. CASE o \in {Outcome(FALSE, x) : x \in written}
    <3>1. PICK x \in written : o = Outcome(FALSE, x)
      BY <2>1
    <3>2. o.ok = FALSE /\ o.registry = x
      BY <3>1 DEF Outcome
    <3>3. QED
      BY <3>2
  <2>2. CASE o = Outcome(Verified(leading, d), leading)
    <3>1. o.ok = Verified(leading, d) /\ o.registry = leading
      BY <2>2, Zenon DEF Outcome
    <3>2. QED
      BY <3>1, <1>2a
  <2>3. QED
    BY <1>2b, <2>1, <2>2
<1>2. o.ok \in BOOLEAN /\ o.registry \in {r, named, served, listed, leading}
  BY <1>3
<1>4. r \in [class : [Clsids -> {Absent, Blank, OwnDll}],
             discovery : [RegistryNames -> {Absent, Blank} \union Clsids]]
  BY DEF Registries
<1> HIDE DEF named, served, listed, leading
<1>5. /\ named.class = [r.class EXCEPT ![d.clsid] = KeyOrBlank(@)]
      /\ named.discovery = r.discovery
      /\ named \in Registries
  BY <1>1, <1>4 DEF named, KeyOrBlank, Registries
<1>6. /\ served.class = [r.class EXCEPT ![d.clsid] = OwnDll]
      /\ served.discovery = r.discovery
      /\ served \in Registries
  BY <1>1, <1>4, <1>5 DEF served, Registries
<1>7. /\ listed.class = served.class
      /\ listed.discovery = [r.discovery EXCEPT ![d.registry_name] = KeyOrBlank(@)]
      /\ listed \in Registries
  BY <1>1, <1>4, <1>6 DEF listed, KeyOrBlank, Registries
<1>8. /\ leading.class = served.class
      /\ leading.discovery = [r.discovery EXCEPT ![d.registry_name] = d.clsid]
      /\ leading \in Registries
  BY <1>1, <1>4, <1>6, <1>7 DEF leading, Registries
<1>9. KeyOrBlank(d.clsid) = d.clsid
  BY <1>1, DriverMarksAssumption DEF KeyOrBlank
<1>10. KeyOrBlank(OwnDll) = OwnDll /\ \A v \in {Absent, Blank, OwnDll} : v # OwnDll => KeyOrBlank(v) # OwnDll
  BY DriverMarksAssumption DEF KeyOrBlank
<1>11. CASE o.registry = r
  BY <1>1, <1>2, <1>3, <1>4, <1>11
<1>12. CASE o.registry = named
  BY <1>1, <1>2, <1>3, <1>4, <1>5, <1>10, <1>12
<1>13. CASE o.registry = served
  BY <1>1, <1>2, <1>3, <1>4, <1>6, <1>13
<1>14. CASE o.registry = listed
  BY <1>1, <1>2, <1>3, <1>4, <1>6, <1>7, <1>9, <1>14
<1>15. CASE o.registry = leading
  BY <1>1, <1>2, <1>3, <1>4, <1>6, <1>8, <1>15
<1>16. QED
  BY <1>2, <1>11, <1>12, <1>13, <1>14, <1>15

\* And those that UnregisterIfOwned() leaves.
LEMMA UnregisterLeaves ==
  ASSUME NEW r \in Registries, NEW d, d.clsid \in Clsids, d.registry_name \in RegistryNames,
         NEW o \in UnregisterIfOwned(r, d)
  PROVE  /\ o.ok \in BOOLEAN
         /\ o.registry \in Registries
         /\ \A c \in Clsids : c # d.clsid => o.registry.class[c] = r.class[c]
         /\ \A name \in RegistryNames :
              name # d.registry_name => o.registry.discovery[name] = r.discovery[name]
         /\ o.registry = r \/ o.registry.discovery[d.registry_name] = Absent
         /\ o.ok => r.class[d.clsid] # OwnDll \/ o.registry.discovery[d.registry_name] = Absent
<1> DEFINE unlisted == [r EXCEPT !.discovery[d.registry_name] = Absent]
           gone     == [unlisted EXCEPT !.class[d.clsid] = Absent]
<1>1. d.clsid \in Clsids /\ d.registry_name \in RegistryNames
  OBVIOUS
<1>2. /\ o.ok \in BOOLEAN /\ o.registry \in {r, unlisted, gone}
      /\ o.ok => r.class[d.clsid] # OwnDll \/ o.registry = gone
  <2>1. CASE r.class[d.clsid] # OwnDll
    <3>1. o = Outcome(TRUE, r)
      BY <2>1 DEF UnregisterIfOwned
    <3>2. QED
      BY <2>1, <3>1 DEF Outcome
  <2>2. CASE r.class[d.clsid] = OwnDll
    <3>1. o \in {Outcome(FALSE, r), Outcome(FALSE, unlisted), Outcome(TRUE, gone)}
      BY <2>2 DEF UnregisterIfOwned
    <3> HIDE DEF unlisted, gone
    <3>2. \/ o.ok = FALSE /\ o.registry = r
          \/ o.ok = FALSE /\ o.registry = unlisted
          \/ o.ok = TRUE /\ o.registry = gone
      BY <3>1 DEF Outcome
    <3>3. QED
      BY <3>2
  <2>3. QED
    BY <2>1, <2>2
<1>3. r \in [class : [Clsids -> {Absent, Blank, OwnDll}],
             discovery : [RegistryNames -> {Absent, Blank} \union Clsids]]
  BY DEF Registries
<1> HIDE DEF unlisted, gone
<1>4. /\ unlisted.class = r.class
      /\ unlisted.discovery = [r.discovery EXCEPT ![d.registry_name] = Absent]
      /\ unlisted \in Registries
  BY <1>1, <1>3 DEF unlisted, Registries
<1>5. /\ gone.class = [r.class EXCEPT ![d.clsid] = Absent]
      /\ gone.discovery = unlisted.discovery
      /\ gone \in Registries
  BY <1>1, <1>3, <1>4 DEF gone, Registries
<1>6. CASE o.registry = unlisted
  BY <1>1, <1>2, <1>3, <1>4, <1>6
<1>7. CASE o.registry = gone
  BY <1>1, <1>2, <1>3, <1>4, <1>5, <1>7
<1>8. CASE o.registry = r /\ o.registry # unlisted /\ o.registry # gone
  BY <1>2, <1>8
<1>9. QED
  BY <1>2, <1>6, <1>7, <1>8

\* Registering one device keeps what is registered.
LEMMA RegisterKeeps ==
  ASSUME NEW D, Alike(D), NEW r, Within(r, D), NEW d \in D,
         NEW o \in Register(r, d)
  PROVE  /\ o.ok \in BOOLEAN
         /\ Within(o.registry, D)
         /\ o.ok => Verified(o.registry, d)
         /\ \A e \in D : Verified(r, e) => Verified(o.registry, e)
<1> DEFINE q == o.registry
<1> DEFINE names == {e.registry_name : e \in D}
<1>1. r \in Registries /\ Honest(r, D) /\ Listed(r) \subseteq names
  BY DEF Within
<1>2. /\ o.ok \in BOOLEAN
      /\ q \in Registries
      /\ o.ok => Verified(q, d)
      /\ \A c \in Clsids : c # d.clsid => q.class[c] = r.class[c]
      /\ \A name \in RegistryNames : name # d.registry_name => q.discovery[name] = r.discovery[name]
      /\ q.class[d.clsid] # OwnDll => r.class[d.clsid] # OwnDll /\ q.discovery = r.discovery
      /\ r.discovery[d.registry_name] = d.clsid => q.discovery[d.registry_name] = d.clsid
  BY <1>1, RegisterLeaves DEF Alike
<1> HIDE DEF q
<1>3. ASSUME NEW e \in D, q.class[e.clsid] # OwnDll
      PROVE  q.discovery[e.registry_name] = Absent
  <2>1. CASE e.clsid = d.clsid
    BY <1>1, <1>2, <1>3, <2>1 DEF Alike, Honest
  <2>2. CASE e.clsid # d.clsid
    BY <1>1, <1>2, <1>3, <2>2 DEF Alike, Honest
  <2>3. QED
    BY <2>1, <2>2
<1>4. Listed(q) \subseteq names
  BY <1>1, <1>2 DEF Listed
<1>5. ASSUME NEW e \in D, Verified(r, e) PROVE Verified(q, e)
  <2>1. CASE e.clsid = d.clsid
    <3>1. e.registry_name = d.registry_name
      BY <2>1 DEF Alike
    <3>2. r.class[d.clsid] = OwnDll /\ r.discovery[d.registry_name] = d.clsid
      BY <1>5, <2>1, <3>1 DEF Verified
    <3>3. QED
      BY <1>2, <2>1, <3>1, <3>2 DEF Verified
  <2>2. CASE e.clsid # d.clsid
    BY <1>2, <1>5, <2>2 DEF Alike, Verified
  <2>3. QED
    BY <2>1, <2>2
<1>6. QED
  BY <1>2, <1>3, <1>4, <1>5 DEF q, Within, Honest

\* Unregistering one keeps the others.
LEMMA UnregisterKeeps ==
  ASSUME NEW D, Alike(D), NEW r, Within(r, D), NEW d \in D,
         NEW o \in UnregisterIfOwned(r, d)
  PROVE  /\ o.ok \in BOOLEAN
         /\ Within(o.registry, D)
         /\ o.ok => d.registry_name \notin Listed(o.registry)
         /\ Listed(o.registry) \subseteq Listed(r)
         /\ \A e \in D : e.clsid # d.clsid /\ Verified(r, e) => Verified(o.registry, e)
<1> DEFINE q == o.registry
<1> DEFINE names == {e.registry_name : e \in D}
<1>1. r \in Registries /\ Honest(r, D) /\ Listed(r) \subseteq names
  BY DEF Within
<1>2. /\ o.ok \in BOOLEAN
      /\ q \in Registries
      /\ \A c \in Clsids : c # d.clsid => q.class[c] = r.class[c]
      /\ \A name \in RegistryNames : name # d.registry_name => q.discovery[name] = r.discovery[name]
      /\ q = r \/ q.discovery[d.registry_name] = Absent
      /\ o.ok => r.class[d.clsid] # OwnDll \/ q.discovery[d.registry_name] = Absent
  BY <1>1, UnregisterLeaves DEF Alike
<1> HIDE DEF q
<1>3. ASSUME NEW e \in D, q.class[e.clsid] # OwnDll
      PROVE  q.discovery[e.registry_name] = Absent
  <2>1. CASE e.clsid = d.clsid
    BY <1>1, <1>2, <1>3, <2>1 DEF Alike, Honest
  <2>2. CASE e.clsid # d.clsid
    BY <1>1, <1>2, <1>3, <2>2 DEF Alike, Honest
  <2>3. QED
    BY <2>1, <2>2
<1>4. Listed(q) \subseteq Listed(r)
  BY <1>1, <1>2 DEF Listed
<1>5. o.ok => d.registry_name \notin Listed(q)
  BY <1>1, <1>2 DEF Honest, Listed
<1>6. ASSUME NEW e \in D, e.clsid # d.clsid, Verified(r, e) PROVE Verified(q, e)
  BY <1>2, <1>6 DEF Alike, Verified
<1>7. QED
  BY <1>1, <1>2, <1>3, <1>4, <1>5, <1>6 DEF q, Within, Honest

-----------------------------------------------------------------------------
(* The loops over a list. *)

\* What the outcomes are after no device, and after one more.
Follows(loop, outcomes, r, devices) ==
  /\ outcomes[0] = {Outcome(TRUE, r)}
  /\ \A n \in 1 .. Len(devices) : outcomes[n] = Turns(loop, outcomes[n - 1], devices[n])

\* The recursion of a loop has a solution.
LEMMA LoopTurns ==
  ASSUME NEW loop, NEW r, NEW devices, Len(devices) \in Nat
  PROVE  Follows(loop, LoopOutcomes(loop, r, devices), r, devices)
<1> DEFINE first == {Outcome(TRUE, r)}
           Step(n, before) == Turns(loop, before, devices[n])
           Solves(f, m) == f = [n \in 0 .. m |-> IF n = 0 THEN first ELSE Step(n, f[n - 1])]
           Solvable == {m \in Nat : \E f : Solves(f, m)}
<1>1. 0 \in Solvable
  <2> HIDE DEF first, Step
  <2>1. Solves([n \in 0 .. 0 |-> first], 0)
    OBVIOUS
  <2>2. QED
    BY <2>1
<1>2. ASSUME NEW m \in Nat, m \in Solvable PROVE m + 1 \in Solvable
  <2> HIDE DEF first, Step
  <2>1. PICK f : Solves(f, m)
    BY <1>2
  <2> DEFINE g == [n \in 0 .. m + 1 |-> IF n = m + 1 THEN Step(n, f[m]) ELSE f[n]]
  <2>2. ASSUME NEW n \in 0 .. m + 1
        PROVE  g[n] = IF n = 0 THEN first ELSE Step(n, g[n - 1])
    <3>1. CASE n = m + 1
      <4>1. g[n] = Step(n, f[m]) /\ g[n - 1] = f[m]
        BY <3>1
      <4>2. QED
        BY <3>1, <4>1
    <3>2. CASE n # m + 1
      <4>1. n \in 0 .. m /\ g[n] = f[n]
        BY <3>2
      <4>2. f[n] = IF n = 0 THEN first ELSE Step(n, f[n - 1])
        BY <2>1, <4>1
      <4>3. n # 0 => g[n - 1] = f[n - 1]
        BY <3>2
      <4>4. QED
        BY <4>1, <4>2, <4>3
    <3>3. QED
      BY <3>1, <3>2
  <2>3. Solves(g, m + 1)
    <3>1. [n \in 0 .. m + 1 |-> g[n]] = g
      OBVIOUS
    <3> HIDE DEF g
    <3>2. QED
      BY <2>2, <3>1
  <2>4. \E h : Solves(h, m + 1)
    BY <2>3
  <2> HIDE DEF Solves
  <2>5. QED
    BY <2>4
<1>3. Len(devices) \in Solvable
  <2> HIDE DEF Solvable
  <2>1. QED
    BY <1>1, <1>2, Induction
<1>4. LoopOutcomes(loop, r, devices) = CHOOSE f : Solves(f, Len(devices))
  BY DEF LoopOutcomes
<1> DEFINE After == LoopOutcomes(loop, r, devices)
<1>5. Solves(After, Len(devices))
  <2> HIDE DEF Solves
  <2>1. QED
    BY <1>3, <1>4
<1>6. After[0] = first /\ \A n \in 1 .. Len(devices) : After[n] = Step(n, After[n - 1])
  <2> HIDE DEF After, first, Step
  <2>1. QED
    BY <1>5
<1>7. QED
  BY <1>6 DEF Follows

\* One turn fails no less than what came before, and makes the call or stops.
LEMMA TurnOutcome ==
  ASSUME NEW loop, NEW o, NEW device, NEW q \in Turn(loop, o, device)
  PROVE  \/ q = o /\ ~o.ok
         \/ \E n \in Call(loop, o.registry, device) : q.ok = (o.ok /\ n.ok) /\ q.registry = n.registry
<1>1. CASE loop.stops /\ ~o.ok
  BY <1>1 DEF Turn
<1>2. CASE ~(loop.stops /\ ~o.ok)
  <2>1. PICK n \in Call(loop, o.registry, device) : q = Outcome(o.ok /\ n.ok, n.registry)
    BY <1>2 DEF Turn
  <2>2. q.ok = (o.ok /\ n.ok) /\ q.registry = n.registry
    BY <2>1, Zenon DEF Outcome
  <2>3. QED
    BY <2>2
<1>3. QED
  BY <1>1, <1>2

\* A loop that registers, whether it ends at a failure or not: when all calls
\* have succeeded every device of the list is registered.
LEMMA RegisterLoopKeeps ==
  ASSUME NEW D, Alike(D), NEW r, Within(r, D), NEW stops,
         NEW devices \in Topologies, \A i \in DOMAIN devices : devices[i] \in D,
         NEW o \in ForEach(RegisterLoop(stops), r, devices)
  PROVE  /\ o.ok \in BOOLEAN
         /\ Within(o.registry, D)
         /\ o.ok => \A i \in DOMAIN devices : Verified(o.registry, devices[i])
<1> DEFINE loop == RegisterLoop(stops)
           After == LoopOutcomes(loop, r, devices)
           Good(q, n) == /\ q.ok \in BOOLEAN
                         /\ Within(q.registry, D)
                         /\ q.ok => \A i \in 1 .. n : Verified(q.registry, devices[i])
           Reached == {n \in Nat : n <= Len(devices) => \A q \in After[n] : Good(q, n)}
<1>1. Len(devices) \in Nat /\ DOMAIN devices = 1 .. Len(devices)
  BY ListFacts
<1>2. /\ After[0] = {Outcome(TRUE, r)}
      /\ \A n \in 1 .. Len(devices) : After[n] = Turns(loop, After[n - 1], devices[n])
  <2>1. Follows(loop, After, r, devices)
    BY <1>1, LoopTurns
  <2> HIDE DEF loop, After
  <2>2. QED
    BY <2>1 DEF Follows
<1>3. \A x, d : Call(loop, x, d) = Register(x, d)
  BY DEF Call, RegisterLoop, HasClass
<1> HIDE DEF loop, After
<1>4. 0 \in Reached
  <2> DEFINE none == Outcome(TRUE, r)
  <2>1. none.ok = TRUE /\ none.registry = r
    BY DEF Outcome
  <2> HIDE DEF none
  <2>2. none.ok \in BOOLEAN /\ Within(none.registry, D)
    BY <2>1
  <2>3. Good(none, 0)
    BY <2>1, <2>2
  <2> USE DEF none
  <2> HIDE DEF Good
  <2>4. QED
    BY <1>2, <2>3
<1>5. ASSUME NEW n \in Nat, n \in Reached PROVE n + 1 \in Reached
  <2> SUFFICES ASSUME n + 1 <= Len(devices), NEW p \in After[n + 1] PROVE Good(p, n + 1)
    OBVIOUS
  <2>1. n <= Len(devices) /\ n + 1 \in 1 .. Len(devices) /\ (n + 1) - 1 = n
    BY <1>1
  <2>2. PICK q \in After[n] : p \in Turn(loop, q, devices[n + 1])
    BY <1>2, <2>1 DEF Turns
  <2>3. Good(q, n)
    <3> HIDE DEF Good
    <3>1. QED
      BY <1>5, <2>1, <2>2
  <2>4. devices[n + 1] \in D
    BY <1>1, <2>1
  <2>5. CASE p = q /\ ~q.ok
    BY <2>3, <2>5
  <2>6. ASSUME NEW m \in Call(loop, q.registry, devices[n + 1]),
               p.ok = (q.ok /\ m.ok), p.registry = m.registry
        PROVE  Good(p, n + 1)
    <3>1. m \in Register(q.registry, devices[n + 1])
      BY <1>3, <2>6
    <3>2. /\ m.ok \in BOOLEAN
          /\ Within(m.registry, D)
          /\ m.ok => Verified(m.registry, devices[n + 1])
          /\ \A e \in D : Verified(q.registry, e) => Verified(m.registry, e)
      BY <2>3, <2>4, <3>1, RegisterKeeps
    <3>3. ASSUME p.ok, NEW i \in 1 .. n + 1 PROVE Verified(p.registry, devices[i])
      <4>1. CASE i = n + 1
        BY <2>6, <3>2, <3>3, <4>1
      <4>2. CASE i # n + 1
        <5>1. i \in 1 .. n /\ i \in DOMAIN devices
          BY <1>1, <2>1, <4>2
        <5>2. Verified(q.registry, devices[i])
          BY <2>3, <2>6, <3>3, <5>1
        <5>3. QED
          BY <2>6, <3>2, <5>1, <5>2
      <4>3. QED
        BY <4>1, <4>2
    <3>4. p.ok \in BOOLEAN
      BY <2>3, <2>6, <3>2
    <3>5. QED
      BY <2>6, <3>2, <3>3, <3>4
  <2>7. QED
    BY <2>2, <2>5, <2>6, TurnOutcome
<1>6. Len(devices) \in Reached
  <2> HIDE DEF Reached
  <2>1. QED
    BY <1>1, <1>4, <1>5, Induction
<1>7. o \in After[Len(devices)]
  BY DEF ForEach, After, loop
<1>8. Good(o, Len(devices))
  <2> HIDE DEF Good
  <2>1. QED
    BY <1>1, <1>6, <1>7
<1>9. QED
  BY <1>1, <1>8

\* What a loop that unregisters makes of registry r: it keeps the devices passed
\* over, and when all calls have succeeded none of the others is listed.
Emptied(o, r, D, kept, devices) ==
  /\ o.ok \in BOOLEAN
  /\ Within(o.registry, D)
  /\ \A e \in D : HasClass(kept, e) /\ Verified(r, e) => Verified(o.registry, e)
  /\ o.ok => \A i \in DOMAIN devices :
       HasClass(kept, devices[i]) \/ devices[i].registry_name \notin Listed(o.registry)

LEMMA UnregisterLoopKeeps ==
  ASSUME NEW D, Alike(D), NEW r, Within(r, D), NEW stops, NEW kept,
         NEW devices \in Topologies, \A i \in DOMAIN devices : devices[i] \in D,
         NEW o \in ForEach(UnregisterLoop(stops, kept), r, devices)
  PROVE  Emptied(o, r, D, kept, devices)
<1> DEFINE loop == UnregisterLoop(stops, kept)
           After == LoopOutcomes(loop, r, devices)
           Good(q, n) ==
             /\ q.ok \in BOOLEAN
             /\ Within(q.registry, D)
             /\ \A e \in D : HasClass(kept, e) /\ Verified(r, e) => Verified(q.registry, e)
             /\ q.ok => \A i \in 1 .. n :
                  HasClass(kept, devices[i]) \/ devices[i].registry_name \notin Listed(q.registry)
           Reached == {n \in Nat : n <= Len(devices) => \A q \in After[n] : Good(q, n)}
<1>1. Len(devices) \in Nat /\ DOMAIN devices = 1 .. Len(devices)
  BY ListFacts
<1>2. /\ After[0] = {Outcome(TRUE, r)}
      /\ \A n \in 1 .. Len(devices) : After[n] = Turns(loop, After[n - 1], devices[n])
  <2>1. Follows(loop, After, r, devices)
    BY <1>1, LoopTurns
  <2> HIDE DEF loop, After
  <2>2. QED
    BY <2>1 DEF Follows
<1>3. \A x, d : Call(loop, x, d) =
        IF HasClass(kept, d) THEN {Outcome(TRUE, x)} ELSE UnregisterIfOwned(x, d)
  BY DEF Call, UnregisterLoop
<1> HIDE DEF loop, After
<1>4. 0 \in Reached
  <2> DEFINE none == Outcome(TRUE, r)
  <2>1. none.ok = TRUE /\ none.registry = r
    BY DEF Outcome
  <2> HIDE DEF none
  <2>2. none.ok \in BOOLEAN /\ Within(none.registry, D)
    BY <2>1
  <2>3. Good(none, 0)
    BY <2>1, <2>2
  <2> USE DEF none
  <2> HIDE DEF Good
  <2>4. QED
    BY <1>2, <2>3
<1>5. ASSUME NEW n \in Nat, n \in Reached PROVE n + 1 \in Reached
  <2> SUFFICES ASSUME n + 1 <= Len(devices), NEW p \in After[n + 1] PROVE Good(p, n + 1)
    OBVIOUS
  <2>1. n <= Len(devices) /\ n + 1 \in 1 .. Len(devices) /\ (n + 1) - 1 = n
    BY <1>1
  <2>2. PICK q \in After[n] : p \in Turn(loop, q, devices[n + 1])
    BY <1>2, <2>1 DEF Turns
  <2>3. Good(q, n)
    <3> HIDE DEF Good
    <3>1. QED
      BY <1>5, <2>1, <2>2
  <2> DEFINE device == devices[n + 1]
  <2>4. device \in D
    BY <1>1, <2>1
  <2>5. CASE p = q /\ ~q.ok
    BY <2>3, <2>5
  <2>6. ASSUME NEW m \in Call(loop, q.registry, device),
               p.ok = (q.ok /\ m.ok), p.registry = m.registry
        PROVE  Good(p, n + 1)
    <3>1. CASE HasClass(kept, device)
      <4>1. m = Outcome(TRUE, q.registry)
        BY <1>3, <2>6, <3>1
      <4>2. m.ok = TRUE /\ m.registry = q.registry
        BY <4>1 DEF Outcome
      <4>3. p.ok = q.ok /\ p.registry = q.registry
        BY <2>3, <2>6, <4>2
      <4>4. \A i \in 1 .. n + 1 : i \in 1 .. n \/ HasClass(kept, devices[i])
        BY <3>1
      <4>5. QED
        BY <2>3, <4>3, <4>4
    <3>2. CASE ~HasClass(kept, device)
      <4>1. m \in UnregisterIfOwned(q.registry, device)
        BY <1>3, <2>6, <3>2
      <4>2. /\ m.ok \in BOOLEAN
            /\ Within(m.registry, D)
            /\ m.ok => device.registry_name \notin Listed(m.registry)
            /\ Listed(m.registry) \subseteq Listed(q.registry)
            /\ \A e \in D : e.clsid # device.clsid /\ Verified(q.registry, e) =>
                 Verified(m.registry, e)
        BY <2>3, <2>4, <4>1, UnregisterKeeps
      <4>3. ASSUME NEW e \in D, HasClass(kept, e), Verified(r, e)
            PROVE  Verified(p.registry, e)
        <5>1. e.clsid # device.clsid
          BY <3>2, <4>3 DEF HasClass
        <5>2. QED
          BY <2>3, <2>6, <4>2, <4>3, <5>1
      <4>4. ASSUME p.ok, NEW i \in 1 .. n + 1
            PROVE  HasClass(kept, devices[i]) \/ devices[i].registry_name \notin Listed(p.registry)
        <5>1. CASE i = n + 1
          BY <2>6, <4>2, <4>4, <5>1
        <5>2. CASE i # n + 1
          <6>1. i \in 1 .. n
            BY <5>2
          <6>2. HasClass(kept, devices[i]) \/ devices[i].registry_name \notin Listed(q.registry)
            BY <2>3, <2>6, <4>4, <6>1
          <6>3. QED
            BY <2>6, <4>2, <6>2
        <5>3. QED
          BY <5>1, <5>2
      <4>5. p.ok \in BOOLEAN
        BY <2>3, <2>6, <4>2
      <4>6. QED
        BY <2>6, <4>2, <4>3, <4>4, <4>5
    <3>3. QED
      BY <3>1, <3>2
  <2>7. QED
    BY <2>2, <2>5, <2>6, TurnOutcome
<1>6. Len(devices) \in Reached
  <2> HIDE DEF Reached
  <2>1. QED
    BY <1>1, <1>4, <1>5, Induction
<1>7. o \in After[Len(devices)]
  BY DEF ForEach, After, loop
<1>8. Good(o, Len(devices))
  <2> HIDE DEF Good
  <2>1. QED
    BY <1>1, <1>6, <1>7
<1>9. QED
  BY <1>1, <1>8 DEF Emptied

-----------------------------------------------------------------------------
(* synchronize_virtual_asio_registration(). *)

\* With no entries but those of two lists, one list registered and of the other
\* nothing more listed than the two have in common, the one list is on offer.
LEMMA OffersFollow ==
  ASSUME NEW wanted \in Topologies, NEW others \in Topologies,
         ~Renames(wanted, others),
         NEW r, Within(r, Both(wanted, others)),
         \A i \in DOMAIN wanted : Verified(r, wanted[i]),
         \A i \in DOMAIN others :
           HasClass(wanted, others[i]) \/ others[i].registry_name \notin Listed(r)
  PROVE  Offers(r, wanted)
<1>0. Alike(Both(wanted, others))
  BY BothAlike
<1>1. ASSUME NEW name \in Listed(r)
      PROVE  name \in NamesOf(wanted)
  <2>1. CASE name \in NamesOf(others)
    <3>1. PICK i \in DOMAIN others : name = others[i].registry_name
      BY <2>1 DEF NamesOf
    <3>2. PICK j \in DOMAIN wanted : wanted[j].clsid = others[i].clsid
      BY <3>1 DEF HasClass
    <3>3. wanted[j].registry_name = name
      BY <1>0, <3>1, <3>2 DEF Alike, Both
    <3>4. QED
      BY <3>3 DEF NamesOf
  <2>2. name \in NamesOf(wanted) \union NamesOf(others)
    BY DEF Within, Both, NamesOf
  <2>3. QED
    BY <2>1, <2>2
<1>2. ASSUME NEW i \in DOMAIN wanted
      PROVE  wanted[i].registry_name \in Listed(r)
  <2>1. wanted[i].registry_name \in RegistryNames /\ wanted[i].clsid \in Clsids
    BY ListFacts
  <2>2. r.discovery[wanted[i].registry_name] = wanted[i].clsid
    BY DEF Verified
  <2>3. QED
    BY <2>1, <2>2, DriverMarksAssumption DEF Listed
<1>3. Listed(r) = NamesOf(wanted)
  BY <1>1, <1>2 DEF NamesOf
<1>4. QED
  BY <1>3 DEF Offers, NamesOf

LEMMA HasOwnClass ==
  ASSUME NEW devices, NEW i \in DOMAIN devices
  PROVE  HasClass(devices, devices[i])
BY DEF HasClass

\* Registering all of desired and unregistering the rest of previous, when it succeeds.
LEMMA ForwardOffers ==
  ASSUME NEW previous \in Topologies, NEW wanted \in Topologies, ~Renames(previous, wanted),
         NEW r, Within(r, Both(previous, wanted)),
         NEW o \in Forward(r, previous, wanted)
  PROVE  /\ o.ok \in BOOLEAN
         /\ Within(o.registry, Both(previous, wanted))
         /\ o.ok => Offers(o.registry, wanted)
<1> DEFINE D == Both(previous, wanted)
           registered == ForEach(RegisterLoop(TRUE), r, wanted)
<1>0. /\ Alike(D)
      /\ \A i \in DOMAIN wanted : wanted[i] \in D
      /\ \A i \in DOMAIN previous : previous[i] \in D
  BY BothAlike DEF Both
<1>1. \A q \in registered :
        /\ q.ok \in BOOLEAN
        /\ Within(q.registry, D)
        /\ q.ok => \A i \in DOMAIN wanted : Verified(q.registry, wanted[i])
  <2>1. Within(r, D)
    OBVIOUS
  <2> HIDE DEF D
  <2>2. QED
    BY <1>0, <2>1, RegisterLoopKeeps
<1>2. \/ o \in registered /\ ~o.ok
      \/ \E q \in registered : q.ok /\ o \in ForEach(UnregisterLoop(TRUE, wanted), q.registry, previous)
  BY DEF Forward
<1> HIDE DEF registered, D
<1>3. CASE o \in registered /\ ~o.ok
  BY <1>1, <1>3 DEF D
<1>4. ASSUME NEW q \in registered, q.ok,
             o \in ForEach(UnregisterLoop(TRUE, wanted), q.registry, previous)
      PROVE  /\ o.ok \in BOOLEAN
             /\ Within(o.registry, D)
             /\ o.ok => Offers(o.registry, wanted)
  <2>1. /\ Alike(D) /\ Within(q.registry, D) /\ previous \in Topologies
        /\ \A i \in DOMAIN previous : previous[i] \in D
    BY <1>0, <1>1, <1>4
  <2>2. /\ o.ok \in BOOLEAN
        /\ Within(o.registry, D)
        /\ \A e \in D : HasClass(wanted, e) /\ Verified(q.registry, e) => Verified(o.registry, e)
        /\ o.ok => \A i \in DOMAIN previous :
             HasClass(wanted, previous[i]) \/ previous[i].registry_name \notin Listed(o.registry)
    <3> DEFINE x == q.registry
    <3>1. Within(x, D) /\ o \in ForEach(UnregisterLoop(TRUE, wanted), x, previous)
      BY <1>4, <2>1
    <3> HIDE DEF x
    <3>2. Emptied(o, x, D, wanted, previous)
      BY <2>1, <3>1, UnregisterLoopKeeps
    <3>3. QED
      BY <3>2 DEF x, Emptied
  <2>3. \A i \in DOMAIN wanted : Verified(o.registry, wanted[i])
    BY <1>0, <1>1, <1>4, <2>2, HasOwnClass
  <2>4. Within(o.registry, Both(wanted, previous)) /\ ~Renames(wanted, previous)
    BY <2>2, BothAlike DEF D
  <2>5. QED
    BY <2>2, <2>3, <2>4, OffersFollow
<1>5. QED
  BY <1>2, <1>3, <1>4 DEF D

\* restore_previous, from wherever the failure has left the registry: when all its
\* calls succeed previous is on offer again.
LEMMA RestoreOffers ==
  ASSUME NEW previous \in Topologies, NEW wanted \in Topologies, ~Renames(previous, wanted),
         NEW r, Within(r, Both(previous, wanted)),
         NEW o \in Restore(r, previous, wanted)
  PROVE  /\ o.ok \in BOOLEAN
         /\ Within(o.registry, Both(previous, wanted))
         /\ o.ok => Offers(o.registry, previous)
<1> DEFINE D == Both(previous, wanted)
           registered == ForEach(RegisterLoop(FALSE), r, previous)
<1>0. /\ Alike(D)
      /\ \A i \in DOMAIN wanted : wanted[i] \in D
      /\ \A i \in DOMAIN previous : previous[i] \in D
  BY BothAlike DEF Both
<1>1. \A q \in registered :
        /\ q.ok \in BOOLEAN
        /\ Within(q.registry, D)
        /\ q.ok => \A i \in DOMAIN previous : Verified(q.registry, previous[i])
  <2>1. Within(r, D)
    OBVIOUS
  <2> HIDE DEF D
  <2>2. QED
    BY <1>0, <2>1, RegisterLoopKeeps
<1>2. PICK q \in registered :
        \E n \in ForEach(UnregisterLoop(FALSE, previous), q.registry, wanted) :
          o = Outcome(q.ok /\ n.ok, n.registry)
  BY DEF Restore
<1>3. PICK n \in ForEach(UnregisterLoop(FALSE, previous), q.registry, wanted) :
        o = Outcome(q.ok /\ n.ok, n.registry)
  BY <1>2
<1>4. o.ok = (q.ok /\ n.ok) /\ o.registry = n.registry
  BY <1>3, Zenon DEF Outcome
<1> HIDE DEF registered, D
<1>5. /\ n.ok \in BOOLEAN
      /\ Within(n.registry, D)
      /\ \A e \in D : HasClass(previous, e) /\ Verified(q.registry, e) => Verified(n.registry, e)
      /\ n.ok => \A i \in DOMAIN wanted :
           HasClass(previous, wanted[i]) \/ wanted[i].registry_name \notin Listed(n.registry)
  <2>1. /\ Alike(D) /\ Within(q.registry, D) /\ wanted \in Topologies
        /\ \A i \in DOMAIN wanted : wanted[i] \in D
    BY <1>0, <1>1
  <2>2. Emptied(n, q.registry, D, previous, wanted)
    BY <1>3, <2>1, UnregisterLoopKeeps
  <2>3. QED
    BY <2>2 DEF Emptied
<1>6. q.ok => \A i \in DOMAIN previous : Verified(n.registry, previous[i])
  BY <1>0, <1>1, <1>5, HasOwnClass
<1>7. q.ok /\ n.ok => Offers(n.registry, previous)
  BY <1>5, <1>6, OffersFollow DEF D
<1>8. q.ok \in BOOLEAN
  BY <1>1
<1>9. QED
  BY <1>4, <1>5, <1>7, <1>8 DEF D

\* A change that succeeds offers the new list, and one that fails and is undone
\* completely the old one.
LEMMA SynchronizeOffers ==
  ASSUME NEW previous \in Topologies, NEW wanted \in Topologies, ~Renames(previous, wanted),
         NEW r, Within(r, Both(previous, wanted)),
         NEW out \in Synchronize(r, previous, wanted)
  PROVE  /\ Within(out.registry, Both(previous, wanted))
         /\ out.ok \in BOOLEAN /\ out.complete \in BOOLEAN
         /\ out.ok => out.complete /\ Offers(out.registry, wanted)
         /\ ~out.ok /\ out.complete => Offers(out.registry, previous)
<1> DEFINE forward == Forward(r, previous, wanted)
<1>1. \/ \E o \in forward : o.ok /\ out = [ok |-> TRUE, complete |-> TRUE, registry |-> o.registry]
      \/ \E o \in forward : ~o.ok /\ \E n \in Restore(o.registry, previous, wanted) :
           out = [ok |-> FALSE, complete |-> n.ok, registry |-> n.registry]
  BY DEF Synchronize
<1> HIDE DEF forward
<1>2. ASSUME NEW o \in forward, o.ok,
             out = [ok |-> TRUE, complete |-> TRUE, registry |-> o.registry]
      PROVE  /\ Within(o.registry, Both(previous, wanted))
             /\ out.ok = TRUE /\ out.complete = TRUE /\ out.registry = o.registry
             /\ Offers(o.registry, wanted)
  BY <1>2, ForwardOffers DEF forward
<1>3. ASSUME NEW o \in forward, ~o.ok, NEW n \in Restore(o.registry, previous, wanted),
             out = [ok |-> FALSE, complete |-> n.ok, registry |-> n.registry]
      PROVE  /\ Within(n.registry, Both(previous, wanted))
             /\ out.ok = FALSE /\ out.complete = n.ok /\ n.ok \in BOOLEAN
             /\ out.registry = n.registry
             /\ n.ok => Offers(n.registry, previous)
  <2>1. Within(o.registry, Both(previous, wanted))
    BY ForwardOffers DEF forward
  <2>2. QED
    BY <1>3, <2>1, RestoreOffers
<1>4. CASE \E o \in forward : o.ok /\ out = [ok |-> TRUE, complete |-> TRUE, registry |-> o.registry]
  BY <1>2, <1>4
<1>5. CASE \E o \in forward : ~o.ok /\ \E n \in Restore(o.registry, previous, wanted) :
             out = [ok |-> FALSE, complete |-> n.ok, registry |-> n.registry]
  BY <1>3, <1>5
<1>6. QED
  BY <1>1, <1>4, <1>5

-----------------------------------------------------------------------------
(* The registry and the session, at every step. *)

\* Unless a change was cut short or has renamed a device the registry offers the
\* devices of the list that waits for its save, or else of the session the engine
\* would start with: those desired_session has whenever the process is up.
DriversInv ==
  /\ Up => desired.devices = Loaded.devices
  /\ topology # NoTopology /\ ~renamed => ~Renames(desired.devices, topology.devices)
  /\ ~torn /\ ~renamed =>
       /\ registry \in Registries
       /\ Offers(registry, IF topology = NoTopology THEN Loaded.devices ELSE topology.devices)

\* Where a list is on offer no entries are of other devices, those of a list that
\* renames none of them included.
LEMMA OfferedWithin ==
  ASSUME NEW previous \in Topologies, NEW wanted \in Topologies, ~Renames(previous, wanted),
         NEW r \in Registries, Offers(r, previous)
  PROVE  Within(r, Both(previous, wanted))
<1> DEFINE D == Both(previous, wanted)
<1>1. Listed(r) = NamesOf(previous) /\ \A i \in DOMAIN previous : Verified(r, previous[i])
  BY DEF Offers, NamesOf
<1>2. Alike(D)
  BY BothAlike
<1>3. ASSUME NEW d \in D, r.class[d.clsid] # OwnDll
      PROVE  r.discovery[d.registry_name] = Absent
  <2>1. d.registry_name \in RegistryNames
    BY <1>2 DEF Alike
  <2>2. d.registry_name \notin NamesOf(previous)
    <3>1. SUFFICES ASSUME NEW i \in DOMAIN previous, d.registry_name = previous[i].registry_name
                   PROVE  FALSE
      BY DEF NamesOf
    <3>2. previous[i] \in D
      BY DEF Both
    <3>3. d.clsid = previous[i].clsid
      BY <1>2, <3>1, <3>2 DEF Alike
    <3>4. QED
      BY <1>1, <1>3, <3>3 DEF Verified
  <2>3. QED
    BY <1>1, <2>1, <2>2 DEF Listed
<1>4. NamesOf(previous) \subseteq {d.registry_name : d \in D}
  BY DEF NamesOf, Both
<1>5. QED
  BY <1>1, <1>3, <1>4 DEF Within, Honest

\* A session in the file is the one the engine starts with.
LEMMA LoadedIsFile ==
  /\ file \in Sessions => Loaded = file
  /\ file' \in Sessions => Loaded' = file'
  /\ file' = file => Loaded' = Loaded
BY MarksAssumption DEF Loaded

\* The installer's registrations are of the default session's devices.
LEMMA InitDrivers == Init => DriversInv
<1> SUFFICES ASSUME Init
             PROVE  DriversInv
  OBVIOUS
<1> DEFINE list == DefaultDevices
           r == RegistryOf(list)
           Leads(name) == CHOOSE i \in DOMAIN list : list[i].registry_name = name
<1>1. /\ \A i, j \in DOMAIN list : i # j => list[i].registry_name # list[j].registry_name
      /\ \A i \in DOMAIN list : list[i].clsid \in Clsids /\ list[i].registry_name \in RegistryNames
  BY EngineSessionAssumption, ListFacts DEF ValidDevices
<1>2. /\ r.class = [c \in Clsids |-> IF \E i \in DOMAIN list : list[i].clsid = c THEN OwnDll ELSE Absent]
      /\ r.discovery = [name \in RegistryNames |->
           IF \E i \in DOMAIN list : list[i].registry_name = name THEN list[Leads(name)].clsid ELSE Absent]
  BY DEF RegistryOf
<1> HIDE DEF r, list
<1>3. ASSUME NEW i \in DOMAIN list
      PROVE  Leads(list[i].registry_name) = i
  BY <1>1
<1>4. ASSUME NEW name \in RegistryNames, \E i \in DOMAIN list : list[i].registry_name = name
      PROVE  list[Leads(name)].clsid \in Clsids
  BY <1>1, <1>3, <1>4
<1> HIDE DEF Leads
<1>5. r \in Registries
  <2>1. r.class \in [Clsids -> {Absent, Blank, OwnDll}]
    BY <1>2
  <2>2. r.discovery \in [RegistryNames -> {Absent, Blank} \union Clsids]
    BY <1>2, <1>4
  <2>3. r = [class |-> r.class, discovery |-> r.discovery]
    BY DEF r, RegistryOf
  <2>4. QED
    BY <2>1, <2>2, <2>3 DEF Registries
<1>6. ASSUME NEW i \in DOMAIN list
      PROVE  Verified(r, list[i])
  <2>1. list[i].clsid \in Clsids /\ list[i].registry_name \in RegistryNames
    BY <1>1
  <2>2. QED
    BY <1>2, <1>3, <2>1 DEF Verified
<1>7. Listed(r) = NamesOf(list)
  <2>1. ASSUME NEW name \in Listed(r)
        PROVE  name \in NamesOf(list)
    BY <1>2, <2>1 DEF Listed, NamesOf
  <2>2. ASSUME NEW i \in DOMAIN list
        PROVE  list[i].registry_name \in Listed(r)
    <3>1. list[i].clsid \in Clsids /\ list[i].registry_name \in RegistryNames
      BY <1>1
    <3>2. r.discovery[list[i].registry_name] = list[i].clsid
      BY <1>6 DEF Verified
    <3>3. QED
      BY <3>1, <3>2, DriverMarksAssumption DEF Listed
  <2>3. QED
    BY <2>1, <2>2 DEF NamesOf
<1>8. Offers(r, list)
  BY <1>6, <1>7 DEF Offers, NamesOf
<1>9. registry = r /\ topology = NoTopology /\ ~Up /\ Loaded.devices = list
  BY DEF Init, Up, Loaded, DefaultSession, r, list
<1>10. QED
  BY <1>5, <1>8, <1>9 DEF DriversInv

\* A step that leaves the registry, and the devices of the sessions, as they were.
LEMMA DriversStay ==
  ASSUME DriversInv, UNCHANGED registryVars, Loaded'.devices = Loaded.devices,
         Up' => desired'.devices = Loaded'.devices,
         topology = NoTopology \/ desired'.devices = desired.devices
  PROVE  DriversInv'
<1>1. topology' = topology /\ registry' = registry /\ torn' = torn /\ renamed' = renamed
  BY DEF registryVars
<1>2. QED
  BY <1>1 DEF DriversInv

LEMMA SavesKeepDrivers ==
  ASSUME Invariant, DriversInv, MergeAndSave \/ Shutdown
  PROVE  DriversInv'
<1>1. /\ desired \in Sessions /\ Up /\ UNCHANGED registryVars
      /\ desired.devices = Loaded.devices
  BY DEF Invariant, SessionInv, SessionTypeOK, OneInProgress, MergeAndSave, Shutdown, Idle, DriversInv
<1>2. /\ desired' \in Sessions /\ desired'.devices = desired.devices
      /\ file' = file \/ file' = desired'
  <2>1. CASE Shutdown
    BY <1>1, <2>1 DEF Shutdown, Saved
  <2>2. CASE MergeAndSave
    <3> DEFINE command == reply.request.command
    <3>1. command \in Commands /\ ServiceTypeOK /\ SessionTypeOK
      BY <2>2 DEF MergeAndSave, Invariant, ServiceInv, SessionInv, ServiceTypeOK, Replies, Requests
    <3>2. CASE UNCHANGED <<desired, file, save_ok>>
      BY <1>1, <3>2
    <3>3. CASE ChangesPersisted(command) /\ desired' = Merged(command) /\ Saved(desired')
      <4>1. Merged(command) \in Sessions
        BY <3>1, <3>3, MergedType
      <4>2. Merged(command).devices = desired.devices
        BY <3>1, <3>3, MergedType
      <4>3. QED
        BY <3>3, <4>1, <4>2 DEF Saved
    <3>4. QED
      BY <2>2, <3>2, <3>3 DEF MergeAndSave
  <2>3. QED
    BY <2>1, <2>2
<1>3. Loaded'.devices = desired.devices
  BY <1>1, <1>2, LoadedIsFile
<1>4. QED
  BY <1>1, <1>2, <1>3, DriversStay

LEMMA ConfigureKeepsDrivers ==
  ASSUME Invariant, DriversInv, NEW devices \in Topologies, ConfigureVirtualAsioDevices(devices)
  PROVE  DriversInv'
<1>1. /\ Up /\ topology = NoTopology /\ UNCHANGED <<phase, desired, file>>
      /\ desired \in Sessions /\ SessionTypeOK
  BY DEF ConfigureVirtualAsioDevices, Idle, sessionVars, Invariant, SessionInv, SessionTypeOK
<1>2. desired.devices \in Topologies /\ desired.devices = Loaded.devices
  BY <1>1 DEF Sessions, DriversInv
<1>3. Loaded' = Loaded /\ (Up' => desired'.devices = Loaded'.devices)
  BY <1>1, <1>2, LoadedIsFile
<1>4. PICK out \in Synchronize(registry, desired.devices, devices) :
        /\ registry' = out.registry
        /\ torn' = (torn \/ ~out.complete)
        /\ topology' = IF out.ok THEN Candidate(devices) ELSE NoTopology
  BY DEF ConfigureVirtualAsioDevices
<1>5. renamed' = (renamed \/ Renames(desired.devices, devices))
  BY DEF ConfigureVirtualAsioDevices
<1>6. topology' # NoTopology /\ ~renamed' => ~Renames(desired'.devices, topology'.devices)
  <2>1. Candidate(devices).devices = devices
    BY <1>1 DEF Candidate, Sessions
  <2>2. QED
    BY <1>1, <1>4, <1>5, <2>1
<1>7. CASE ~torn' /\ ~renamed'
  <2>1. ~torn /\ out.complete /\ ~renamed /\ ~Renames(desired.devices, devices)
    BY <1>4, <1>7, <1>5
  <2>2. Within(registry, Both(desired.devices, devices))
    BY <1>1, <1>2, <2>1, OfferedWithin DEF DriversInv
  <2>3. /\ registry' \in Registries
        /\ out.ok \in BOOLEAN
        /\ out.ok => Offers(registry', devices)
        /\ ~out.ok => Offers(registry', desired.devices)
    BY <1>2, <1>4, <2>1, <2>2, SynchronizeOffers DEF Within
  <2>4. Candidate(devices) \in Sessions /\ Candidate(devices).devices = devices
    BY <1>1, CandidateType DEF Candidate, Sessions
  <2>5. Candidate(devices) # NoTopology
    BY <2>4, MarksAssumption
  <2>6. Offers(registry', IF topology' = NoTopology THEN Loaded'.devices ELSE topology'.devices)
    BY <1>2, <1>3, <1>4, <2>3, <2>4, <2>5
  <2>7. QED
    BY <1>3, <1>6, <2>3, <2>6 DEF DriversInv
<1>8. QED
  BY <1>3, <1>7, <1>6 DEF DriversInv

LEMMA TopologySavedKeepsDrivers ==
  ASSUME Invariant, DriversInv, TopologySaved
  PROVE  DriversInv'
<1>1. /\ topology \in Sessions /\ topology # NoTopology /\ topology' = NoTopology
      /\ desired' = topology /\ file' = topology /\ UNCHANGED <<registry, torn, renamed>>
  BY DEF TopologySaved, Invariant, SessionInv, SessionTypeOK
<1>2. Loaded' = topology
  BY <1>1, LoadedIsFile
<1>3. QED
  BY <1>1, <1>2 DEF DriversInv

LEMMA TopologySaveFailedKeepsDrivers ==
  ASSUME Invariant, DriversInv, TopologySaveFailed
  PROVE  DriversInv'
<1>1. /\ topology \in Sessions /\ desired \in Sessions /\ Up /\ topology # NoTopology
      /\ topology' = NoTopology /\ UNCHANGED <<phase, desired, file, renamed>>
  BY DEF TopologySaveFailed, Invariant, SessionInv, SessionTypeOK, OneInProgress
<1>2. /\ topology.devices \in Topologies /\ desired.devices \in Topologies
      /\ desired.devices = Loaded.devices
  BY <1>1 DEF Sessions, DriversInv
<1>3. Loaded' = Loaded /\ (Up' => desired'.devices = Loaded'.devices)
  BY <1>1, <1>2, LoadedIsFile
<1>4. PICK out \in Synchronize(registry, topology.devices, desired.devices) :
        registry' = out.registry /\ torn' = (torn \/ ~out.ok)
  BY DEF TopologySaveFailed
<1>5. CASE ~torn' /\ ~renamed'
  <2>1. ~torn /\ out.ok /\ ~renamed
    BY <1>1, <1>4, <1>5
  <2>2. ~Renames(topology.devices, desired.devices)
    BY <1>1, <1>2, <2>1, BothAlike DEF DriversInv
  <2>3. registry \in Registries /\ Offers(registry, topology.devices)
    BY <1>1, <2>1 DEF DriversInv
  <2>4. Within(registry, Both(topology.devices, desired.devices))
    BY <1>2, <2>2, <2>3, OfferedWithin
  <2>5. registry' \in Registries /\ Offers(registry', desired.devices)
    BY <1>2, <1>4, <2>1, <2>4, <2>2, SynchronizeOffers DEF Within
  <2>6. QED
    BY <1>1, <1>2, <1>3, <2>5 DEF DriversInv
<1>6. QED
  BY <1>1, <1>3, <1>5 DEF DriversInv

\* A kill: with a list still to be saved, or while drivers are registered, it cuts
\* the change short.
LEMMA KillsKeepDrivers ==
  ASSUME Invariant, DriversInv,
         Crash \/ \E devices \in Topologies : CrashRegistering(devices)
  PROVE  DriversInv'
<1>1. phase' = "down" /\ file' = file
  BY DEF Crash, CrashRegistering
<1>2. Loaded' = Loaded /\ ~Up'
  BY <1>1, LoadedIsFile DEF Up
<1>3. CASE Crash
  <2>1. /\ registry' = registry /\ torn' = (torn \/ topology # NoTopology)
        /\ topology' = NoTopology /\ renamed' = renamed
    BY <1>3 DEF Crash
  <2>2. ~torn' => ~torn /\ topology = NoTopology
    BY <2>1
  <2>3. QED
    BY <1>2, <2>1, <2>2 DEF DriversInv
<1>4. CASE \E devices \in Topologies : CrashRegistering(devices)
  <2>1. torn' /\ topology' = NoTopology
    BY <1>4 DEF CrashRegistering, Idle
  <2>2. QED
    BY <1>2, <2>1 DEF DriversInv
<1>5. QED
  BY <1>3, <1>4

LEMMA StepDrivers == Invariant /\ DriversInv /\ [Next]_vars => DriversInv'
<1> SUFFICES ASSUME Invariant, DriversInv, [Next]_vars
             PROVE  DriversInv'
  OBVIOUS
<1>1. CASE Startup
  <2>1. desired' = Loaded /\ UNCHANGED registryVars /\ (file' = Loaded \/ file' = file)
    BY <1>1 DEF Startup
  <2>2. Loaded \in Sessions
    BY LoadedType DEF Invariant, SessionInv
  <2>3. Loaded' = Loaded
    BY <2>1, <2>2, LoadedIsFile
  <2>4. topology = NoTopology
    BY <1>1 DEF Startup, Up, Invariant, SessionInv, OneInProgress
  <2>5. QED
    BY <2>1, <2>3, <2>4, DriversStay
<1>2. CASE \/ RefuseToStart \/ RequestStop \/ RuntimeStopsAlone \/ UNCHANGED vars
           \/ \E r \in Requests : ReceiveRequest(r)
  <2>1. UNCHANGED <<desired, file>> /\ UNCHANGED registryVars /\ (Up' => Up)
    BY <1>2 DEF RefuseToStart, RequestStop, RuntimeStopsAlone, ReceiveRequest, Idle, Up,
       vars, appVars, sessionVars
  <2>2. Loaded' = Loaded
    BY <2>1, LoadedIsFile
  <2>3. QED
    BY <2>1, <2>2, DriversStay DEF DriversInv
<1>3. CASE MergeAndSave \/ Shutdown
  BY <1>3, SavesKeepDrivers
<1>4. ASSUME NEW devices \in Topologies, ConfigureVirtualAsioDevices(devices)
      PROVE  DriversInv'
  BY <1>4, ConfigureKeepsDrivers
<1>5. CASE TopologySaved
  BY <1>5, TopologySavedKeepsDrivers
<1>6. CASE TopologySaveFailed
  BY <1>6, TopologySaveFailedKeepsDrivers
<1>7. CASE Crash \/ \E devices \in Topologies : CrashRegistering(devices)
  BY <1>7, KillsKeepDrivers
<1>8. QED
  BY <1>1, <1>2, <1>3, <1>4, <1>5, <1>6, <1>7 DEF Next

-----------------------------------------------------------------------------
(* What holds in every state. *)

\* The two inductive invariants hold in every reachable state.
THEOREM EngineInvariant == Spec => []Invariant
<1>1. QED
  BY InitInvariant, StepInvariant, PTL DEF Spec

\* The service's variables keep their types; the answers remembered are at
\* most kMaxReplayedResponses.
THEOREM ServiceTypes == Spec => []ServiceTypeOK
<1>1. Invariant => ServiceTypeOK
  BY DEF Invariant, ServiceInv
<1>2. QED
  BY <1>1, EngineInvariant, PTL

\* A running runtime executes the committed preset.
THEOREM CommittedGraphRuns == Spec => []RunningGraphIsCommitted
<1>1. Invariant => RunningGraphIsCommitted
  BY DEF Invariant, ServiceInv
<1>2. QED
  BY <1>1, EngineInvariant, PTL

\* A runtime of the session's graph version is one of its graph: to restart it
\* without a rebuild is sound.
THEOREM VersionsIdentify == Spec => []VersionIdentifiesGraph
<1>1. Invariant => VersionIdentifiesGraph
  BY DEF Invariant, ServiceInv
<1>2. QED
  BY <1>1, EngineInvariant, PTL

\* audio_runtime_configuration_ is that of the runtime in place.
THEOREM ConfigurationIsInPlace == Spec => []ConfigurationIsRuntimes
<1>1. Invariant => ConfigurationIsRuntimes
  BY DEF Invariant, ServiceInv
<1>2. QED
  BY <1>1, EngineInvariant, PTL

\* A kill loses no route edit that was answered and saved.
THEOREM RoutesAreSaved == Spec => []RoutesArePersisted
<1>1. Invariant => RoutesArePersisted
  BY DEF Invariant, SessionInv, DesiredFollows, FileFollows, PresetAnswer, RoutesArePersisted, Up
<1>2. QED
  BY <1>1, EngineInvariant, PTL

\* The drivers a DAW finds are those of the session the engine starts with, unless
\* a restoration fails itself, a kill cuts a change short or a device is renamed.
THEOREM DriversAreOffered == Spec => []DriversAreTheSessions
<1>1. DriversInv => DriversAreTheSessions
  <2> SUFFICES ASSUME DriversInv, file # MissingFile, topology = NoTopology, ~torn, ~renamed
               PROVE  Offers(registry, IF file = UnreadableFile THEN DefaultDevices ELSE file.devices)
    BY DEF DriversAreTheSessions
  <2>1. Loaded.devices = IF file = UnreadableFile THEN DefaultDevices ELSE file.devices
    BY DEF Loaded, DefaultSession
  <2>2. QED
    BY <2>1 DEF DriversInv
<1>2. Spec => []DriversInv
  BY EngineInvariant, InitDrivers, StepDrivers, PTL DEF Spec
<1>3. QED
  BY <1>1, <1>2, PTL

-----------------------------------------------------------------------------
(* What every step keeps. *)

\* Only a request that is received gives an answer.
LEMMA AnswersAreReceived ==
  ASSUME Invariant, [Next]_vars, reply' # reply, reply' # NoReply
  PROVE  \E r \in Requests : HandleWireRequest(r) /\ reply = NoReply /\ reply'.request = r
<1>1. CASE UNCHANGED reply
  BY <1>1
<1>2. ASSUME NEW r \in Requests, ReceiveRequest(r)
      PROVE  HandleWireRequest(r) /\ reply = NoReply /\ reply'.request = r
  <2>1. HandleWireRequest(r) /\ reply = NoReply
    BY <1>2 DEF ReceiveRequest, Idle
  <2>2. QED
    BY <2>1, HandleWireRequestKeeps DEF Invariant
<1>3. CASE reply' = NoReply
  BY <1>3
<1>4. UNCHANGED reply \/ reply' = NoReply \/ \E r \in Requests : ReceiveRequest(r)
  BY DEF Next, vars, serviceVars, Startup, RefuseToStart, MergeAndSave,
     ConfigureVirtualAsioDevices, TopologySaved, TopologySaveFailed, CrashRegistering, RequestStop,
     Shutdown, Crash, RuntimeStopsAlone, RuntimeStops
<1>5. QED
  BY <1>1, <1>2, <1>3, <1>4

\* A rejected request commits nothing, and what still runs runs as before.
THEOREM RejectionsAreTransactional == Spec => RejectionIsTransactional
<1>1. ASSUME Invariant, [Next]_vars
      PROVE  reply' # reply /\ reply' # NoReply /\ reply'.status = "Rejected" => Transactional
  <2>1. SUFFICES ASSUME reply' # reply, reply' # NoReply, reply'.status = "Rejected"
                 PROVE  Transactional
    OBVIOUS
  <2>2. PICK r \in Requests : HandleWireRequest(r)
    BY <1>1, <2>1, AnswersAreReceived
  <2>3. QED
    BY <1>1, <2>1, <2>2, HandleWireRequestKeeps DEF Invariant
<1>2. ASSUME Invariant, [Next]_vars
      PROVE  [reply' # reply /\ reply' # NoReply /\ reply'.status = "Rejected" =>
                /\ UNCHANGED <<preset, graph_version, configuration>>
                /\ IsRunning(runtime) /\ IsRunning(runtime') => runtime'.preset = runtime.preset]_serviceVars
  BY <1>1, <1>2 DEF Transactional
<1>3. QED
  BY <1>2, EngineInvariant, PTL DEF Spec, RejectionIsTransactional

\* An id that is remembered is answered from the cache or refused, and changes
\* nothing.
THEOREM RememberedIdsAreInert == Spec => RememberedIdIsInert
<1>1. ASSUME Invariant, [Next]_vars, NEW i \in 1 .. Len(replayed),
             reply' # reply, reply' # NoReply, replayed[i].request.id = reply'.request.id
      PROVE  /\ UNCHANGED <<preset, graph_version, runtime, configuration>>
             /\ replayed[i].request = reply'.request <=> reply'.cached
  <2>1. PICK r \in Requests : HandleWireRequest(r) /\ reply'.request = r
    BY <1>1, AnswersAreReceived
  <2>2. i \in Known(r)
    BY <1>1, <2>1 DEF Known
  <2>3. \A j \in Known(r) : j = i
    BY <1>1, <2>2 DEF Known, Invariant, ServiceInv, IdsAreUnique
  <2>4. CASE ReplayExact(r)
    <3>1. PICK j \in Known(r) :
            /\ replayed[j].request = r
            /\ reply' = [request |-> r, status |-> replayed[j].status, cached |-> TRUE]
      BY <2>4 DEF ReplayExact
    <3>2. QED
      BY <2>1, <2>3, <2>4, <3>1 DEF ReplayExact, engineVars
  <2>5. CASE ReplayConflict(r)
    <3>1. replayed[i].request # r
      BY <2>3, <2>5 DEF ReplayConflict
    <3>2. ~reply'.cached
      BY <2>5 DEF ReplayConflict, Rejected
    <3>3. QED
      BY <2>1, <2>5, <3>1, <3>2 DEF ReplayConflict, engineVars
  <2>6. ~Execute(r)
    BY <2>2 DEF Execute
  <2>7. QED
    BY <2>1, <2>4, <2>5, <2>6 DEF HandleWireRequest
<1>2. ASSUME Invariant, [Next]_vars
      PROVE  [\A i \in 1 .. Len(replayed) :
                reply' # reply /\ reply' # NoReply /\ replayed[i].request.id = reply'.request.id =>
                  /\ UNCHANGED <<preset, graph_version, runtime, configuration>>
                  /\ (replayed[i].request = reply'.request <=> reply'.cached)]_serviceVars
  BY <1>1, <1>2
<1>3. QED
  BY <1>2, EngineInvariant, PTL DEF Spec, RememberedIdIsInert

\* How a step may write the file: with what was desired, with what an answer
\* makes of it, with the candidate, or with the default session the first time.
LEMMA FileWrites ==
  ASSUME Invariant, [Next]_vars, file' # file
  PROVE  \/ file = MissingFile
         \/ Up /\ writes_allowed /\ file' = desired
         \/ /\ Up /\ writes_allowed /\ reply # NoReply /\ reply.status = "Accepted"
            /\ ChangesPersisted(reply.request.command)
            /\ file' = Merged(reply.request.command)
         \/ Up /\ writes_allowed /\ topology # NoTopology /\ file' = topology
<1>1. CASE Startup
  BY <1>1 DEF Startup
<1>2. CASE MergeAndSave
  BY <1>2 DEF MergeAndSave, Saved, Invariant, SessionInv, OneInProgress
<1>3. CASE TopologySaved
  BY <1>3 DEF TopologySaved, Invariant, SessionInv, OneInProgress
<1>4. CASE Shutdown
  BY <1>4 DEF Shutdown, Saved, Idle
<1>5. UNCHANGED file \/ Startup \/ MergeAndSave \/ TopologySaved \/ Shutdown
  BY DEF Next, vars, appVars, sessionVars, RefuseToStart, ReceiveRequest,
     ConfigureVirtualAsioDevices, TopologySaveFailed, CrashRegistering, RequestStop, Crash,
     RuntimeStopsAlone
<1>6. QED
  BY <1>1, <1>2, <1>3, <1>4, <1>5

\* A file that could not be read stays as it is.
THEOREM UnreadableFileStays == Spec => UnreadableFileIsPreserved
<1>1. ASSUME Invariant, [Next]_vars
      PROVE  [file = UnreadableFile => UNCHANGED file]_vars
  <2>1. ASSUME file = UnreadableFile
        PROVE  UNCHANGED file
    BY <1>1, <2>1, FileWrites, MarksAssumption DEF Invariant, SessionInv, UnreadableIsKept
  <2>2. QED
    BY <2>1
<1>2. QED
  BY <1>1, EngineInvariant, PTL DEF Spec, UnreadableFileIsPreserved

\* The saved runtime intent changes with the commands that mean to, and only
\* with them unless a save has failed.
THEOREM RuntimeIntentIsKept == Spec => RuntimeIntentSurvives
<1> DEFINE Kept ==
      /\ file \notin {MissingFile, UnreadableFile}
      /\ \/ file'.audio_runtime # file.audio_runtime
         \/ file'.auto_start # file.auto_start
      => \/ /\ reply # NoReply
            /\ reply.request.command.type \in {"Configure", "Start", "Stop"}
            /\ reply.status = "Accepted"
         \/ ~save_ok
<1>1. ASSUME Invariant, [Next]_vars
      PROVE  Kept
  <2>1. SUFFICES ASSUME file \notin {MissingFile, UnreadableFile},
                        \/ file'.audio_runtime # file.audio_runtime
                        \/ file'.auto_start # file.auto_start,
                        save_ok
                 PROVE  /\ reply # NoReply
                        /\ reply.request.command.type \in {"Configure", "Start", "Stop"}
                        /\ reply.status = "Accepted"
    OBVIOUS
  <2>2. Up /\ writes_allowed => file = desired
    BY <1>1, <2>1 DEF Invariant, SessionInv, FileFollows
  <2>3. ~(Up /\ writes_allowed /\ file' = desired)
    BY <2>1, <2>2
  <2>4. ~(Up /\ writes_allowed /\ topology # NoTopology /\ file' = topology)
    BY <1>1, <2>1, <2>2 DEF Invariant, SessionInv, CandidateFollows
  <2>5. /\ Up /\ writes_allowed /\ reply # NoReply /\ reply.status = "Accepted"
        /\ ChangesPersisted(reply.request.command)
        /\ file' = Merged(reply.request.command)
    BY <1>1, <2>1, <2>3, <2>4, FileWrites
  <2>6. reply.request.command \in Commands /\ ServiceTypeOK /\ SessionTypeOK
    BY <1>1, <2>5 DEF Invariant, ServiceInv, ServiceTypeOK, SessionInv, Replies, Requests
  <2>7. ~(reply.request.command.type \in {"SetGain", "LoadPreset"})
    BY <2>1, <2>2, <2>5, <2>6, MergedType
  <2>8. QED
    BY <2>5, <2>6, <2>7 DEF Commands, ChangesPersisted
<1>2. ASSUME Invariant, [Next]_vars
      PROVE  [Kept]_vars
  BY <1>1, <1>2
<1>3. QED
  BY <1>2, EngineInvariant, PTL DEF Spec, RuntimeIntentSurvives
=============================================================================
