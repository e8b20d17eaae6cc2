---------------------------- MODULE ControlSession ----------------------------
(***************************************************************************)
(* The control session: which commands are valid, what each makes of the   *)
(* preset, and handle() and handle_batch() as functions from a session to  *)
(* the session after them and the status of the answer.  A session is its  *)
(* preset, the graph it has published, the version the next graph gets,    *)
(* and the virtual endpoints.                                               *)
(***************************************************************************)
EXTENDS PresetGraph

CONSTANTS MaximumEndpoints,     \* kMaximumAudioRuntimeEndpoints
          MaximumVirtualAsioDevices

-----------------------------------------------------------------------------
(* validate_command() *)

HasPhysicalAsioFields(c) ==
  c.clsid # "" \/ c.rate # 0 \/ c.frames # 0 \/ c.inputs # <<>> \/ c.outputs # <<>>

HasLegacyDevices(c) == c.capture # "" \/ c.render # ""

\* validate_audio_runtime_configuration(): the fields of the other modes are
\* empty.  What the endpoints of a matrix need: ValidConfiguration of MatrixRuntime.
ValidAudioRuntime(c) ==
  CASE c.mode = "PhysicalAsio" ->
         /\ ~HasLegacyDevices(c) /\ c.endpoints = <<>>
         /\ c.clsid # "" /\ c.rate # 0 /\ c.frames # 0
         /\ IsInjective(c.inputs) /\ IsInjective(c.outputs)
    [] c.mode = "WasapiRender" ->
         c.capture = "" /\ c.endpoints = <<>> /\ ~HasPhysicalAsioFields(c)
    [] c.mode = "WasapiDuplex" ->
         /\ (c.capture = "") <=> (c.render = "")
         /\ c.endpoints = <<>> /\ ~HasPhysicalAsioFields(c)
    [] c.mode = "WasapiMatrix" ->
         /\ ~HasLegacyDevices(c) /\ ~HasPhysicalAsioFields(c)
         /\ Len(c.endpoints) \in 1 .. MaximumEndpoints
    [] OTHER -> FALSE           \* a runtime without a mode cannot be configured

NamesCrosspoint(c) == c.input # "" /\ c.output # ""

ValidCommand(c) ==
  /\ c.schema # 0 /\ c.id # ""
  /\ CASE c.type = "ConfigureVirtualAsioDevices" -> c.devices \in 1 .. MaximumVirtualAsioDevices
       [] c.type = "ConfigureAudioRuntime"   -> ValidAudioRuntime(c.audio)
       [] c.type = "CreateVirtualEndpoint"   -> c.endpoint # "" /\ c.label # ""
       [] c.type = "RemoveVirtualEndpoint"   -> c.endpoint # ""
       [] c.type \in {"ConnectRoute", "SetGain"} -> NamesCrosspoint(c) /\ c.gain # NaN
       [] c.type \in {"DisconnectRoute", "SetMute"} -> NamesCrosspoint(c)
       [] c.type = "LoadPreset"              -> ValidPreset(c.preset)
       [] OTHER -> TRUE

\* control_command_mutates_preset()
MutatesPreset(c) ==
  c.type \in {"ConnectRoute", "DisconnectRoute", "SetGain", "SetMute", "LoadPreset"}

-----------------------------------------------------------------------------
(* apply_command() *)

\* find_route(): the places of the crosspoint's route, of which there is one.
Found(p, c) == {k \in DOMAIN p.routes : Crosspoint(p.routes[k]) = Crosspoint(c)}

Edited(p, c) ==
  CASE c.type = "LoadPreset" -> {c.preset}
    [] c.type = "ConnectRoute" ->
         IF Found(p, c) # {} THEN {}
         ELSE {[p EXCEPT !.routes = Append(@, [input |-> c.input, output |-> c.output,
                                               gain |-> c.gain, muted |-> FALSE])]}
    [] c.type = "DisconnectRoute" -> {[p EXCEPT !.routes = RemoveAt(@, k)] : k \in Found(p, c)}
    [] c.type = "SetGain" -> {[p EXCEPT !.routes[k].gain = c.gain] : k \in Found(p, c)}
    [] c.type = "SetMute" -> {[p EXCEPT !.routes[k].muted = c.mute] : k \in Found(p, c)}
    [] OTHER -> {p}

Apply(p, c) ==
  IF ValidCommand(c) /\ (c.type = "LoadPreset" \/ ValidPreset(p))
  THEN {next \in Edited(p, c) : ValidPreset(next)}
  ELSE {}

-----------------------------------------------------------------------------
(* ControlSession *)

Create(p, version) ==
  {[preset |-> p, graph |-> g, next |-> version + 1, endpoints |-> <<>>]
     : g \in BuildPresetGraph(p, version)}

\* prepare_preset_update() and commit_preset_update(): the graph is published
\* and the preset replaced, or neither.
Updated(s, c) ==
  UNION {{[s EXCEPT !.preset = p, !.graph = g, !.next = @ + 1]
            : g \in BuildPresetGraph(p, s.next)} : p \in Apply(s.preset, c)}

Accepted(sessions) == {[session |-> s, status |-> "Accepted"] : s \in sessions}
Rejected(s) == [session |-> s, status |-> "Rejected"]

\* The answer of an operation that is refused when it has no result.
Outcome(s, sessions) ==
  IF sessions = {} THEN Rejected(s) ELSE CHOOSE o \in Accepted(sessions) : TRUE

\* make_virtual_endpoint()
NewEndpoint(p, c) ==
  [id |-> c.endpoint, label |-> c.label, rate |-> p.rate, frames |-> p.frames,
   channels |-> Max({Len(p.inputs), Len(p.outputs)})]

\* VirtualEndpointRegistry::add_endpoint() and remove_endpoint()
WithEndpoint(s, e) ==
  IF 0 \in {e.rate, e.frames, e.channels} \/ e.id \in Range(IdsOf(s.endpoints)) THEN {}
  ELSE {[s EXCEPT !.endpoints = Append(@, e)]}

WithoutEndpoint(s, id) ==
  {[s EXCEPT !.endpoints = RemoveAt(@, k)] : k \in {k \in DOMAIN s.endpoints : s.endpoints[k].id = id}}

\* VirtualEndpointRegistry::list_devices(): the descriptors are checked again.
Listable(endpoints) ==
  WellNamed(endpoints) /\ \A e \in Range(endpoints) : 0 \notin {e.rate, e.frames, e.channels}

RuntimeCommands ==
  {"QueryAudioRuntime", "StartAudioRuntime", "StopAudioRuntime", "ConfigureAudioRuntime",
   "QueryVirtualAsioDevices", "ConfigureVirtualAsioDevices"}

\* ControlSession::handle()
Handle(s, c) ==
  CASE ~ValidCommand(c) \/ c.type \in RuntimeCommands -> Rejected(s)
    [] ValidCommand(c) /\ c.type \in {"QuerySessionState", "ListDevices"} ->
         Outcome(s, IF Listable(s.endpoints) THEN {s} ELSE {})
    [] ValidCommand(c) /\ c.type = "CreateVirtualEndpoint" ->
         Outcome(s, WithEndpoint(s, NewEndpoint(s.preset, c)))
    [] ValidCommand(c) /\ c.type = "RemoveVirtualEndpoint" ->
         Outcome(s, WithoutEndpoint(s, c.endpoint))
    [] ValidCommand(c) /\ MutatesPreset(c) -> Outcome(s, Updated(s, c))
    [] OTHER -> Outcome(s, {s})

\* ControlSession::handle_batch(): every command on the preset the one before
\* has left, then one update to the last.
HandleBatch(s, id, commands) ==
  LET applied(presets, c) ==
        IF MutatesPreset(c) THEN UNION {Apply(p, c) : p \in presets} ELSE {}
      last == FoldLeft(applied, {s.preset}, commands)
      load(p) == [schema |-> 1, id |-> id, type |-> "LoadPreset", preset |-> p]
  IN  IF id = "" \/ commands = <<>> THEN Rejected(s)
      ELSE Outcome(s, UNION {Updated(s, load(p)) : p \in last})
=============================================================================
