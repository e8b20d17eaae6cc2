--------------------------- MODULE MCControlSession ---------------------------
(***************************************************************************)
(* What is asked of PresetGraph and ControlSession, over all presets of up *)
(* to two ports a side and two routes, sessions after up to two commands,  *)
(* and chains of up to three nodes.                                        *)
(***************************************************************************)
LOCAL INSTANCE Integers
LOCAL INSTANCE Sequences
LOCAL INSTANCE FiniteSetsExt
LOCAL INSTANCE SequencesExt

NotFinite == 99                 \* no gain and no sum of gains

INSTANCE ControlSession WITH
  NaN <- NotFinite, MaximumSampleRate <- 2, MaximumFramesPerBlock <- 2, MaximumNodes <- 2,
  MaximumMatrixChannels <- 2, MaximumEndpoints <- 1, MaximumVirtualAsioDevices <- 1

-----------------------------------------------------------------------------
(* Instances *)

Named(id) == [id |-> id, label |-> id]
MatrixNode == [id |-> "m", label |-> "m", type |-> "route_matrix"]

InputSides == {<<Named("i1")>>, <<Named("i1"), Named("i2")>>, <<Named("i2"), Named("i1")>>}
OutputSides == {<<Named("o1")>>, <<Named("o2"), Named("o1")>>}

Route(i, o, gain, muted) == [input |-> i, output |-> o, gain |-> gain, muted |-> muted]
AnyRoute == {Route(i, o, 2, muted) : i \in {"i1", "i2"}, o \in {"o1", "o2"}, muted \in BOOLEAN}
RouteLists == {<<>>} \union {<<r>> : r \in AnyRoute}
                \union {<<r, [q EXCEPT !.gain = -1]>> : r \in AnyRoute, q \in AnyRoute}

Preset(inputs, outputs, routes) ==
  [schema |-> 1, rate |-> 1, frames |-> 1, nodes |-> <<MatrixNode>>,
   inputs |-> inputs, outputs |-> outputs, routes |-> routes]

Presets == {p \in {Preset(i, o, r) : i \in InputSides, o \in OutputSides, r \in RouteLists} :
              ValidPreset(p)}

\* A document that is valid and has no graph, and one that is not valid.
Widest == Preset(<<Named("i1"), Named("i2")>>, <<Named("o2"), Named("o1")>>, <<>>)
Mixed == [Widest EXCEPT !.nodes = <<MatrixNode, [Named("n") EXCEPT !.label = "n"] @@ [type |-> "n"]>>]
Broken == [Widest EXCEPT !.routes = <<Route("i1", "i1", 1, FALSE)>>]

Starting == UNION {Create(p, 1) : p \in {Preset(i, o, <<>>) : i \in InputSides, o \in OutputSides}}

Command(type) == [schema |-> 1, id |-> "c", type |-> type]
Edit(type, i, o) == Command(type) @@ [input |-> i, output |-> o]
Edits ==
  UNION {{Edit("ConnectRoute", i, o) @@ [gain |-> 2], Edit("DisconnectRoute", i, o),
          Edit("SetGain", i, o) @@ [gain |-> -1], Edit("SetGain", i, o) @@ [gain |-> NotFinite],
          Edit("SetMute", i, o) @@ [mute |-> TRUE], Edit("SetMute", i, o) @@ [mute |-> FALSE]}
           : i \in {"i1", "i2"}, o \in {"o1", "o2"}}
Loads == {Command("LoadPreset") @@ [preset |-> p]
            : p \in {Mixed, Broken, [Widest EXCEPT !.routes = <<Route("i2", "o1", 2, FALSE)>>]}}
Endpoints == {Command("CreateVirtualEndpoint") @@ [endpoint |-> e, label |-> "l"] : e \in {"", "e", "f"}}
               \union {Command("RemoveVirtualEndpoint") @@ [endpoint |-> e] : e \in {"e", "f"}}
Others == {Command(type) : type \in {"QuerySessionState", "SavePreset", "StartAudioRuntime"}}
Commands == Edits \union Loads \union Endpoints \union Others

After(sessions) == sessions \union {Handle(s, c).session : s \in sessions, c \in Commands}

Inputs == {<<>>, <<1>>, <<1, 10>>, <<1, 10, 100>>}
Left == [a |-> <<7, 7>>, b |-> <<5, 5>>]

Plays(graph, p) ==
  \A input \in Inputs, width \in 1 .. 3 :
    Process(graph, input, width, Left) = Promised(p, input, width)

-----------------------------------------------------------------------------
(* Properties *)

\* A preset has a graph exactly when it is valid and its one node is a matrix,
\* and the graph plays what the preset's routes say: validators, builder and
\* matrix agree, so that no accepted preset makes a constructor throw.
PresetsPlay ==
  /\ \A p \in Presets : \E g \in BuildPresetGraph(p, 1) : Plays(g, p)
  /\ BuildPresetGraph(Mixed, 1) = {} /\ BuildPresetGraph(Broken, 1) = {}

\* Gains copied into a playing graph leave it playing the other preset, and are
\* refused when a port differs.
LiveUpdatePlays ==
  \A p, q \in Presets :
    LET ofP == CHOOSE g \in BuildPresetGraph(p, 1) : TRUE
        ofQ == CHOOSE g \in BuildPresetGraph(q, 2) : TRUE
        live == ApplyRealtimeParameters(ofP, ofQ)
    IN  IF p.inputs = q.inputs /\ p.outputs = q.outputs
        THEN \E g \in live : g.nodes = ofQ.nodes /\ g.version = 1
        ELSE live = {}

\* A chain of nodes that shares two scratch buffers, whatever is left in them,
\* is the composition of its nodes.
ChainsCompose ==
  LET kinds == {[kind |-> "passthrough"], [kind |-> "gain", gain |-> 3], [kind |-> "mute", muted |-> TRUE],
                [kind |-> "bus", channels |-> 1], [kind |-> "polarity", inverted |-> TRUE],
                [kind |-> "matrix", matrix |-> [inputs |-> <<"i1", "i2">>, outputs |-> <<"o2", "o1">>,
                                                gains |-> <<0, 2, 1, -1>>]]}
      chains == UNION {[1 .. n -> kinds] : n \in 0 .. 3}
  IN  \A nodes \in chains, input \in Inputs, width \in 1 .. 3 :
        LET graph == [nodes |-> nodes, channels |-> 2]
        IN  Process(graph, input, width, Left) = Composed(graph, input, width)

\* A bus sums every input into exactly one of its outputs.
BusesKeepEverything ==
  \A input \in Inputs, channels \in 1 .. 3, width \in 1 .. 3 :
    MapThenSumSet(LAMBDA c : BusMix(channels, input, width)[c], 1 .. width)
      = MapThenSumSet(LAMBDA i : input[i], DOMAIN input)

\* Whatever commands a session has handled: its graph is built from its preset
\* and has the version before the next, its endpoints can be listed, and a
\* rejected command has changed nothing.
SessionsAreConsistent ==
  \A s \in After(After(Starting)) :
    /\ BuildPresetGraph(s.preset, s.next - 1) = {s.graph}
    /\ Listable(s.endpoints)
    /\ \A c \in Commands : Handle(s, c).status = "Rejected" => Handle(s, c).session = s

\* A batch does what its commands do one after the other, with one graph; when
\* one of them is refused it does nothing.
BatchesAreAtomic ==
  \A s \in Starting, first \in Edits \union Others, second \in Edits \union Loads :
    LET one   == Handle(s, first)
        two   == Handle(one.session, second)
        batch == HandleBatch(s, "b", <<first, second>>)
    IN  IF MutatesPreset(first) /\ "Rejected" \notin {one.status, two.status}
        THEN batch.status = "Accepted" /\ batch.session.preset = two.session.preset
             /\ batch.session.next = s.next + 1
        ELSE batch = Rejected(s)
=============================================================================
