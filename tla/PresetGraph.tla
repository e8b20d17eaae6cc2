----------------------------- MODULE PresetGraph -----------------------------
(***************************************************************************)
(* What becomes of a preset: the checks of the document, the RouteMatrix   *)
(* and the graph built from it, the copying of its gains into a graph that *)
(* plays, and the processing of a block.  Operators only; what may be      *)
(* refused is the set of its results, empty when it is.                    *)
(*                                                                         *)
(* A block is one frame, since every node treats all frames alike: a       *)
(* buffer is the sequence of its channels' samples.  Samples and gains are *)
(* integers, with NaN for a gain that is not finite; an identifier is a    *)
(* string without line breaks.                                             *)
(***************************************************************************)
EXTENDS Integers, Sequences, FiniteSetsExt, SequencesExt

CONSTANTS NaN,                  \* a gain that is not finite
          MaximumSampleRate, MaximumFramesPerBlock, MaximumNodes,
          MaximumMatrixChannels

-----------------------------------------------------------------------------
(* validate_preset() *)

IdsOf(list) == [i \in DOMAIN list |-> list[i].id]

\* Ids and labels that are there, and ids that differ.
WellNamed(list) ==
  /\ \A i \in DOMAIN list : list[i].id # "" /\ list[i].label # ""
  /\ IsInjective(IdsOf(list))

WellNamedSide(list) == Len(list) \in 1 .. MaximumMatrixChannels /\ WellNamed(list)

Crosspoint(route) == <<route.input, route.output>>

ValidRoutes(p) ==
  /\ Len(p.routes) <= MaximumMatrixChannels * MaximumMatrixChannels
  /\ \A r \in Range(p.routes) : /\ r.input \in Range(IdsOf(p.inputs))
                                /\ r.output \in Range(IdsOf(p.outputs))
                                /\ r.gain # NaN
  /\ IsInjective([i \in DOMAIN p.routes |-> Crosspoint(p.routes[i])])

ValidPreset(p) ==
  /\ p.schema # 0
  /\ p.rate \in 1 .. MaximumSampleRate /\ p.frames \in 1 .. MaximumFramesPerBlock
  /\ Len(p.nodes) <= MaximumNodes /\ WellNamed(p.nodes)
  /\ \A i \in DOMAIN p.nodes : p.nodes[i].type # ""
  /\ WellNamedSide(p.inputs) /\ WellNamedSide(p.outputs)
  /\ ValidRoutes(p)

\* find_route_matrix_node(): one node, and it is a matrix.
HasMatrixNode(p) == Len(p.nodes) = 1 /\ p.nodes[1].type = "route_matrix"

-----------------------------------------------------------------------------
(* RouteMatrix *)

\* The constructor throws when a side has no endpoint or a name is missing.
NewMatrix(inputs, outputs) ==
  IF inputs # <<>> /\ outputs # <<>> /\ WellNamed(inputs) /\ WellNamed(outputs)
  THEN {[inputs |-> IdsOf(inputs), outputs |-> IdsOf(outputs),
         gains |-> [k \in 1 .. Len(inputs) * Len(outputs) |-> 0]]}
  ELSE {}

\* The gains are one array, output by output.
Index(m, i, o) == (o - 1) * Len(m.inputs) + i

SetGain(m, i, o, gain) ==
  IF i \in DOMAIN m.inputs /\ o \in DOMAIN m.outputs /\ gain # NaN
  THEN [m EXCEPT !.gains[Index(m, i, o)] = gain]
  ELSE m

Gain(m, i, o) ==
  IF i \in DOMAIN m.inputs /\ o \in DOMAIN m.outputs THEN m.gains[Index(m, i, o)] ELSE 0

\* copy_gains_from(): refused unless the ports are the same, in the same order.
CopyGainsFrom(m, source) ==
  IF m.inputs = source.inputs /\ m.outputs = source.outputs
  THEN {FoldLeft(LAMBDA to, at : SetGain(to, at[1], at[2], Gain(source, at[1], at[2])),
                 m, SetToSeq((DOMAIN m.inputs) \X (DOMAIN m.outputs)))}
  ELSE {}

Position(list, id) == CHOOSE i \in DOMAIN list : list[i].id = id

\* build_route_matrix(): a muted route keeps the gain 0 of a new matrix.
BuildRouteMatrix(p) ==
  LET set(m, r) == SetGain(m, Position(p.inputs, r.input), Position(p.outputs, r.output), r.gain)
  IN  IF ~ValidPreset(p) THEN {}
      ELSE {FoldLeft(LAMBDA to, r : IF r.muted THEN to ELSE set(to, r), m, p.routes)
              : m \in NewMatrix(p.inputs, p.outputs)}

-----------------------------------------------------------------------------
(* Nodes: what each makes of its input in a cleared output of some width *)

Cleared(width) == [c \in 1 .. width |-> 0]

\* AudioBuffer::copy_from()
Copied(in, width) == [c \in 1 .. width |-> IF c <= Len(in) THEN in[c] ELSE 0]

Scaled(in, width, by) == [c \in 1 .. width |-> by * Copied(in, width)[c]]

\* RouteMatrix::process(): ports without a channel, and channels without a
\* port, are left out.
MatrixMix(m, in, width) ==
  LET inputs == 1 .. Min({Len(in), Len(m.inputs)})
  IN  [c \in 1 .. width |->
         IF c > Len(m.outputs) THEN 0
         ELSE MapThenSumSet(LAMBDA i : in[i] * Gain(m, i, c), inputs)]

\* BusNode::process(): the inputs folded onto the bus's channels.
BusMix(channels, in, width) ==
  LET outputs == Min({channels, width})
  IN  [c \in 1 .. width |->
         IF c > outputs THEN 0
         ELSE MapThenSumSet(LAMBDA i : in[i], {i \in DOMAIN in : i >= c /\ (i - c) % outputs = 0})]

\* A meter copies; what it reads is left out.
ProcessNode(node, in, width) ==
  CASE node.kind \in {"passthrough", "meter"} -> Copied(in, width)
    [] node.kind = "gain"     -> Scaled(in, width, node.gain)
    [] node.kind = "mute"     -> IF node.muted THEN Cleared(width) ELSE Copied(in, width)
    [] node.kind = "bus"      -> BusMix(node.channels, in, width)
    [] node.kind = "polarity" -> Scaled(in, width, IF node.inverted THEN -1 ELSE 1)
    [] node.kind = "matrix"   -> MatrixMix(node.matrix, in, width)

-----------------------------------------------------------------------------
(* GraphBuilder, Graph *)

\* GraphBuilder::build() and validate()
BuildGraph(version, channels, frames, rate, nodes) ==
  IF /\ 0 \notin {version, channels, frames, rate}
     /\ WellNamed(nodes)
     /\ IsInjective([i \in DOMAIN nodes |-> nodes[i].label])
  THEN {[version |-> version, channels |-> channels, frames |-> frames, rate |-> rate,
         nodes |-> nodes]}
  ELSE {}

\* build_preset_graph()
BuildPresetGraph(p, version) ==
  IF ~ValidPreset(p) \/ ~HasMatrixNode(p) THEN {}
  ELSE UNION {BuildGraph(version, Max({Len(m.inputs), Len(m.outputs)}), p.frames, p.rate,
                         <<[id |-> p.nodes[1].id, label |-> p.nodes[1].label,
                            kind |-> "matrix", matrix |-> m]>>)
                : m \in BuildRouteMatrix(p)}

\* The buffer node k of n writes: the scratch buffers in turn, then the output.
Destination(k, n) == IF k = n THEN "output" ELSE IF k % 2 = 1 THEN "scratch_a" ELSE "scratch_b"

\* A node's output is cleared before the node reads its input.
RunNode(graph, at, k) ==
  LET to      == Destination(k, Len(graph.nodes))
      cleared == [at.buffers EXCEPT ![to] = Cleared(Len(@))]
  IN  [current |-> to,
       buffers |-> [cleared EXCEPT
                      ![to] = ProcessNode(graph.nodes[k], cleared[at.current], Len(@))]]

\* Graph::process() of `input' into an output of some width, with whatever the
\* block before has left in the scratch buffers.
Process(graph, input, width, left) ==
  LET begin == [current |-> "input",
                buffers |-> [input |-> input, scratch_a |-> left.a, scratch_b |-> left.b,
                             output |-> Cleared(width)]]
      nodes == [k \in DOMAIN graph.nodes |-> k]
  IN  IF graph.nodes = <<>> THEN Copied(input, width)
      ELSE FoldLeft(LAMBDA at, k : RunNode(graph, at, k), begin, nodes).buffers["output"]

\* Graph::apply_realtime_parameters_from()
ApplyRealtimeParameters(graph, source) ==
  LET alike(k) == (graph.nodes[k].kind = "matrix") <=> (source.nodes[k].kind = "matrix")
      copied(k) == CopyGainsFrom(graph.nodes[k].matrix, source.nodes[k].matrix)
      matrices == {k \in DOMAIN graph.nodes : graph.nodes[k].kind = "matrix"}
  IN  IF /\ IdsOf(graph.nodes) = IdsOf(source.nodes)
         /\ \A k \in DOMAIN graph.nodes : alike(k)
         /\ \A k \in matrices : copied(k) # {}
      THEN {[graph EXCEPT !.nodes = [k \in DOMAIN graph.nodes |->
               IF k \in matrices THEN [graph.nodes[k] EXCEPT !.matrix = CHOOSE m \in copied(k) : TRUE]
                                 ELSE graph.nodes[k]]]}
      ELSE {}
-----------------------------------------------------------------------------
(* What a preset promises, without the index arithmetic, the order of the   *)
(* routes and the buffers.                                                  *)

\* An output's channel is the sum of the routes to it that are not muted.
Promised(p, input, width) ==
  [c \in 1 .. width |->
     IF c > Len(p.outputs) THEN 0
     ELSE LET heard == {r \in Range(p.routes) : ~r.muted /\ r.output = p.outputs[c].id}
          IN  MapThenSumSet(LAMBDA r : IF Position(p.inputs, r.input) <= Len(input)
                                       THEN r.gain * input[Position(p.inputs, r.input)] ELSE 0,
                            heard)]

\* A chain of nodes is their composition, every one between two buffers of its own.
Composed(graph, input, width) ==
  LET n == Len(graph.nodes)
      f[k \in 0 .. n] == IF k = 0 THEN input
                         ELSE ProcessNode(graph.nodes[k], f[k - 1],
                                          IF k = n THEN width ELSE graph.channels)
  IN  IF n = 0 THEN Copied(input, width) ELSE f[n]
=============================================================================
