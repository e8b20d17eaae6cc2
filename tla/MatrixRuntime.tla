---------------------------- MODULE MatrixRuntime ----------------------------
(***************************************************************************)
(* The runtime of mode WasapiMatrix: a master, whose device drives the     *)
(* graph, and followers with clocks of their own. A capture follower's     *)
(* blocks wait in a queue, from which the master's cycle takes them        *)
(* through a rate matcher; what the graph makes of a cycle is cut into a   *)
(* slice for each render follower, waits in that follower's queue and is   *)
(* taken through its rate matcher. Starting and stopping visit one member  *)
(* after the other, while those that run go on, and any may give up.       *)
(*                                                                         *)
(* Audio moves in whole blocks. A block of a capture endpoint is a number; *)
(* a sample is the endpoint it was captured at, the channel, and that      *)
(* number; what an output plays is the set of the samples mixed into it.   *)
(* A rate matcher here takes one block for one: how its controller trims   *)
(* the ratio of two clocks is left to its FIFO's having a block or not.    *)
(***************************************************************************)
EXTENDS Integers, Sequences, FiniteSetsExt, SequencesExt

CONSTANTS Configurations,       \* sequences of endpoints, valid or not
          Asio,                 \* stands for the Virtual ASIO clients
          AsioChannels,
          Matrices,             \* presets: inputs and outputs, sequences of ports
          RouteSets,            \* routes a preset may have: pairs of ports
          RingBlocks,           \* kEndpointQueueCapacityBlocks
          FifoBlocks,           \* kFifoBlocks
          LatencyBlocks,        \* latency_blocks, the target of the FIFO
          DrainBlocks           \* kMaximumDrainBlocksPerRead

ASSUME MatrixRuntimeAssumption ==
  /\ {RingBlocks, FifoBlocks, LatencyBlocks, DrainBlocks, AsioChannels} \subseteq Nat \ {0}
  /\ LatencyBlocks < FifoBlocks
  /\ \A c \in Configurations : /\ c \in Seq(Range(c))
                               /\ \A e \in Range(c) : e.channels \in Nat /\ e.id # Asio
  /\ \A m \in Matrices : /\ m.inputs \in Seq(Range(m.inputs))
                         /\ m.outputs \in Seq(Range(m.outputs))

Port(endpoint, k) == <<endpoint, k>>
Numbers == 0 .. RingBlocks + FifoBlocks  \* block numbers wrap around

VARIABLES configuration, \* AudioRuntimeConfiguration.endpoints
          matrix,       \* the matrix of the preset
          phase,        \* of MultiEndpointAudioRuntime
          order,        \* its members, the master last
          direct,       \* captures that are the master's own ASIO driver's
          first,        \* graph_first_channel of each bound endpoint
          channels,     \* their number of channels
          next,         \* the member the loop of start or stop is at
          alive,        \* members whose thread runs
          held,         \* history: members whose driver refused the last stop they were asked for
          routes,       \* gains of the graph's RouteMatrix
          target,       \* gains that are being copied into it
          accepted,     \* of each capture: the number of its last block queued
          ring, fifo,   \* of each follower: its queue, its rate matcher's input
          primed,       \* of each follower's rate matcher
          heard,        \* of each capture: the last block the graph has read
          silent,       \* of each follower: the last read had nothing
          played        \* of each render endpoint: the last block it played

preset == <<configuration, matrix>>
opened == <<order, direct, first, channels>>
lifecycle == <<phase, next, alive, held>>
gains == <<routes, target>>
streams == <<accepted, ring, fifo, primed, heard, silent, played>>
vars == <<preset, opened, lifecycle, gains, streams>>

Followers == DOMAIN ring \ DOMAIN accepted
Captures == DOMAIN accepted
Master == order[Len(order)]

-----------------------------------------------------------------------------
(* The configuration *)

Endpoints == Range(configuration)
Ids(endpoints) == {e.id : e \in endpoints}
Physical == {e \in Endpoints : e.backend = "asio"}

\* What must differ between endpoints: a native device opens once a direction.
NativeKey(e) == <<e.backend, e.direction, IF e \in Physical THEN e.group ELSE e.device>>

\* One driver at most, with both directions, and its output drives the clock.
PhysicalGroupIsWhole ==
  /\ Cardinality({e.group : e \in Physical}) <= 1
  /\ \A e \in Physical :
       /\ e.direction = "render" => e.master
       /\ \E other \in Physical :
            /\ other.direction # e.direction
            /\ <<other.group, other.device>> = <<e.group, e.device>>

\* validate_audio_runtime_configuration() of mode WasapiMatrix.
ValidConfiguration ==
  /\ Cardinality(Ids(Endpoints)) = Len(configuration)
  /\ Cardinality({NativeKey(e) : e \in Endpoints}) = Len(configuration)
  /\ \A e \in Endpoints : /\ e.channels > 0
                          /\ e.master => e.direction = "render"
                          /\ (e.group = "") <=> e \notin Physical
  /\ Cardinality({e \in Endpoints : e.master}) = 1
  /\ PhysicalGroupIsWhole

-----------------------------------------------------------------------------
(* build_audio_runtime_topology() and bind_audio_runtime_to_matrix() *)

Axis(e) == IF e.direction = "render" THEN matrix.outputs ELSE matrix.inputs
Has(e, k) == Port(e.id, k) \in Range(Axis(e))
Place(e, k) == CHOOSE i \in DOMAIN Axis(e) : Axis(e)[i] = Port(e.id, k)

\* The endpoint's ports are all there, in native order and without a gap.
Bound(e) ==
  \A k \in 1 .. e.channels : Has(e, k) /\ Place(e, k) = Place(e, 1) + k - 1

\* virtual_asio_matrix_profile(): so are the ports of the DAWs, whose channels
\* are as many; they are numbered in the order of the axis.
AsioEndpoint == [id |-> Asio, direction |-> "capture", channels |-> AsioChannels]
Bindings == Endpoints \union {AsioEndpoint}

MasterEndpoint == CHOOSE e \in Endpoints : e.master

\* The capture endpoints and render followers get a queue each; the endpoints
\* of a driver do not, its master reads and writes its buffers itself.
CaptureEndpoints == {e \in Endpoints \ Physical : e.direction = "capture"}
RenderFollowers == {e \in Endpoints \ Physical : e.direction = "render" /\ ~e.master}
PhysicalCapture ==
  {e \in Physical : /\ e.direction = "capture"
                    /\ MasterEndpoint \in Physical /\ e.group = MasterEndpoint.group}

-----------------------------------------------------------------------------
(* The audio path *)

\* Fault: the fill is compared with the target before the queue is drained.
FaultRead(e) ==
  LET ready  == primed[e] \/ Len(fifo[e]) >= LatencyBlocks
      moved  == IF ready THEN Min({Len(ring[e]), DrainBlocks}) ELSE 0
      filled == fifo[e] \o SubSeq(ring[e], 1, moved)
      ok     == ready /\ filled # <<>>
  IN  [ok |-> ok, primed |-> ready, block |-> filled,
       ring |-> SubSeq(ring[e], moved + 1, Len(ring[e])),
       fifo |-> IF ok THEN Tail(filled) ELSE filled]

\* RealtimeAudioRateMatchingSource::read(): drain the queue into the FIFO as
\* far as it has room, wait once for the target fill, take a block.
Read(e) ==
  LET moved  == Min({Len(ring[e]), DrainBlocks, FifoBlocks - Len(fifo[e])})
      filled == fifo[e] \o SubSeq(ring[e], 1, moved)
      ready  == primed[e] \/ Len(filled) >= LatencyBlocks
      ok     == ready /\ filled # <<>>
  IN  [ok |-> ok, primed |-> ready, block |-> filled,
       ring |-> SubSeq(ring[e], moved + 1, Len(ring[e])),
       fifo |-> IF ok THEN Tail(filled) ELSE filled]

\* Fault: a full queue makes room by dropping what it has.
FaultPublish(queue, block) ==
  IF Len(queue) < RingBlocks THEN Append(queue, block) ELSE <<block>>

\* VirtualAsioCaptureBus::write(): a block that finds the queue full is dropped.
Publish(queue, block) ==
  IF Len(queue) < RingBlocks THEN Append(queue, block) ELSE queue

\* What a cycle gets from each capture endpoint and from the DAWs: the endpoints
\* that have a block, and the number of each one's last.
Reads == [c \in Captures \ direct |-> Read(c)]
Got(read) ==
  [endpoints |-> {Asio} \union direct \union {c \in Captures \ direct : read[c].ok},
   number |-> [e \in Captures \union {Asio} |->
     CASE e = Asio -> 0
       [] e \in direct -> (heard[e] + 1) % Cardinality(Numbers)
       [] OTHER -> IF read[e].ok THEN Head(read[e].block) ELSE heard[e]]]

SamplesOf(endpoint, k, got) ==
  IF endpoint \in got.endpoints THEN {<<endpoint, k, got.number[endpoint]>>} ELSE {}

\* Fault: the source is copied to the channels after its own.
FaultAssemble(i, got) ==
  UNION {SamplesOf(e, i - first[e], got) :
           e \in {e \in Captures \union {Asio} : i - first[e] \in 1 .. channels[e]}}

\* RealtimeAudioInputAssembler::read(), and the copy of the master's own
\* inputs: graph channel i has the source whose range it is in.
Assemble(i, got) ==
  UNION {SamplesOf(e, i - first[e] + 1, got) :
           e \in {e \in Captures \union {Asio} : i - first[e] + 1 \in 1 .. channels[e]}}

\* RouteMatrix::process(): an output is the sum of the inputs with a gain.
Mix(o, got, seen) ==
  UNION {Assemble(i, got) : i \in
    {i \in 1 .. Len(matrix.inputs) : <<matrix.inputs[i], matrix.outputs[o]>> \in seen}}

\* The reference: what the preset's routes say, by the names of the ports.
Sources == UNION {{Port(e, k) : k \in 1 .. channels[e]} : e \in Captures \union {Asio}}
Named(port, got, seen) ==
  UNION {SamplesOf(p[1], p[2], got) : p \in {p \in Sources : <<p, port>> \in seen}}
Due(endpoint, got, seen) ==
  [k \in 1 .. channels[endpoint] |-> Named(Port(endpoint, k), got, seen)]

\* RealtimeAudioChannelSliceSink::write(), or the master's own output.
Slice(endpoint, got, seen) ==
  [audio |-> [k \in 1 .. channels[endpoint] |-> Mix(first[endpoint] + k - 1, got, seen)],
   due   |-> Due(endpoint, got, seen)]

\* While gains are copied a cycle may see the old or the new one of each route.
SeenRoutes ==
  LET changed == (routes \union target) \ (routes \intersect target)
  IN  {(routes \intersect target) \union part : part \in SUBSET changed}

-----------------------------------------------------------------------------
(* Opening, starting and stopping *)

Silence(e) ==
  LET none == [k \in 1 .. e.channels |-> {}]
  IN  [audio |-> none, due |-> none]

ById(endpoints, value(_)) ==
  [id \in Ids(endpoints) |-> value(CHOOSE e \in endpoints : e.id = id)]

\* open_windows_wasapi_matrix_runtime() of a valid configuration: every
\* endpoint has its range of the matrix and its device, or nothing is opened.
Open ==
  LET captures == CaptureEndpoints \union PhysicalCapture
      queued   == CaptureEndpoints \union RenderFollowers
  IN  /\ phase = "closed" /\ ValidConfiguration
      /\ \A e \in Bindings : Bound(e)
      /\ phase' = "stopped"
      /\ order' = SetToSeq(Ids(RenderFollowers)) \o SetToSeq(Ids(CaptureEndpoints))
                    \o <<MasterEndpoint.id>>
      /\ direct' = Ids(PhysicalCapture)
      /\ first' = ById(Bindings, LAMBDA e : Place(e, 1))
      /\ channels' = ById(Bindings, LAMBDA e : e.channels)
      /\ accepted' = [id \in Ids(captures) |-> 0] /\ heard' = accepted'
      /\ ring' = [id \in Ids(queued) |-> <<>>] /\ fifo' = ring'
      /\ primed' = [id \in Ids(queued) |-> FALSE]
      /\ silent' = [id \in Ids(queued) |-> TRUE]
      /\ played' = ById(Endpoints \ captures, Silence)
      /\ UNCHANGED <<preset, next, alive, held, gains>>

\* A device that cannot be probed, an endpoint without its range, or a
\* configuration that is not valid.
OpenFails ==
  /\ phase = "closed"
  /\ phase' = "refused"
  /\ UNCHANGED <<preset, opened, next, alive, held, gains, streams>>

\* MultiEndpointAudioRuntime::start() begins with the first follower.
BeginStart ==
  /\ phase = "stopped"
  /\ phase' = "starting" /\ next' = 1
  /\ UNCHANGED <<preset, opened, alive, held, gains, streams>>

MemberStarts ==
  /\ phase = "starting"
  /\ alive' = alive \union {order[next]} /\ held' = held \ {order[next]}
  /\ IF next = Len(order) THEN phase' = "running" /\ next' = next
                          ELSE phase' = phase /\ next' = next + 1
  /\ UNCHANGED <<preset, opened, gains, streams>>

\* Fault: the members that were started before the failing one are kept.
FaultMemberFailsToStart ==
  /\ phase = "starting"
  /\ phase' = "stopped" /\ next' = 0
  /\ UNCHANGED <<preset, opened, alive, held, gains, streams>>

\* A member that fails is stopped, and those before it in reverse order. A driver
\* that still runs is not asked to start.
MemberFailsToStart ==
  /\ phase = "starting" /\ order[next] \notin alive
  /\ phase' = "stopping" /\ next' = next
  /\ UNCHANGED <<preset, opened, alive, held, gains, streams>>

BeginStop ==
  /\ phase = "running" /\ target = routes
  /\ phase' = "stopping" /\ next' = Len(order)
  /\ UNCHANGED <<preset, opened, alive, held, gains, streams>>

\* Only a physical ASIO driver can refuse to stop, and is then the master.
MayRefuse(m) == m = Master /\ MasterEndpoint \in Physical /\ m \in alive

\* stop() returns nothing: what a driver that refuses leaves running is passed over.
StopMember ==
  /\ phase = "stopping"
  /\ \/ alive' = alive \ {order[next]} /\ held' = held \ {order[next]}
     \/ MayRefuse(order[next]) /\ held' = held \union {order[next]} /\ UNCHANGED alive
  /\ next' = next - 1
  /\ phase' = IF next = 1 THEN "stopped" ELSE phase
  /\ UNCHANGED <<preset, opened, gains, streams>>

\* A member's thread ends by itself when its device is lost for good.
MemberFaults(m) ==
  /\ m \in alive
  /\ alive' = alive \ {m}
  /\ UNCHANGED <<preset, opened, phase, next, held, gains, streams>>

-----------------------------------------------------------------------------
(* The members' threads *)

\* A capture follower has recorded a block.
CaptureBlock(c) ==
  LET block == (accepted[c] + 1) % Cardinality(Numbers)
      queue == Publish(ring[c], block)
  IN  /\ c \in alive
      /\ ring' = [ring EXCEPT ![c] = queue]
      /\ accepted' = [accepted EXCEPT ![c] = IF queue # <<>> /\ queue[Len(queue)] = block
                                             THEN block ELSE @]
      /\ UNCHANGED <<preset, opened, lifecycle, gains, fifo, primed, heard, silent, played>>

\* WindowsWasapiGraphRunner or the ASIO callback of the master: read the
\* inputs, process the graph, publish a slice to every follower.
MasterCycle ==
  /\ order # <<>> /\ Master \in alive
  /\ \E seen \in SeenRoutes :
       LET read == Reads
           got  == Got(Reads)
       IN  /\ heard' = [c \in Captures |-> got.number[c]]
           /\ accepted' = [c \in Captures |-> IF c \in direct THEN got.number[c] ELSE accepted[c]]
           /\ ring' = [e \in DOMAIN ring |-> IF e \in Followers
                         THEN Publish(ring[e], Slice(e, got, seen)) ELSE read[e].ring]
           /\ fifo' = [e \in DOMAIN ring |-> IF e \in Followers THEN fifo[e] ELSE read[e].fifo]
           /\ primed' = [e \in DOMAIN ring |-> IF e \in Followers THEN primed[e] ELSE read[e].primed]
           /\ silent' = [e \in DOMAIN ring |-> IF e \in Followers THEN silent[e] ELSE ~read[e].ok]
           /\ played' = [played EXCEPT ![Master] = Slice(Master, got, seen)]
  /\ UNCHANGED <<preset, opened, lifecycle, gains>>

\* A render follower's graph copies what its rate matcher has to its device.
FollowerCycle(r) ==
  LET read == Read(r)
      none == [k \in 1 .. channels[r] |-> {}]
  IN  /\ r \in alive
      /\ ring' = [ring EXCEPT ![r] = read.ring]
      /\ fifo' = [fifo EXCEPT ![r] = read.fifo]
      /\ primed' = [primed EXCEPT ![r] = read.primed]
      /\ silent' = [silent EXCEPT ![r] = ~read.ok]
      /\ played' = [played EXCEPT ![r] = IF read.ok THEN Head(read.block) ELSE [audio |-> none, due |-> none]]
      /\ UNCHANGED <<preset, opened, lifecycle, gains, accepted, heard>>

\* apply_realtime_graph_parameters(): the master copies the new gains one by
\* one while it runs. One whose graph an ASIO driver owns refuses.
BeginApply(new) ==
  /\ phase = "running" /\ direct = {} /\ target = routes
  /\ target' = new
  /\ UNCHANGED <<preset, opened, lifecycle, routes, streams>>

EndApply ==
  /\ target # routes
  /\ routes' = target
  /\ UNCHANGED <<preset, opened, lifecycle, target, streams>>

-----------------------------------------------------------------------------
Init ==
  /\ configuration \in Configurations /\ matrix \in Matrices
  /\ phase = "closed" /\ next = 0 /\ alive = {} /\ held = {}
  /\ order = <<>> /\ direct = {} /\ first = <<>> /\ channels = <<>>
  /\ routes \in RouteSets /\ target = routes
  /\ accepted = <<>> /\ ring = <<>> /\ fifo = <<>> /\ primed = <<>>
  /\ heard = <<>> /\ silent = <<>> /\ played = <<>>

Next ==
  \/ Open \/ OpenFails \/ BeginStart \/ MemberStarts \/ MemberFailsToStart
  \/ BeginStop \/ StopMember
  \/ \E m \in alive : MemberFaults(m)
  \/ \E c \in Captures : CaptureBlock(c)
  \/ MasterCycle
  \/ \E r \in Followers : FollowerCycle(r)
  \/ \E new \in RouteSets : BeginApply(new)
  \/ EndApply

CaptureIds == {e.id : e \in {e \in UNION {Range(c) : c \in Configurations} : e.direction = "capture"}}
RenderIds == {e.id : e \in {e \in UNION {Range(c) : c \in Configurations} : e.direction = "render"}}

\* Every device that runs comes to its next block.
Fairness ==
  /\ \A c \in CaptureIds : WF_vars(c \in Captures /\ CaptureBlock(c))
  /\ WF_vars(MasterCycle)
  /\ \A r \in RenderIds : WF_vars(r \in Followers /\ FollowerCycle(r))

Spec == Init /\ [][Next]_vars /\ Fairness

-----------------------------------------------------------------------------
\* Every render endpoint plays, channel by channel, exactly the samples that
\* the preset's routes name for its ports: the index arithmetic of the layout,
\* the assembler, the matrix and the slices agrees with the ports' names.
EndpointPlaysItsRoutes == \A e \in DOMAIN played : played[e].audio = played[e].due

\* A capture's blocks reach the graph in order and each once, however the
\* clocks of the two devices differ: what is lost is lost before the queue.
EveryBlockOnceInOrder ==
  [][\A c \in Captures :
       heard'[c] \in {heard[c], (heard[c] + 1) % Cardinality(Numbers)}]_vars

\* start() and stop() take all endpoints or none: of a runtime that is stopped no
\* member runs, whichever of them failed to start, but the driver that refused the
\* last stop it was asked for.
AllOrNothing == phase \in {"closed", "stopped", "refused"} => alive \subseteq held

\* While every member runs no queue stays silent: its rate matcher is primed
\* sooner or later and then delivers again.
Flow ==
  \A e \in CaptureIds \union RenderIds :
    phase = "running"
      ~> (alive # Range(order) \/ phase # "running" \/ ~(e \in DOMAIN ring /\ silent[e]))
=============================================================================
