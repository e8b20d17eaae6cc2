------------------------- MODULE AudioRuntimeProofs -------------------------
(***************************************************************************)
(* Proofs about the engine's audio runtimes.                               *)
(*                                                                         *)
(* The matrix runtime, for all configurations, presets, routes and sizes   *)
(* of the queues. Its invariant Inv has three parts. A member that runs is *)
(* one that start() has passed and stop() has not, or one whose driver has *)
(* refused to stop. The range an endpoint was given holds its ports, on    *)
(* its axis, so that what a cycle cuts out for an endpoint is what the     *)
(* routes name for its ports. And the blocks of a capture from the one     *)
(* heard to the one accepted are, in that order and without a gap, in its  *)
(* FIFO and then in its queue.                                             *)
(*                                                                         *)
(* The physical ASIO runtime, for any number of hosts: its transports      *)
(* outlive the callbacks inside them. And what it would guarantee if a     *)
(* host were created only when there is no other: that the runtime a       *)
(* failure restores is called.                                             *)
(***************************************************************************)
EXTENDS MatrixRuntime, PhysicalAsio, FiniteSetTheorems, SequenceTheorems, TLAPS

Wrap == Cardinality(Numbers)

\* What is the case before a runtime is opened.
NothingOpen ==
  /\ order = <<>> /\ direct = {} /\ accepted = <<>> /\ heard = <<>>
  /\ ring = <<>> /\ fifo = <<>> /\ played = <<>>

Passed(n) == {order[i] : i \in 1 .. n}

\* The members that run are among those that start() has passed, or were held.
MembersArePassed ==
  /\ phase \in {"closed", "refused", "stopped", "starting", "running", "stopping"}
  /\ phase \in {"closed", "refused"} => NothingOpen
  /\ phase \notin {"closed", "refused"} => Len(order) \in Nat \ {0}
  /\ phase \in {"starting", "stopping"} => next \in 1 .. Len(order)
  /\ phase \in {"closed", "refused", "stopped"} => alive \subseteq held
  /\ phase = "starting" => alive \subseteq Passed(next - 1) \union held
  /\ phase = "stopping" => alive \subseteq Passed(next) \union held
  /\ phase = "running" => alive \subseteq Passed(Len(order)) \union held

\* The range of an endpoint holds its ports.
InPlace(e, axis) ==
  /\ channels[e] \in Nat /\ first[e] \in Nat
  /\ \A k \in 1 .. channels[e] : /\ first[e] + k - 1 \in DOMAIN axis
                                 /\ axis[first[e] + k - 1] = Port(e, k)

EndpointsAreInPlace ==
  phase \notin {"closed", "refused"} =>
    /\ \A e \in Captures \union {Asio} : InPlace(e, matrix.inputs)
    /\ \A e \in Followers \union {Master} : InPlace(e, matrix.outputs)

\* A sequence of slices that are what the routes say.
IsDue(slice) == slice.audio = slice.due
AllDue(queue) == queue \in Seq({slice \in Range(queue) : IsDue(slice)})

HasRoom(e) == Len(fifo[e]) <= FifoBlocks

SlicesAreDue ==
  /\ \A e \in DOMAIN played : IsDue(played[e])
  /\ \A e \in Followers : AllDue(ring[e]) /\ AllDue(fifo[e]) /\ HasRoom(e)

\* The blocks of a capture on their way from the device to the graph.
BlocksFollow(c) ==
  /\ ring[c] \in Seq(Numbers) /\ fifo[c] \in Seq(Numbers) /\ HasRoom(c)
  /\ \A i \in 1 .. Len(fifo[c]) : fifo[c][i] = (heard[c] + i) % Wrap
  /\ \A i \in 1 .. Len(ring[c]) : ring[c][i] = (heard[c] + Len(fifo[c]) + i) % Wrap
  /\ accepted[c] = (heard[c] + Len(fifo[c]) + Len(ring[c])) % Wrap

Domains ==
  /\ DOMAIN heard = Captures /\ direct \subseteq Captures /\ Asio \notin Captures
  /\ DOMAIN fifo = DOMAIN ring /\ Captures \ direct \subseteq DOMAIN ring

BlocksAreInOrder ==
  /\ Domains
  /\ \A c \in Captures : heard[c] \in Numbers
  /\ \A c \in Captures \ direct : BlocksFollow(c)

Presets == configuration \in Configurations /\ matrix \in Matrices

Inv ==
  Presets /\ MembersArePassed /\ EndpointsAreInPlace /\ SlicesAreDue /\ BlocksAreInOrder

-----------------------------------------------------------------------------
(* Block numbers wrap around                                                 *)

LEMMA Division ==
  ASSUME NEW n \in Nat \ {0}, NEW a \in Nat
  PROVE  /\ a \div n \in Nat /\ a % n \in 0 .. n - 1
         /\ a = n * (a \div n) + (a % n)
  OBVIOUS

\* There is one way to divide.
LEMMA Remainder ==
  ASSUME NEW n \in Nat \ {0}, NEW q \in Nat, NEW r \in 0 .. n - 1,
         NEW a \in Nat, a = n * q + r
  PROVE  a % n = r
<1> DEFINE p == a \div n
           t == a % n
<1>1. p \in Nat /\ t \in 0 .. n - 1 /\ a = n * p + t
  BY Division
<1> HIDE DEF p, t
<1>2. n * (q - p) = t - r
  BY <1>1
<1>3. CASE q >= p + 1
  <2>1. n * (q - p) >= n
    BY <1>1, <1>3
  <2> QED BY <1>1, <1>2, <2>1
<1>4. CASE q <= p - 1
  <2>1. n * (q - p) <= -n
    BY <1>1, <1>4
  <2> QED BY <1>1, <1>2, <2>1
<1>5. CASE q = p
  BY <1>1, <1>2, <1>5 DEF t
<1> QED BY <1>1, <1>3, <1>4, <1>5

LEMMA WrapAdds ==
  ASSUME NEW n \in Nat \ {0}, NEW a \in Nat, NEW b \in Nat
  PROVE  ((a % n) + b) % n = (a + b) % n
<1> DEFINE r == a % n
           q == a \div n
           s == (r + b) % n
           p == (r + b) \div n
<1>1. q \in Nat /\ r \in 0 .. n - 1 /\ a = n * q + r
  BY Division
<1>2. p \in Nat /\ s \in 0 .. n - 1 /\ r + b = n * p + s
  <2> HIDE DEF r
  <2>1. r + b \in Nat
    BY <1>1
  <2> QED BY <2>1, Division
<1> HIDE DEF r, q, s, p
<1> DEFINE m == q + p
           c == a + b
<1>3. c = n * m + s /\ m \in Nat /\ c \in Nat
  BY <1>1, <1>2
<1>4. c % n = s
  <2> HIDE DEF m, c
  <2> QED BY <1>2, <1>3, Remainder
<1> QED BY <1>4 DEF s, r

LEMMA WrapIs == Wrap \in Nat /\ Wrap >= 2 /\ Numbers = 0 .. Wrap - 1
<1>1. Wrap = RingBlocks + FifoBlocks + 1
  BY MatrixRuntimeAssumption, FS_Interval DEF Wrap, Numbers
<1> QED BY <1>1, MatrixRuntimeAssumption DEF Numbers

LEMMA WrapMoves == \A a \in Numbers : (a + 1) % Wrap \in Numbers \ {a}
<1> SUFFICES ASSUME NEW a \in Numbers PROVE (a + 1) % Wrap \in Numbers \ {a}
  OBVIOUS
<1>1. Wrap \in Nat /\ Wrap >= 2 /\ a \in 0 .. Wrap - 1 /\ Numbers = 0 .. Wrap - 1
  BY WrapIs
<1>2. CASE a = Wrap - 1
  <2>1. (a + 1) % Wrap = 0
    BY <1>1, <1>2, Remainder
  <2> QED BY <1>1, <1>2, <2>1
<1>3. CASE a < Wrap - 1
  <2>1. (a + 1) % Wrap = a + 1
    BY <1>1, <1>3
  <2> QED BY <1>1, <1>3, <2>1
<1> QED BY <1>1, <1>2, <1>3

-----------------------------------------------------------------------------
(* Opening                                                                   *)

LEMMA SetToSeqType ==
  ASSUME NEW S, IsFiniteSet(S)
  PROVE  SetToSeq(S) \in Seq(S)
<1> DEFINE n == Cardinality(S)
<1>1. n \in Nat /\ ExistsBijection(1 .. n, S)
  BY FS_CardinalityType
<1>2. \E f \in [1 .. n -> S] : IsInjective(f)
  BY <1>1 DEF ExistsBijection, Bijection, Injection, IsInjective
<1>3. SetToSeq(S) \in [1 .. n -> S]
  BY <1>2 DEF SetToSeq
<1> QED BY <1>1, <1>3

LEMMA EndpointsAreFinite ==
  ASSUME Presets
  PROVE  /\ Len(configuration) \in Nat
         /\ DOMAIN configuration = 1 .. Len(configuration)
         /\ Endpoints = {configuration[i] : i \in 1 .. Len(configuration)}
         /\ IsFiniteSet(Endpoints)
<1>1. configuration \in Seq(Range(configuration))
  BY MatrixRuntimeAssumption DEF Presets
<1>2. Len(configuration) \in Nat /\ DOMAIN configuration = 1 .. Len(configuration)
  BY <1>1
<1>3. Endpoints = {configuration[i] : i \in 1 .. Len(configuration)}
  BY <1>2 DEF Endpoints, Range
<1>4. IsFiniteSet(1 .. Len(configuration))
  BY <1>2, FS_Interval
<1>5. configuration \in Surjection(1 .. Len(configuration), Endpoints)
  BY <1>1, <1>2, <1>3 DEF Surjection
<1>6. IsFiniteSet(Endpoints)
  BY <1>4, <1>5, FS_Surjection
<1> QED BY <1>2, <1>3, <1>6

\* A valid configuration has an id once.
LEMMA IdsAreUnique ==
  ASSUME Presets, ValidConfiguration, NEW d \in Endpoints, NEW e \in Endpoints, d.id = e.id
  PROVE  d = e
<1> DEFINE n == Len(configuration)
           ids == [i \in 1 .. n |-> configuration[i].id]
<1>1. n \in Nat /\ Endpoints = {configuration[i] : i \in 1 .. n}
  BY EndpointsAreFinite
<1>2. IsFiniteSet(1 .. n) /\ Cardinality(1 .. n) = n
  <2> HIDE DEF n
  <2>1. IsFiniteSet(1 .. n) /\ Cardinality(1 .. n) = IF 1 > n THEN 0 ELSE n - 1 + 1
    BY <1>1, FS_Interval
  <2> QED BY <1>1, <2>1
<1>3. ids \in Surjection(1 .. n, Ids(Endpoints))
  BY <1>1 DEF Surjection, Ids
<1>4. Cardinality(Ids(Endpoints)) = n
  BY DEF ValidConfiguration
<1>5. ids \in Injection(1 .. n, Ids(Endpoints))
  BY <1>2, <1>3, <1>4, FS_Surjection
<1>6. \A i, j \in 1 .. n : ids[i] = ids[j] => i = j
  BY <1>5 DEF Injection, IsInjective
<1> QED BY <1>1, <1>6

LEMMA IdsAreFinite ==
  ASSUME NEW S, IsFiniteSet(S)
  PROVE  IsFiniteSet(Ids(S))
<1>1. [e \in S |-> e.id] \in Surjection(S, Ids(S))
  BY DEF Surjection, Ids
<1> QED BY <1>1, FS_Surjection

LEMMA MasterIsEndpoint ==
  ASSUME Presets, ValidConfiguration
  PROVE  MasterEndpoint \in Endpoints /\ MasterEndpoint.direction = "render"
<1> DEFINE masters == {e \in Endpoints : e.master}
<1>1. Cardinality(masters) = 1
  BY DEF ValidConfiguration
<1>2. masters # {}
  <2> HIDE DEF masters
  <2>1. Cardinality({}) = 0
    BY FS_EmptySet
  <2> QED BY <1>1, <2>1
<1>3. MasterEndpoint \in Endpoints /\ MasterEndpoint.master
  BY <1>2 DEF MasterEndpoint
<1> QED BY <1>3 DEF ValidConfiguration

\* Looking an endpoint up by its id finds it.
LEMMA BindingById ==
  ASSUME Presets, ValidConfiguration, NEW b \in Bindings
  PROVE  (CHOOSE e \in Bindings : e.id = b.id) = b
<1>1. \A e \in Endpoints : e.id # Asio
  BY MatrixRuntimeAssumption DEF Presets, Endpoints
<1>2. \A e \in Bindings : e.id = b.id => e = b
  BY <1>1, IdsAreUnique DEF Bindings, AsioEndpoint
<1> QED BY <1>2

LEMMA BoundIsInPlace ==
  ASSUME Presets, ValidConfiguration, Open, NEW b \in Bindings
  PROVE  /\ channels'[b.id] \in Nat /\ first'[b.id] \in Nat
         /\ \A k \in 1 .. channels'[b.id] :
              /\ first'[b.id] + k - 1 \in DOMAIN Axis(b)
              /\ Axis(b)[first'[b.id] + k - 1] = Port(b.id, k)
<1>1. Axis(b) \in Seq(Range(Axis(b))) /\ DOMAIN Axis(b) = 1 .. Len(Axis(b))
  BY MatrixRuntimeAssumption DEF Presets, Axis
<1>2. b.channels \in Nat \ {0}
  <2>1. CASE b = AsioEndpoint
    BY <2>1, MatrixRuntimeAssumption DEF AsioEndpoint
  <2>2. CASE b \in Endpoints
    <3>1. b.channels > 0
      BY <2>2 DEF ValidConfiguration
    <3>2. b.channels \in Nat
      BY <2>2, MatrixRuntimeAssumption DEF Presets, Endpoints
    <3> QED BY <3>1, <3>2
  <2> QED BY <2>1, <2>2 DEF Bindings
<1>3. \A k \in 1 .. b.channels : Has(b, k) /\ Place(b, k) = Place(b, 1) + k - 1
  BY DEF Open, Bound
<1>4. \A k \in 1 .. b.channels :
        Place(b, k) \in DOMAIN Axis(b) /\ Axis(b)[Place(b, k)] = Port(b.id, k)
  BY <1>3 DEF Has, Place, Range
<1>5. channels'[b.id] = b.channels /\ first'[b.id] = Place(b, 1)
  BY BindingById DEF Open, ById, Ids
<1>6. Place(b, 1) \in Nat
  BY <1>1, <1>2, <1>4
<1> QED BY <1>2, <1>3, <1>4, <1>5, <1>6

\* The master comes last.
LEMMA MasterIsLast ==
  ASSUME Presets, Open
  PROVE  Len(order') \in Nat \ {0} /\ Master' = MasterEndpoint.id
<1> DEFINE a == SetToSeq(Ids(RenderFollowers))
           b == SetToSeq(Ids(CaptureEndpoints))
           A == Ids(RenderFollowers)
           B == Ids(CaptureEndpoints)
<1>1. IsFiniteSet(RenderFollowers) /\ IsFiniteSet(CaptureEndpoints)
  BY EndpointsAreFinite, FS_Subset DEF RenderFollowers, CaptureEndpoints
<1>2. a \in Seq(A) /\ b \in Seq(B)
  BY <1>1, IdsAreFinite, SetToSeqType
<1>3. order' = a \o b \o <<MasterEndpoint.id>>
  BY DEF Open
<1> HIDE DEF a, b, A, B
<1>4. a \in Seq(A \union B) /\ b \in Seq(A \union B)
  BY <1>2
<1>5. a \o b \in Seq(A \union B)
  BY <1>4
<1> DEFINE c == a \o b
<1> HIDE DEF c
<1>6. c \in Seq(A \union B)
  BY <1>5 DEF c
<1>7. Len(c \o <<MasterEndpoint.id>>) = Len(c) + 1 /\ Len(c) \in Nat
      /\ (c \o <<MasterEndpoint.id>>)[Len(c) + 1] = MasterEndpoint.id
  BY <1>6
<1> QED BY <1>3, <1>7 DEF c, Master

-----------------------------------------------------------------------------
(* Starting and stopping                                                     *)

LEMMA OpenPasses == Presets /\ MembersArePassed /\ Open => MembersArePassed'
<1> SUFFICES ASSUME Presets, MembersArePassed, Open PROVE MembersArePassed'
  OBVIOUS
<1>1. Len(order') \in Nat \ {0}
  BY MasterIsLast
<1>2. phase = "closed" /\ phase' = "stopped" /\ alive' = alive /\ held' = held
  BY DEF Open
<1> QED BY <1>1, <1>2 DEF MembersArePassed

LEMMA MemberStartsPasses == MembersArePassed /\ MemberStarts => MembersArePassed'
<1> SUFFICES ASSUME MembersArePassed, MemberStarts PROVE MembersArePassed'
  OBVIOUS
<1>1. /\ Len(order) \in Nat \ {0} /\ next \in 1 .. Len(order) /\ order' = order
      /\ alive \subseteq Passed(next - 1) \union held /\ alive' = alive \union {order[next]}
      /\ held' = held \ {order[next]}
  BY DEF MembersArePassed, MemberStarts, opened
<1>2. Passed(next)' = Passed(next') /\ alive' \subseteq {order'[i] : i \in 1 .. next} \union held'
  BY <1>1 DEF Passed
<1>3. CASE next = Len(order)
  <2>1. phase' = "running" /\ next' = next
    BY <1>3 DEF MemberStarts
  <2> QED BY <1>1, <1>2, <1>3, <2>1 DEF MembersArePassed, Passed
<1>4. CASE next # Len(order)
  <2>1. phase' = "starting" /\ next' = next + 1
    BY <1>4 DEF MemberStarts
  <2>2. next' - 1 = next /\ next' \in 1 .. Len(order')
    BY <1>1, <1>4, <2>1
  <2> QED BY <1>1, <1>2, <2>1, <2>2 DEF MembersArePassed, Passed
<1> QED BY <1>3, <1>4

LEMMA StopMemberPasses == MembersArePassed /\ StopMember => MembersArePassed'
<1> SUFFICES ASSUME MembersArePassed, StopMember PROVE MembersArePassed'
  OBVIOUS
<1>1. /\ Len(order) \in Nat \ {0} /\ next \in 1 .. Len(order) /\ order' = order
      /\ alive \subseteq Passed(next) \union held /\ next' = next - 1
  BY DEF MembersArePassed, StopMember, opened
<1>2. \/ alive' = alive \ {order[next]} /\ held' = held \ {order[next]}
      \/ alive' = alive /\ held' = held \union {order[next]}
  BY DEF StopMember
<1>3. alive' \subseteq {order'[i] : i \in 1 .. next - 1} \union held'
  BY <1>1, <1>2 DEF Passed
<1>4. CASE next = 1
  <2>1. phase' = "stopped" /\ alive' \subseteq held'
    BY <1>1, <1>3, <1>4 DEF StopMember
  <2> QED BY <1>1, <2>1 DEF MembersArePassed
<1>5. CASE next # 1
  <2>1. phase' = "stopping" /\ next' \in 1 .. Len(order')
    BY <1>1, <1>5 DEF StopMember
  <2> QED BY <1>1, <1>3, <2>1 DEF MembersArePassed, Passed
<1> QED BY <1>4, <1>5

LEMMA OtherLifePasses ==
  /\ MembersArePassed
  /\ \/ OpenFails \/ BeginStart \/ MemberFailsToStart \/ BeginStop
     \/ \E m \in alive : MemberFaults(m)
  => MembersArePassed'
<1> SUFFICES ASSUME MembersArePassed,
                    \/ OpenFails \/ BeginStart \/ MemberFailsToStart \/ BeginStop
                    \/ \E m \in alive : MemberFaults(m)
             PROVE  MembersArePassed'
  OBVIOUS
<1>1. CASE OpenFails
  BY <1>1 DEF MembersArePassed, OpenFails, NothingOpen, opened, streams
<1>2. CASE BeginStart
  <2>1. /\ phase = "stopped" /\ phase' = "starting" /\ next' = 1
        /\ alive' = alive /\ held' = held /\ order' = order
    BY <1>2 DEF BeginStart, opened
  <2>2. Len(order') \in Nat \ {0} /\ alive' \subseteq held' /\ next' \in 1 .. Len(order')
    BY <2>1 DEF MembersArePassed
  <2> QED BY <2>1, <2>2 DEF MembersArePassed
<1>3. CASE MemberFailsToStart
  <2>1. /\ phase = "starting" /\ phase' = "stopping" /\ next' = next
        /\ alive' = alive /\ held' = held /\ order' = order
    BY <1>3 DEF MemberFailsToStart, opened
  <2>2. /\ Len(order) \in Nat \ {0} /\ next \in 1 .. Len(order)
        /\ alive \subseteq Passed(next - 1) \union held
    BY <2>1 DEF MembersArePassed
  <2>3. alive' \subseteq Passed(next)' \union held'
    BY <2>1, <2>2 DEF Passed
  <2> QED BY <2>1, <2>2, <2>3 DEF MembersArePassed
<1>4. CASE BeginStop
  <2>1. /\ phase = "running" /\ phase' = "stopping" /\ next' = Len(order)
        /\ alive' = alive /\ held' = held /\ order' = order
    BY <1>4 DEF BeginStop, opened
  <2>2. Len(order) \in Nat \ {0} /\ alive \subseteq Passed(Len(order)) \union held
    BY <2>1 DEF MembersArePassed
  <2>3. next' \in 1 .. Len(order') /\ alive' \subseteq Passed(next)' \union held'
    BY <2>1, <2>2 DEF Passed
  <2> QED BY <2>1, <2>2, <2>3 DEF MembersArePassed
<1>5. CASE \E m \in alive : MemberFaults(m)
  <2>1. /\ UNCHANGED <<phase, next, held, order, direct, accepted, heard, ring, fifo, played>>
        /\ alive' \subseteq alive
    BY <1>5 DEF MemberFaults, opened, streams
  <2> QED BY <2>1 DEF MembersArePassed, Passed, NothingOpen
<1> QED BY <1>1, <1>2, <1>3, <1>4, <1>5

\* The members' own steps start and stop nothing.
LEMMA StreamPasses ==
  ASSUME MembersArePassed, NothingOpen => UNCHANGED streams, UNCHANGED <<opened, lifecycle>>
  PROVE  MembersArePassed'
<1>1. UNCHANGED <<order, direct, phase, next, alive, held>>
  BY DEF opened, lifecycle
<1>2. NothingOpen => NothingOpen'
  BY <1>1 DEF NothingOpen, streams
<1> QED BY <1>1, <1>2 DEF MembersArePassed, Passed

-----------------------------------------------------------------------------
(* The ranges of the endpoints                                               *)

LEMMA OpenPlaces == Presets /\ Open => EndpointsAreInPlace'
<1> SUFFICES ASSUME Presets, Open PROVE EndpointsAreInPlace'
  OBVIOUS
<1>0. ValidConfiguration /\ matrix' = matrix
  BY DEF Open, preset
<1>1. ASSUME NEW b \in Bindings PROVE InPlace(b.id, Axis(b))'
  <2>1. Axis(b)' = Axis(b)
    BY <1>0 DEF Axis
  <2> QED BY <1>0, <2>1, BoundIsInPlace DEF InPlace
<1>2. ASSUME NEW e \in (Captures \union {Asio})' PROVE InPlace(e, matrix.inputs)'
  <2>1. Captures' = Ids(CaptureEndpoints \union PhysicalCapture)
    BY DEF Open, Captures
  <2>2. \E b \in Bindings : b.id = e /\ b.direction = "capture"
    <3>1. CASE e = Asio
      <4>1. AsioEndpoint \in Bindings
        BY DEF Bindings
      <4>2. AsioEndpoint.id = Asio /\ AsioEndpoint.direction = "capture"
        BY DEF AsioEndpoint
      <4> QED BY <3>1, <4>1, <4>2
    <3>2. CASE e \in Captures'
      BY <2>1, <3>2 DEF Ids, CaptureEndpoints, PhysicalCapture, Physical, Bindings
    <3> QED BY <1>2, <3>1, <3>2
  <2>3. PICK b \in Bindings : b.id = e /\ b.direction = "capture"
    BY <2>2
  <2> QED BY <1>0, <1>1, <2>3 DEF Axis
<1>3. ASSUME NEW e \in (Followers \union {Master})' PROVE InPlace(e, matrix.outputs)'
  <2>1. /\ Captures' = Ids(CaptureEndpoints \union PhysicalCapture)
        /\ DOMAIN ring' = Ids(CaptureEndpoints \union RenderFollowers)
    BY DEF Open, Captures
  <2>2. Followers' \subseteq Ids(RenderFollowers)
    BY <2>1 DEF Ids, Followers, Captures
  <2>3. Master' = MasterEndpoint.id
    BY MasterIsLast
  <2>4. \E b \in Bindings : b.id = e /\ b.direction = "render"
    BY <1>0, <1>3, <2>2, <2>3, MasterIsEndpoint DEF Ids, RenderFollowers, Bindings
  <2>5. PICK b \in Bindings : b.id = e /\ b.direction = "render"
    BY <2>4
  <2> QED BY <1>0, <1>1, <2>5 DEF Axis
<1> QED BY <1>2, <1>3 DEF EndpointsAreInPlace

LEMMA StaysInPlace ==
  ASSUME EndpointsAreInPlace, UNCHANGED <<matrix, opened>>,
         DOMAIN ring' = DOMAIN ring, DOMAIN accepted' = DOMAIN accepted,
         phase \in {"closed", "refused"} => phase' \in {"closed", "refused"}
  PROVE  EndpointsAreInPlace'
<1>1. UNCHANGED <<matrix, order, first, channels>>
  BY DEF opened
<1>2. Captures' = Captures /\ Followers' = Followers /\ Master' = Master
  BY <1>1 DEF Captures, Followers, Master
<1>3. \A e, axis : InPlace(e, axis)' <=> InPlace(e, axis)
  BY <1>1 DEF InPlace
<1> QED BY <1>1, <1>2 DEF EndpointsAreInPlace, InPlace

-----------------------------------------------------------------------------
(* What a cycle cuts out for an endpoint                                     *)

\* The sources of a graph channel, by places and by names.
LEMMA MixIsDue ==
  ASSUME Presets, \A e \in Captures \union {Asio} : InPlace(e, matrix.inputs),
         NEW o, NEW port, matrix.outputs[o] = port, NEW got, NEW seen
  PROVE  Mix(o, got, seen) = Named(port, got, seen)
<1> DEFINE due == Named(port, got, seen)
<1>0. matrix.inputs \in Seq(Range(matrix.inputs))
  BY MatrixRuntimeAssumption DEF Presets
<1>1. DOMAIN matrix.inputs = 1 .. Len(matrix.inputs) /\ Len(matrix.inputs) \in Nat
  BY <1>0
<1>2. ASSUME NEW x \in Mix(o, got, seen) PROVE x \in due
  <2>1. PICK i \in 1 .. Len(matrix.inputs) :
          <<matrix.inputs[i], port>> \in seen /\ x \in Assemble(i, got)
    BY <1>2 DEF Mix
  <2>2. PICK e \in Captures \union {Asio} :
          i - first[e] + 1 \in 1 .. channels[e] /\ x \in SamplesOf(e, i - first[e] + 1, got)
    BY <2>1 DEF Assemble
  <2> DEFINE k == i - first[e] + 1
  <2>3. k \in 1 .. channels[e] /\ first[e] \in Nat /\ channels[e] \in Nat
    BY <2>2 DEF InPlace
  <2>4. first[e] + k - 1 = i
    BY <1>1, <2>3
  <2>5. matrix.inputs[i] = Port(e, k)
    BY <2>3, <2>4 DEF InPlace
  <2>6. Port(e, k) \in Sources /\ Port(e, k)[1] = e /\ Port(e, k)[2] = k
    BY <2>3 DEF Sources, Port
  <2> HIDE DEF k
  <2>7. x \in SamplesOf(e, k, got)
    BY <2>2 DEF k
  <2> QED BY <2>1, <2>5, <2>6, <2>7 DEF Named
<1>3. ASSUME NEW x \in due PROVE x \in Mix(o, got, seen)
  <2>1. PICK p \in Sources : <<p, port>> \in seen /\ x \in SamplesOf(p[1], p[2], got)
    BY <1>3 DEF Named
  <2>2. PICK e \in Captures \union {Asio} : \E k \in 1 .. channels[e] : p = Port(e, k)
    BY <2>1 DEF Sources
  <2>k. PICK k \in 1 .. channels[e] : p = Port(e, k)
    BY <2>2
  <2> DEFINE i == first[e] + k - 1
  <2>3. /\ k \in 1 .. channels[e] /\ first[e] \in Nat /\ channels[e] \in Nat
        /\ i \in 1 .. Len(matrix.inputs) /\ matrix.inputs[i] = p
    BY <1>1, <2>k DEF InPlace
  <2>4. i - first[e] + 1 = k
    BY <2>3
  <2>5. x \in SamplesOf(e, k, got)
    BY <2>1, <2>k DEF Port
  <2> HIDE DEF i
  <2>6. x \in Assemble(i, got)
    BY <2>3, <2>4, <2>5 DEF Assemble
  <2> QED BY <2>1, <2>3, <2>6, <1>0 DEF Mix
<1> QED BY <1>2, <1>3

LEMMA SliceIsDue ==
  ASSUME Presets, \A e \in Captures \union {Asio} : InPlace(e, matrix.inputs),
         NEW endpoint, InPlace(endpoint, matrix.outputs), NEW got, NEW seen
  PROVE  IsDue(Slice(endpoint, got, seen))
<1>1. ASSUME NEW k \in 1 .. channels[endpoint]
      PROVE  Mix(first[endpoint] + k - 1, got, seen) = Named(Port(endpoint, k), got, seen)
  <2>1. matrix.outputs[first[endpoint] + k - 1] = Port(endpoint, k)
    BY DEF InPlace
  <2> QED BY <2>1, MixIsDue
<1>2. Slice(endpoint, got, seen).audio = Due(endpoint, got, seen)
  BY <1>1 DEF Slice, Due
<1> QED BY <1>2 DEF IsDue, Slice

-----------------------------------------------------------------------------
(* Queues and rate matchers                                                  *)

LEMMA DueSeq ==
  ASSUME NEW S, \A x \in S : IsDue(x), NEW q \in Seq(S)
  PROVE  AllDue(q)
<1>1. Len(q) \in Nat /\ DOMAIN q = 1 .. Len(q) /\ \A i \in 1 .. Len(q) : q[i] \in S
  BY ElementOfSeq
<1> DEFINE R == {x \in Range(q) : IsDue(x)}
<1>2. \A i \in 1 .. Len(q) : q[i] \in R
  BY <1>1 DEF Range
<1>3. q = [i \in 1 .. Len(q) |-> q[i]]
  OBVIOUS
<1>4. q \in Seq(R)
  <2> HIDE DEF R
  <2> QED BY <1>1, <1>2, <1>3
<1> QED BY <1>4 DEF AllDue

LEMMA PublishType ==
  ASSUME NEW S, NEW q \in Seq(S), NEW block \in S
  PROVE  Publish(q, block) \in Seq(S)
  BY DEF Publish

LEMMA MinOfThree ==
  ASSUME NEW a \in Nat, NEW b \in Nat, NEW c \in Nat
  PROVE  Min({a, b, c}) \in 0 .. a /\ Min({a, b, c}) <= c
<1>1. \E x \in {a, b, c} : \A y \in {a, b, c} : x <= y
  <2>1. CASE a <= b /\ a <= c
    BY <2>1
  <2>2. CASE b <= a /\ b <= c
    BY <2>2
  <2>3. CASE c <= a /\ c <= b
    BY <2>3
  <2> QED BY <2>1, <2>2, <2>3
<1>2. Min({a, b, c}) \in {a, b, c} /\ \A y \in {a, b, c} : Min({a, b, c}) <= y
  BY <1>1 DEF Min
<1> QED BY <1>2

LEMMA ReadMoves ==
  ASSUME NEW S, NEW e, ring[e] \in Seq(S), fifo[e] \in Seq(S), HasRoom(e)
  PROVE  \E n \in 0 .. Len(ring[e]) :
           /\ Len(fifo[e]) + n <= FifoBlocks
           /\ Read(e).block = fifo[e] \o SubSeq(ring[e], 1, n)
           /\ Read(e).ring = SubSeq(ring[e], n + 1, Len(ring[e]))
           /\ Read(e).fifo = IF Read(e).ok THEN Tail(Read(e).block) ELSE Read(e).block
           /\ Read(e).ok => Read(e).block # <<>>
<1> DEFINE n == Min({Len(ring[e]), DrainBlocks, FifoBlocks - Len(fifo[e])})
<1>1. Len(ring[e]) \in Nat /\ Len(fifo[e]) \in Nat /\ DrainBlocks \in Nat
      /\ FifoBlocks - Len(fifo[e]) \in Nat /\ FifoBlocks \in Nat
  BY MatrixRuntimeAssumption DEF HasRoom
<1>2. n \in 0 .. Len(ring[e]) /\ n <= FifoBlocks - Len(fifo[e])
  <2> DEFINE a == Len(ring[e])
             c == FifoBlocks - Len(fifo[e])
  <2>1. a \in Nat /\ c \in Nat
    BY <1>1
  <2> HIDE DEF a, c
  <2>2. Min({a, DrainBlocks, c}) \in 0 .. a /\ Min({a, DrainBlocks, c}) <= c
    BY <1>1, <2>1, MinOfThree
  <2> QED BY <2>2 DEF a, c
<1>3. /\ Read(e).block = fifo[e] \o SubSeq(ring[e], 1, n)
      /\ Read(e).ring = SubSeq(ring[e], n + 1, Len(ring[e]))
      /\ Read(e).fifo = IF Read(e).ok THEN Tail(Read(e).block) ELSE Read(e).block
      /\ Read(e).ok => Read(e).block # <<>>
  BY DEF Read
<1> HIDE DEF n
<1>4. Len(fifo[e]) + n <= FifoBlocks
  BY <1>1, <1>2
<1> QED BY <1>2, <1>3, <1>4

LEMMA ReadType ==
  ASSUME NEW S, NEW e, ring[e] \in Seq(S), fifo[e] \in Seq(S), HasRoom(e)
  PROVE  /\ Read(e).block \in Seq(S) /\ Read(e).ring \in Seq(S) /\ Read(e).fifo \in Seq(S)
         /\ Len(Read(e).fifo) <= FifoBlocks
         /\ Read(e).ok => Read(e).block # <<>> /\ Head(Read(e).block) \in S
<1> DEFINE q == ring[e]
           f == fifo[e]
           block == Read(e).block
<1>1. PICK n \in 0 .. Len(q) :
        /\ Len(f) + n <= FifoBlocks
        /\ block = f \o SubSeq(q, 1, n)
        /\ Read(e).ring = SubSeq(q, n + 1, Len(q))
        /\ Read(e).fifo = IF Read(e).ok THEN Tail(block) ELSE block
        /\ Read(e).ok => block # <<>>
  BY ReadMoves
<1>2. q \in Seq(S) /\ f \in Seq(S) /\ FifoBlocks \in Nat
  BY MatrixRuntimeAssumption
<1> HIDE DEF q, f, block
<1> DEFINE p == SubSeq(q, 1, n)
<1>3. p \in Seq(S) /\ Len(p) = n /\ n \in Nat
  BY <1>1, <1>2
<1>4. Read(e).ring \in Seq(S)
  BY <1>1, <1>2
<1> HIDE DEF p
<1>5. block \in Seq(S) /\ Len(block) = Len(f) + n /\ Len(f) \in Nat
  BY <1>1, <1>2, <1>3 DEF p
<1>6. CASE Read(e).ok
  <2>1. block # <<>> /\ Read(e).fifo = Tail(block)
    BY <1>1, <1>6
  <2>2. Tail(block) \in Seq(S) /\ Head(block) \in S /\ Len(Tail(block)) = Len(block) - 1
    BY <1>5, <2>1, HeadTailProperties
  <2>3. Len(Tail(block)) <= FifoBlocks
    BY <1>1, <1>2, <1>3, <1>5, <2>2
  <2> QED BY <1>4, <1>5, <2>1, <2>2, <2>3 DEF block
<1>7. CASE ~Read(e).ok
  BY <1>1, <1>4, <1>5, <1>7 DEF block
<1> QED BY <1>6, <1>7

-----------------------------------------------------------------------------
(* The slices on their way to the render endpoints                           *)

LEMMA OpenIsDue == Presets /\ Open => SlicesAreDue'
<1> SUFFICES ASSUME Presets, Open PROVE SlicesAreDue'
  OBVIOUS
<1>1. \A x : IsDue(Silence(x))
  BY DEF IsDue, Silence
<1>2. \A e \in DOMAIN played' : IsDue(played'[e])
  BY <1>1 DEF Open, ById
<1>3. AllDue(<<>>)
  BY EmptySeq DEF AllDue
<1>4. \A e \in DOMAIN ring' : ring'[e] = <<>> /\ fifo'[e] = <<>>
  BY DEF Open
<1>5. \A e \in Followers' : ring'[e] = <<>> /\ fifo'[e] = <<>>
  BY <1>4 DEF Followers
<1>6. \A e \in Followers' : HasRoom(e)'
  BY <1>5, MatrixRuntimeAssumption, EmptySeq DEF HasRoom
<1> QED BY <1>2, <1>3, <1>5, <1>6 DEF SlicesAreDue, AllDue, IsDue

LEMMA CaptureBlockIsDue ==
  ASSUME SlicesAreDue, NEW c \in Captures, CaptureBlock(c)
  PROVE  SlicesAreDue'
<1>1. /\ played' = played /\ fifo' = fifo
      /\ DOMAIN ring' = DOMAIN ring /\ DOMAIN accepted' = DOMAIN accepted
      /\ \A e \in DOMAIN ring \ {c} : ring'[e] = ring[e]
  BY DEF CaptureBlock
<1>2. Followers' = Followers /\ c \notin Followers /\ Followers \subseteq DOMAIN ring
  BY <1>1 DEF Followers, Captures
<1> QED BY <1>1, <1>2 DEF SlicesAreDue, AllDue, IsDue, HasRoom

\* A queue of due slices is one over the due slices of any set that holds its elements.
LEMMA DueIsSeq ==
  ASSUME NEW queue, AllDue(queue),
         NEW S, \A x \in Range(queue) : IsDue(x) => x \in S
  PROVE  queue \in Seq(S)
<1> DEFINE D == {slice \in Range(queue) : IsDue(slice)}
<1>1. queue \in Seq(D)
  BY DEF AllDue
<1>2. D \subseteq S
  OBVIOUS
<1> HIDE DEF D
<1> QED BY <1>1, <1>2, SeqMonotonic

LEMMA FollowerCycleIsDue ==
  ASSUME SlicesAreDue, Domains, NEW r \in Followers, FollowerCycle(r)
  PROVE  SlicesAreDue'
<1> DEFINE S == {x \in Range(ring[r]) \union Range(fifo[r]) : IsDue(x)}
           none == [k \in 1 .. channels[r] |-> {}]
<1>1. ring[r] \in Seq(S) /\ fifo[r] \in Seq(S) /\ HasRoom(r)
  <2>1. AllDue(ring[r]) /\ AllDue(fifo[r]) /\ HasRoom(r)
    BY DEF SlicesAreDue
  <2>2. ring[r] \in Seq(S)
    BY <2>1, DueIsSeq
  <2>3. fifo[r] \in Seq(S)
    BY <2>1, DueIsSeq
  <2> QED BY <2>1, <2>2, <2>3
<1>2. /\ Read(r).ring \in Seq(S) /\ Read(r).fifo \in Seq(S)
      /\ Len(Read(r).fifo) <= FifoBlocks
      /\ Read(r).ok => Head(Read(r).block) \in S
  <2> HIDE DEF S
  <2> QED BY <1>1, ReadType
<1>3. AllDue(Read(r).ring) /\ AllDue(Read(r).fifo)
  <2>1. \A x \in S : IsDue(x)
    OBVIOUS
  <2> HIDE DEF S
  <2> QED BY <1>2, <2>1, DueSeq
<1>4. /\ ring' = [ring EXCEPT ![r] = Read(r).ring]
      /\ fifo' = [fifo EXCEPT ![r] = Read(r).fifo]
      /\ played' = [played EXCEPT ![r] = IF Read(r).ok THEN Head(Read(r).block)
                                         ELSE [audio |-> none, due |-> none]]
      /\ accepted' = accepted
  BY DEF FollowerCycle
<1>5. IsDue(IF Read(r).ok THEN Head(Read(r).block) ELSE [audio |-> none, due |-> none])
  <2>1. IsDue([audio |-> none, due |-> none])
    BY DEF IsDue
  <2>2. Read(r).ok => IsDue(Head(Read(r).block))
    BY <1>2
  <2> QED BY <2>1, <2>2
<1> HIDE DEF S, none
<1>6. \A e \in DOMAIN played' : IsDue(played'[e])
  BY <1>4, <1>5 DEF SlicesAreDue
<1>7. Followers' = Followers /\ Followers \subseteq DOMAIN ring /\ DOMAIN fifo = DOMAIN ring
  BY <1>4 DEF Followers, Captures, Domains
<1>8. ASSUME NEW e \in Followers
      PROVE  AllDue(ring'[e]) /\ AllDue(fifo'[e]) /\ Len(fifo'[e]) <= FifoBlocks
  BY <1>2, <1>3, <1>4, <1>7 DEF SlicesAreDue, HasRoom
<1> QED BY <1>6, <1>7, <1>8 DEF SlicesAreDue, AllDue, IsDue, HasRoom

LEMMA MasterCycleIsDue ==
  ASSUME Presets, MembersArePassed, EndpointsAreInPlace, SlicesAreDue, Domains, MasterCycle
  PROVE  SlicesAreDue'
<1>1. PICK seen \in SeenRoutes :
        /\ accepted' = [c \in Captures |-> IF c \in direct THEN Got(Reads).number[c]
                                                           ELSE accepted[c]]
        /\ ring' = [e \in DOMAIN ring |->
                      IF e \in Followers THEN Publish(ring[e], Slice(e, Got(Reads), seen))
                                        ELSE Reads[e].ring]
        /\ fifo' = [e \in DOMAIN ring |-> IF e \in Followers THEN fifo[e] ELSE Reads[e].fifo]
        /\ played' = [played EXCEPT ![Master] = Slice(Master, Got(Reads), seen)]
  BY DEF MasterCycle
<1>2. phase \notin {"closed", "refused"}
  BY DEF MasterCycle, MembersArePassed, NothingOpen
<1>3. ASSUME NEW e \in Followers \union {Master}
      PROVE  IsDue(Slice(e, Got(Reads), seen))
  BY <1>2, SliceIsDue DEF EndpointsAreInPlace
<1>4. \A e \in DOMAIN played' : IsDue(played'[e])
  BY <1>1, <1>3 DEF SlicesAreDue
<1>5. Followers' = Followers /\ Followers \subseteq DOMAIN ring
  BY <1>1 DEF Followers, Captures
<1>6. ASSUME NEW e \in Followers
      PROVE  AllDue(ring'[e]) /\ fifo'[e] = fifo[e]
  <2> DEFINE slice == Slice(e, Got(Reads), seen)
             S == {x \in Range(ring[e]) : IsDue(x)} \union {slice}
  <2>1. \A x \in S : IsDue(x)
    BY <1>3
  <2>2. ring[e] \in Seq(S) /\ slice \in S
    <3>1. AllDue(ring[e])
      BY DEF SlicesAreDue
    <3> QED BY <3>1, DueIsSeq
  <2>3. ring'[e] = Publish(ring[e], slice)
    BY <1>1, <1>5
  <2> HIDE DEF S, slice
  <2>4. AllDue(ring'[e])
    BY <2>1, <2>2, <2>3, PublishType, DueSeq
  <2> QED BY <1>1, <1>5, <2>4
<1> QED BY <1>4, <1>5, <1>6 DEF SlicesAreDue, AllDue, IsDue, HasRoom

-----------------------------------------------------------------------------
(* The blocks of a capture                                                   *)

LEMMA OpenFollows == Presets /\ Open => BlocksAreInOrder'
<1> SUFFICES ASSUME Presets, Open PROVE BlocksAreInOrder'
  OBVIOUS
<1> DEFINE C == Ids(CaptureEndpoints \union PhysicalCapture)
           Q == Ids(CaptureEndpoints \union RenderFollowers)
<1>1. /\ accepted' = [id \in C |-> 0] /\ heard' = accepted'
      /\ ring' = [id \in Q |-> <<>>] /\ fifo' = ring' /\ direct' = Ids(PhysicalCapture)
  BY DEF Open
<1>2. Domains'
  <2>1. Asio \notin C
    BY MatrixRuntimeAssumption
    DEF Presets, Ids, CaptureEndpoints, PhysicalCapture, Physical, Endpoints
  <2> QED BY <1>1, <2>1 DEF Domains, Captures, Ids
<1>3. 0 \in Numbers /\ (0 + 0 + 0) % Wrap = 0
  BY WrapIs, Remainder
<1>4. ASSUME NEW c \in (Captures \ direct)' PROVE BlocksFollow(c)'
  <2>1. /\ ring'[c] = <<>> /\ fifo'[c] = <<>> /\ heard'[c] = 0 /\ accepted'[c] = 0
    BY <1>1, <1>2, <1>4 DEF Captures, Domains
  <2> QED BY <1>3, <2>1, EmptySeq, MatrixRuntimeAssumption DEF BlocksFollow, HasRoom
<1>5. \A c \in Captures' : heard'[c] \in Numbers
  BY <1>1, <1>3 DEF Captures
<1> QED BY <1>2, <1>4, <1>5 DEF BlocksAreInOrder

\* A capture whose queues and numbers a step leaves alone.
LEMMA BlocksStay ==
  ASSUME NEW c, BlocksFollow(c),
         ring'[c] = ring[c], fifo'[c] = fifo[c], heard'[c] = heard[c], accepted'[c] = accepted[c]
  PROVE  BlocksFollow(c)'
  BY DEF BlocksFollow, HasRoom

LEMMA CaptureBlockFollows ==
  ASSUME BlocksAreInOrder, NEW c \in Captures, CaptureBlock(c)
  PROVE  BlocksAreInOrder'
<1> DEFINE block == (accepted[c] + 1) % Wrap
           queue == Publish(ring[c], block)
<1>1. /\ ring' = [ring EXCEPT ![c] = queue]
      /\ accepted' = [accepted EXCEPT ![c] = IF queue # <<>> /\ queue[Len(queue)] = block
                                             THEN block ELSE @]
      /\ UNCHANGED <<fifo, heard, direct>>
  BY DEF CaptureBlock, Wrap, opened
<1>2. Captures' = Captures /\ DOMAIN ring' = DOMAIN ring
  BY <1>1 DEF Captures
<1>3. Domains'
  BY <1>1, <1>2 DEF BlocksAreInOrder, Domains
<1>4. ASSUME NEW d \in Captures \ direct, d # c PROVE BlocksFollow(d)'
  BY <1>1, <1>4, BlocksStay DEF BlocksAreInOrder, Domains, Captures
<1>5. ASSUME c \notin direct PROVE BlocksFollow(c)'
  <2> DEFINE q == ring[c]
             f == Len(fifo[c])
             h == heard[c]
             n == Len(ring[c])
  <2>0. BlocksFollow(c) /\ h \in Numbers /\ c \in DOMAIN ring
    BY <1>5 DEF BlocksAreInOrder, Domains
  <2>1. /\ q \in Seq(Numbers) /\ f \in Nat /\ h \in Nat /\ n \in Nat
        /\ \A i \in 1 .. n : q[i] = (h + f + i) % Wrap
        /\ accepted[c] = (h + f + n) % Wrap /\ Len(q) = n
    BY <2>0, WrapIs DEF BlocksFollow
  <2>2. Wrap \in Nat \ {0} /\ accepted[c] \in Numbers
    <3> DEFINE a == h + f + n
    <3>1. a \in Nat
      BY <2>1
    <3> HIDE DEF a
    <3>2. a % Wrap \in 0 .. Wrap - 1
      BY <3>1, WrapIs, Division
    <3> QED BY <2>1, <3>2, WrapIs DEF a
  <2>3. block \in Numbers /\ block # accepted[c]
    BY <2>2, WrapMoves
  <2>4. block = (h + f + n + 1) % Wrap
    <3> DEFINE a == h + f + n
    <3>1. a \in Nat
      BY <2>1
    <3> HIDE DEF a
    <3>2. ((a % Wrap) + 1) % Wrap = (a + 1) % Wrap
      BY <2>2, <3>1, WrapAdds
    <3> QED BY <2>1, <3>2 DEF a
  <2>5. ring'[c] = queue /\ fifo'[c] = fifo[c] /\ heard'[c] = h
    BY <1>1, <2>0
  <2>6. accepted'[c] = IF queue # <<>> /\ queue[Len(queue)] = block THEN block ELSE accepted[c]
    BY <1>1 DEF Captures
  <2> HIDE DEF q, h, f, n, block
  <2>7. CASE n < RingBlocks
    <3>1. queue = Append(q, block)
      BY <2>7 DEF Publish, q, n
    <3>2. /\ Append(q, block) \in Seq(Numbers) /\ Len(Append(q, block)) = n + 1
          /\ Append(q, block)[n + 1] = block
          /\ \A i \in 1 .. n : Append(q, block)[i] = q[i]
      BY <2>1, <2>3
    <3> HIDE DEF queue
    <3>3. queue # <<>> /\ queue[Len(queue)] = block
      BY <2>1, <3>1, <3>2
    <3>4. \A i \in 1 .. n + 1 : queue[i] = (h + f + i) % Wrap
      BY <2>1, <2>4, <3>1, <3>2
    <3>5. accepted'[c] = (h + f + (n + 1)) % Wrap
      BY <2>1, <2>4, <2>6, <3>3
    <3> QED BY <2>0, <2>5, <3>1, <3>2, <3>4, <3>5 DEF BlocksFollow, HasRoom, h, f
  <2>8. CASE ~(n < RingBlocks)
    <3>1. queue = q
      BY <2>8 DEF Publish, q, n
    <3>2. n \in 1 .. n
      BY <2>1, <2>8, MatrixRuntimeAssumption
    <3>3. queue[Len(queue)] # block
      BY <2>1, <2>3, <3>1, <3>2
    <3>4. ring'[c] = ring[c] /\ accepted'[c] = accepted[c]
      BY <2>5, <2>6, <3>1, <3>3 DEF q
    <3> QED BY <2>0, <2>5, <3>4, BlocksStay DEF h
  <2> QED BY <2>7, <2>8
<1>6. \A d \in Captures' : heard'[d] \in Numbers
  BY <1>1, <1>2 DEF BlocksAreInOrder
<1> QED BY <1>1, <1>2, <1>3, <1>4, <1>5, <1>6 DEF BlocksAreInOrder

\* A read passes blocks on from the queue to the FIFO and from there to the graph.
Heard(c) == IF Read(c).ok THEN Head(Read(c).block) ELSE heard[c]

LEMMA ReadFollows ==
  ASSUME NEW c, BlocksFollow(c), heard[c] \in Numbers
  PROVE  /\ Heard(c) \in Numbers /\ Heard(c) \in {heard[c], (heard[c] + 1) % Wrap}
         /\ Read(c).ring \in Seq(Numbers) /\ Read(c).fifo \in Seq(Numbers)
         /\ Len(Read(c).fifo) <= FifoBlocks
         /\ \A i \in 1 .. Len(Read(c).fifo) : Read(c).fifo[i] = (Heard(c) + i) % Wrap
         /\ \A i \in 1 .. Len(Read(c).ring) :
              Read(c).ring[i] = (Heard(c) + Len(Read(c).fifo) + i) % Wrap
         /\ accepted[c] = (Heard(c) + Len(Read(c).fifo) + Len(Read(c).ring)) % Wrap
<1> DEFINE q == ring[c]
           f == fifo[c]
           h == heard[c]
           r == Read(c)
           block == r.block
           rest == r.ring
           kept == r.fifo
<1>0. Wrap \in Nat \ {0} /\ Numbers = 0 .. Wrap - 1
  BY WrapIs
<1>1. /\ q \in Seq(Numbers) /\ f \in Seq(Numbers) /\ HasRoom(c)
      /\ \A i \in 1 .. Len(f) : f[i] = (h + i) % Wrap
      /\ \A i \in 1 .. Len(q) : q[i] = (h + Len(f) + i) % Wrap
      /\ accepted[c] = (h + Len(f) + Len(q)) % Wrap
  BY DEF BlocksFollow
<1>2. PICK n \in 0 .. Len(q) :
        /\ block = f \o SubSeq(q, 1, n)
        /\ rest = SubSeq(q, n + 1, Len(q))
        /\ kept = IF r.ok THEN Tail(block) ELSE block
        /\ r.ok => block # <<>>
  BY <1>1, ReadMoves
<1>3. /\ block \in Seq(Numbers) /\ rest \in Seq(Numbers) /\ kept \in Seq(Numbers)
      /\ Len(kept) <= FifoBlocks
      /\ r.ok => Head(block) \in Numbers
  BY <1>1, ReadType
<1>4. h \in Nat /\ Len(f) \in Nat /\ Len(q) \in Nat /\ n \in Nat /\ n <= Len(q)
  <2>1. h \in Nat
    BY <1>0
  <2>2. Len(f) \in Nat
    BY <1>1, LenProperties
  <2>3. Len(q) \in Nat
    BY <1>1, LenProperties
  <2> HIDE DEF q, f, h
  <2> QED BY <2>1, <2>2, <2>3
<1> HIDE DEF q, f, h, r, block, rest, kept
<1> DEFINE p == SubSeq(q, 1, n)
<1>5. p \in Seq(Numbers) /\ Len(p) = n /\ \A i \in 1 .. n : p[i] = q[i]
  BY <1>1, <1>4
<1> HIDE DEF p
<1>6. /\ Len(block) = Len(f) + n
      /\ \A i \in 1 .. Len(f) + n : block[i] = IF i <= Len(f) THEN f[i] ELSE p[i - Len(f)]
  BY <1>1, <1>2, <1>5, ConcatProperties DEF p
<1>7. \A i \in 1 .. Len(block) : block[i] = (h + i) % Wrap
  <2> SUFFICES ASSUME NEW i \in 1 .. Len(block) PROVE block[i] = (h + i) % Wrap
    OBVIOUS
  <2>1. CASE i <= Len(f)
    BY <1>1, <1>4, <1>6, <2>1
  <2>2. CASE ~(i <= Len(f))
    <3> DEFINE j == i - Len(f)
    <3>1. j \in 1 .. n /\ h + Len(f) + j = h + i
      BY <1>4, <1>6, <2>2
    <3>2. block[i] = q[j]
      BY <1>4, <1>5, <1>6, <2>2, <3>1
    <3> HIDE DEF j
    <3>3. q[j] = (h + Len(f) + j) % Wrap
      BY <1>1, <1>4, <3>1
    <3> QED BY <3>1, <3>2, <3>3
  <2> QED BY <2>1, <2>2
<1>8. Len(rest) = Len(q) - n /\ \A i \in 1 .. Len(rest) : rest[i] = q[n + i]
  BY <1>1, <1>2, <1>4
<1>9. \A i \in 1 .. Len(rest) : rest[i] = (h + Len(block) + i) % Wrap
  <2> SUFFICES ASSUME NEW i \in 1 .. Len(rest) PROVE rest[i] = (h + Len(block) + i) % Wrap
    OBVIOUS
  <2>1. n + i \in 1 .. Len(q) /\ h + Len(f) + (n + i) = h + Len(block) + i
    BY <1>4, <1>6, <1>8
  <2> QED BY <1>1, <1>8, <2>1
<1>10. accepted[c] = (h + Len(block) + Len(rest)) % Wrap
  <2>1. h + Len(f) + Len(q) = h + Len(block) + Len(rest)
    BY <1>4, <1>6, <1>8
  <2> QED BY <1>1, <2>1
<1>11. CASE ~r.ok
  <2>1. Heard(c) = h /\ kept = block
    BY <1>2, <1>11 DEF Heard, h, r
  <2> QED BY <1>3, <1>7, <1>9, <1>10, <2>1 DEF h, r, block, rest, kept
<1>12. CASE r.ok
  <2> DEFINE g == Heard(c)
  <2>1. block # <<>> /\ g = Head(block) /\ kept = Tail(block)
    BY <1>2, <1>12 DEF Heard, block, r
  <2>2. Len(block) \in Nat \ {0} /\ g = block[1]
    BY <1>3, <2>1
  <2>3. g = (h + 1) % Wrap /\ g \in Numbers
    BY <1>3, <1>7, <1>12, <2>1, <2>2
  <2>4. Len(kept) = Len(block) - 1 /\ \A i \in 1 .. Len(kept) : kept[i] = block[i + 1]
    BY <1>3, <2>1, HeadTailProperties
  <2>5. ASSUME NEW i \in Nat PROVE (g + i) % Wrap = (h + 1 + i) % Wrap
    <3> DEFINE a == h + 1
    <3>1. a \in Nat
      BY <1>4
    <3> HIDE DEF a
    <3>2. ((a % Wrap) + i) % Wrap = (a + i) % Wrap
      BY <1>0, <3>1, WrapAdds
    <3> QED BY <2>3, <3>2 DEF a
  <2> HIDE DEF g
  <2>6. \A i \in 1 .. Len(kept) : kept[i] = (g + i) % Wrap
    <3> SUFFICES ASSUME NEW i \in 1 .. Len(kept) PROVE kept[i] = (g + i) % Wrap
      OBVIOUS
    <3>1. i + 1 \in 1 .. Len(block) /\ h + (i + 1) = h + 1 + i /\ i \in Nat
      BY <1>4, <2>2, <2>4
    <3>2. kept[i] = (h + (i + 1)) % Wrap
      BY <1>7, <2>4, <3>1
    <3> QED BY <2>5, <3>1, <3>2
  <2>7. ASSUME NEW i \in Nat
        PROVE  (g + Len(kept) + i) % Wrap = (h + Len(block) + i) % Wrap
    <3> DEFINE j == Len(kept) + i
    <3>1. j \in Nat /\ g \in Nat /\ g + Len(kept) + i = g + j /\ h + 1 + j = h + Len(block) + i
      BY <1>0, <1>4, <2>2, <2>3, <2>4
    <3> HIDE DEF j
    <3> QED BY <2>5, <3>1
  <2>8. Len(rest) \in Nat
    BY <1>3
  <2>9. \A i \in 1 .. Len(rest) : rest[i] = (g + Len(kept) + i) % Wrap
    BY <1>9, <2>7, <2>8
  <2>10. accepted[c] = (g + Len(kept) + Len(rest)) % Wrap
    BY <1>10, <2>7, <2>8
  <2> QED BY <1>3, <2>3, <2>6, <2>9, <2>10 DEF g, h, r, block, rest, kept
<1> QED BY <1>11, <1>12

\* What a cycle of the master makes of a capture.
LEMMA MasterCycleReads ==
  ASSUME BlocksAreInOrder, MasterCycle
  PROVE  /\ Captures' = Captures /\ direct' = direct
         /\ DOMAIN heard' = Captures /\ DOMAIN ring' = DOMAIN ring /\ DOMAIN fifo' = DOMAIN ring
         /\ \A c \in Captures \intersect direct : heard'[c] = (heard[c] + 1) % Wrap
         /\ \A c \in Captures \ direct :
              /\ heard'[c] = Heard(c) /\ accepted'[c] = accepted[c]
              /\ ring'[c] = Read(c).ring /\ fifo'[c] = Read(c).fifo
<1>1. /\ heard' = [c \in Captures |-> Got(Reads).number[c]]
      /\ accepted' = [c \in Captures |-> IF c \in direct THEN Got(Reads).number[c]
                                                         ELSE accepted[c]]
      /\ fifo' = [e \in DOMAIN ring |-> IF e \in Followers THEN fifo[e] ELSE Reads[e].fifo]
      /\ direct' = direct
  BY DEF MasterCycle, opened
<1>2. /\ DOMAIN ring' = DOMAIN ring
      /\ \A e \in DOMAIN ring \ Followers : ring'[e] = Reads[e].ring
  BY DEF MasterCycle
<1>3. \A c \in Captures : c # Asio
  BY DEF BlocksAreInOrder, Domains
<1>4. ASSUME NEW c \in Captures \intersect direct
      PROVE  heard'[c] = (heard[c] + 1) % Wrap
  BY <1>1, <1>3 DEF Got, Wrap
<1>5. ASSUME NEW c \in Captures \ direct
      PROVE  /\ heard'[c] = Heard(c) /\ accepted'[c] = accepted[c]
             /\ ring'[c] = Read(c).ring /\ fifo'[c] = Read(c).fifo
  <2>1. Reads[c] = Read(c) /\ c \in DOMAIN ring /\ c \notin Followers
    BY DEF Reads, BlocksAreInOrder, Domains, Followers, Captures
  <2>2. Got(Reads).number[c] = Heard(c)
    BY <1>3, <2>1 DEF Got, Heard
  <2> QED BY <1>1, <1>2, <2>1, <2>2
<1> QED BY <1>1, <1>2, <1>4, <1>5 DEF Captures

LEMMA MasterCycleFollows == BlocksAreInOrder /\ MasterCycle => BlocksAreInOrder'
<1> SUFFICES ASSUME BlocksAreInOrder, MasterCycle PROVE BlocksAreInOrder'
  OBVIOUS
<1>1. /\ Captures' = Captures /\ direct' = direct
      /\ DOMAIN heard' = Captures /\ DOMAIN ring' = DOMAIN ring /\ DOMAIN fifo' = DOMAIN ring
      /\ \A c \in Captures \intersect direct : heard'[c] = (heard[c] + 1) % Wrap
      /\ \A c \in Captures \ direct :
           /\ heard'[c] = Heard(c) /\ accepted'[c] = accepted[c]
           /\ ring'[c] = Read(c).ring /\ fifo'[c] = Read(c).fifo
  BY MasterCycleReads
<1>2. Domains'
  BY <1>1 DEF BlocksAreInOrder, Domains
<1>3. ASSUME NEW c \in Captures \ direct PROVE BlocksFollow(c)' /\ heard'[c] \in Numbers
  <2>1. BlocksFollow(c) /\ heard[c] \in Numbers
    BY DEF BlocksAreInOrder
  <2>2. /\ heard'[c] = Heard(c) /\ accepted'[c] = accepted[c]
        /\ ring'[c] = Read(c).ring /\ fifo'[c] = Read(c).fifo
    BY <1>1
  <2> DEFINE h == Heard(c)
             q == Read(c).ring
             f == Read(c).fifo
  <2>3. /\ h \in Numbers /\ q \in Seq(Numbers) /\ f \in Seq(Numbers)
        /\ Len(f) <= FifoBlocks
        /\ \A i \in 1 .. Len(f) : f[i] = (h + i) % Wrap
        /\ \A i \in 1 .. Len(q) : q[i] = (h + Len(f) + i) % Wrap
        /\ accepted[c] = (h + Len(f) + Len(q)) % Wrap
    BY <2>1, ReadFollows
  <2>4. heard'[c] = h /\ ring'[c] = q /\ fifo'[c] = f
    BY <2>2
  <2> HIDE DEF h, q, f
  <2> QED BY <2>2, <2>3, <2>4 DEF BlocksFollow, HasRoom
<1>4. ASSUME NEW c \in Captures \intersect direct PROVE heard'[c] \in Numbers
  BY <1>1, WrapMoves DEF BlocksAreInOrder
<1> QED BY <1>1, <1>2, <1>3, <1>4 DEF BlocksAreInOrder

LEMMA FollowerCycleFollows ==
  ASSUME BlocksAreInOrder, NEW r \in Followers, FollowerCycle(r)
  PROVE  BlocksAreInOrder'
<1>1. /\ ring' = [ring EXCEPT ![r] = Read(r).ring]
      /\ fifo' = [fifo EXCEPT ![r] = Read(r).fifo]
      /\ UNCHANGED <<accepted, heard, direct>>
  BY DEF FollowerCycle, opened
<1>2. Captures' = Captures
  BY <1>1 DEF Captures
<1>3. Domains'
  BY <1>1, <1>2 DEF BlocksAreInOrder, Domains
<1>4. ASSUME NEW c \in Captures \ direct PROVE BlocksFollow(c)'
  <2>1. c # r /\ c \in DOMAIN ring /\ c \in DOMAIN fifo
    BY DEF Followers, Captures, BlocksAreInOrder, Domains
  <2> QED BY <1>1, <2>1, BlocksStay DEF BlocksAreInOrder
<1> QED BY <1>1, <1>2, <1>3, <1>4 DEF BlocksAreInOrder

-----------------------------------------------------------------------------
(* The invariant and the theorems                                            *)

LEMMA InitInv == Init => Inv
<1> SUFFICES ASSUME Init PROVE Inv
  OBVIOUS
<1>1. Presets
  BY DEF Init, Presets
<1>2. MembersArePassed
  BY DEF Init, MembersArePassed, NothingOpen
<1>3. EndpointsAreInPlace
  BY DEF Init, EndpointsAreInPlace
<1>4. SlicesAreDue
  BY DEF Init, SlicesAreDue, Followers
<1>5. BlocksAreInOrder
  BY DEF Init, BlocksAreInOrder, Domains, Captures
<1> QED BY <1>1, <1>2, <1>3, <1>4, <1>5 DEF Inv

\* A step that moves no audio.
LEMMA QuietStep ==
  ASSUME SlicesAreDue, BlocksAreInOrder, UNCHANGED <<streams, opened>>
  PROVE  SlicesAreDue' /\ BlocksAreInOrder'
<1>1. UNCHANGED <<accepted, ring, fifo, heard, played, direct>>
  BY DEF streams, opened
<1>2. Captures' = Captures /\ Followers' = Followers
  BY <1>1 DEF Captures, Followers
<1>3. SlicesAreDue'
  BY <1>1, <1>2 DEF SlicesAreDue, AllDue, IsDue, HasRoom
<1>4. Domains'
  BY <1>1, <1>2 DEF BlocksAreInOrder, Domains
<1>5. \A c \in Captures \ direct : BlocksFollow(c)'
  BY <1>1, BlocksStay DEF BlocksAreInOrder
<1> QED BY <1>1, <1>2, <1>3, <1>4, <1>5 DEF BlocksAreInOrder

LEMMA NextInv == Inv /\ [Next]_vars => Inv'
<1> SUFFICES ASSUME Inv, [Next]_vars PROVE Inv'
  OBVIOUS
<1>0. Presets /\ MembersArePassed /\ EndpointsAreInPlace /\ SlicesAreDue /\ BlocksAreInOrder
      /\ Domains
  BY DEF Inv, BlocksAreInOrder
<1>p. Presets'
  <2>1. UNCHANGED preset
    BY DEF Next, vars, Open, OpenFails, BeginStart, MemberStarts, MemberFailsToStart, BeginStop,
           StopMember, MemberFaults, CaptureBlock, MasterCycle, FollowerCycle, BeginApply, EndApply
  <2> QED BY <1>0, <2>1 DEF Presets, preset
<1>1. CASE Open
  BY <1>0, <1>1, <1>p, OpenPasses, OpenPlaces, OpenIsDue, OpenFollows DEF Inv
<1>2. CASE \/ OpenFails \/ BeginStart \/ MemberStarts \/ MemberFailsToStart
           \/ BeginStop \/ StopMember \/ \E m \in alive : MemberFaults(m)
  <2>1. UNCHANGED <<preset, streams, opened>>
    BY <1>2 DEF OpenFails, BeginStart, MemberStarts, MemberFailsToStart, BeginStop, StopMember,
                MemberFaults
  <2>2. UNCHANGED <<matrix, ring, accepted, opened>>
    BY <2>1 DEF preset, streams
  <2>3. phase \in {"closed", "refused"} => phase' \in {"closed", "refused"}
    BY <1>2 DEF OpenFails, BeginStart, MemberStarts, MemberFailsToStart, BeginStop, StopMember,
                MemberFaults
  <2>4. EndpointsAreInPlace'
    BY <1>0, <2>2, <2>3, StaysInPlace
  <2>5. MembersArePassed'
    BY <1>0, <1>2, OtherLifePasses, MemberStartsPasses, StopMemberPasses
  <2> QED BY <1>0, <1>p, <2>1, <2>4, <2>5, QuietStep DEF Inv
<1>3. CASE \/ \E new \in RouteSets : BeginApply(new)
           \/ EndApply \/ UNCHANGED vars
  <2>1. UNCHANGED <<preset, streams, opened, lifecycle>>
    BY <1>3 DEF BeginApply, EndApply, vars
  <2>2. UNCHANGED <<matrix, ring, accepted, opened, phase>>
    BY <2>1 DEF preset, streams, lifecycle
  <2>3. EndpointsAreInPlace'
    BY <1>0, <2>2, StaysInPlace
  <2>4. MembersArePassed'
    BY <1>0, <2>1, StreamPasses
  <2> QED BY <1>0, <1>p, <2>1, <2>3, <2>4, QuietStep DEF Inv
<1>4. ASSUME NEW c \in Captures, CaptureBlock(c) PROVE Inv'
  <2>1. /\ UNCHANGED <<matrix, opened, lifecycle, phase>>
        /\ DOMAIN ring' = DOMAIN ring /\ DOMAIN accepted' = DOMAIN accepted
    BY <1>4 DEF CaptureBlock, preset, lifecycle
  <2>2. EndpointsAreInPlace'
    BY <1>0, <2>1, StaysInPlace
  <2>3. MembersArePassed'
    <3>1. ~NothingOpen
      BY DEF NothingOpen, Captures
    <3> QED BY <1>0, <2>1, <3>1, StreamPasses
  <2> QED BY <1>0, <1>4, <1>p, <2>2, <2>3, CaptureBlockIsDue, CaptureBlockFollows DEF Inv
<1>5. CASE MasterCycle
  <2>1. UNCHANGED <<matrix, opened, lifecycle, phase>> /\ order # <<>>
    BY <1>5 DEF MasterCycle, preset, lifecycle
  <2>2. DOMAIN ring' = DOMAIN ring /\ DOMAIN accepted' = DOMAIN accepted
    BY <1>5 DEF MasterCycle, Captures
  <2>3. EndpointsAreInPlace'
    BY <1>0, <2>1, <2>2, StaysInPlace
  <2>4. MembersArePassed'
    <3>1. ~NothingOpen
      BY <2>1 DEF NothingOpen
    <3> QED BY <1>0, <2>1, <3>1, StreamPasses
  <2> QED BY <1>0, <1>5, <1>p, <2>3, <2>4, MasterCycleIsDue, MasterCycleFollows DEF Inv
<1>6. ASSUME NEW r \in Followers, FollowerCycle(r) PROVE Inv'
  <2>1. /\ UNCHANGED <<matrix, opened, lifecycle, phase, accepted>>
        /\ DOMAIN ring' = DOMAIN ring
    BY <1>6 DEF FollowerCycle, preset, lifecycle
  <2>2. EndpointsAreInPlace'
    BY <1>0, <2>1, StaysInPlace
  <2>3. MembersArePassed'
    <3>1. ~NothingOpen
      BY DEF NothingOpen, Followers
    <3> QED BY <1>0, <2>1, <3>1, StreamPasses
  <2> QED BY <1>0, <1>6, <1>p, <2>2, <2>3, FollowerCycleIsDue, FollowerCycleFollows DEF Inv
<1> QED BY <1>1, <1>2, <1>3, <1>4, <1>5, <1>6 DEF Next

\* The invariant of the matrix runtime.
THEOREM InvHolds == Spec => []Inv
<1> QED BY InitInv, NextInv, PTL DEF Spec

\* However a start or a stop ended, and whichever members gave up meanwhile, no
\* member runs of a runtime that is not running, starting or stopping, but the
\* master whose driver refused the last stop.
THEOREM StartIsAllOrNothing == Spec => []AllOrNothing
<1>1. Inv => AllOrNothing
  BY DEF Inv, MembersArePassed, AllOrNothing
<1> QED BY <1>1, InvHolds, PTL

\* Every endpoint plays what the routes say by the ports' names, for every
\* configuration and every order of the ports that is accepted: the places the
\* binding found, the assembler, the route matrix and the slices agree.
THEOREM EndpointsPlayTheirRoutes == Spec => []EndpointPlaysItsRoutes
<1>1. Inv => EndpointPlaysItsRoutes
  BY DEF Inv, SlicesAreDue, IsDue, EndpointPlaysItsRoutes
<1> QED BY <1>1, InvHolds, PTL

LEMMA StepHearsNext ==
  ASSUME Inv, [Next]_vars, NEW c \in Captures
  PROVE  heard'[c] \in {heard[c], (heard[c] + 1) % Cardinality(Numbers)}
<1>0. BlocksAreInOrder /\ MembersArePassed
  BY DEF Inv
<1>1. CASE MasterCycle
  <2>1. CASE c \in direct
    BY <1>0, <1>1, <2>1, MasterCycleReads DEF Wrap
  <2>2. CASE c \notin direct
    <3>1. heard'[c] = Heard(c)
      BY <1>0, <1>1, <2>2, MasterCycleReads
    <3>2. BlocksFollow(c) /\ heard[c] \in Numbers
      BY <1>0, <2>2 DEF BlocksAreInOrder
    <3> QED BY <3>1, <3>2, ReadFollows DEF Wrap
  <2> QED BY <2>1, <2>2
<1>2. CASE Open
  BY <1>0, <1>2 DEF Open, MembersArePassed, NothingOpen, Captures
<1>3. CASE ~MasterCycle /\ ~Open
  <2>1. heard' = heard
    BY <1>3 DEF Next, vars, OpenFails, BeginStart, MemberStarts, MemberFailsToStart, BeginStop,
                StopMember, MemberFaults, CaptureBlock, FollowerCycle, BeginApply, EndApply, streams
  <2> QED BY <2>1
<1> QED BY <1>1, <1>2, <1>3

\* The graph hears the blocks a capture's queue accepted in order and each once,
\* for all sizes of the queue, the FIFO and the target, and any order of cycles.
THEOREM BlocksComeOnceInOrder == Spec => EveryBlockOnceInOrder
<1>1. Inv /\ [Next]_vars =>
        [\A c \in Captures :
           heard'[c] \in {heard[c], (heard[c] + 1) % Cardinality(Numbers)}]_vars
  BY StepHearsNext
<1> QED BY <1>1, InvHolds, PTL DEF Spec, EveryBlockOnceInOrder

-----------------------------------------------------------------------------
(* The physical ASIO runtime.                                              *)

Teardown == {"destroy", "unhook", "quiet", "free", "dispose"}

\* The places the control thread may be in, with what it has in hand there.
Places ==
  /\ pc \in Teardown => dying \in Hosts
  /\ pc \in {"buffers", "opened"} => candidate \in Hosts
  /\ pc = "start" => installed \in Hosts
  /\ (pc \in {"open", "restore", "buffers", "opened", "install"} /\ plan = "rebuild")
       => installed \in Hosts
  /\ (pc = "install" /\ plan = "rebuild") => candidate \in Hosts
  /\ (pc \in Teardown /\ then = "start") => installed \in Hosts /\ candidate = None
  /\ (pc \in Teardown /\ then = "restore" /\ plan = "rebuild") => installed \in Hosts

Typed == TypeOK /\ Places

LEMMA TypedInit ==
  ASSUME Constants, AsioInit
  PROVE  Typed
<1> USE DEF Constants, AsioInit
<1>1. callback \in [Hosts -> [at : {"out", "entered", "inside"}, in : Hosts \union {None}]]
  BY DEF Out
<1>2. {buffers, transports, delivering} \subseteq SUBSET Hosts
  OBVIOUS
<1>3. {installed, candidate, dying} \subseteq Hosts \union {None} /\ calls \in 0 .. MaxCalls
  OBVIOUS
<1>4. Places
  BY DEF Places, Teardown
<1> QED
  BY <1>1, <1>2, <1>3, <1>4 DEF Typed, TypeOK

LEMMA TypedNext ==
  ASSUME Constants, Typed, [AsioNext]_asioVars
  PROVE  Typed'
<1> USE DEF Constants, Typed, TypeOK, Places, Teardown
<1>1. CASE Driver
  BY <1>1 DEF Driver, Enter, Load, Leave, hosts, globals, control, Out
<1>2. CASE Configure
  BY <1>2 DEF Configure, Call, RuntimeStop, Running, hosts, globals
<1>3. CASE Start
  BY <1>3 DEF Start, Call, hosts, globals
<1>4. CASE StartInstalled
  BY <1>4 DEF StartInstalled, RuntimeStart, Running, globals
<1>5. CASE Stop
  BY <1>5 DEF Stop, Call, RuntimeStop, Running, hosts, globals
<1>6. CASE DriverUnavailable \/ OpenOther
  BY <1>6 DEF DriverUnavailable, OpenOther, hosts, globals
<1>7. CASE TakeSlot
  BY <1>7 DEF TakeSlot, Destroy, hosts
<1>8. CASE CreateBuffers
  BY <1>8 DEF CreateBuffers, Destroy
<1>9. CASE Opened
  BY <1>9 DEF Opened, Destroy, RuntimeStart, Running, hosts, globals
<1>10. CASE Restore
  BY <1>10 DEF Restore, Destroy, RuntimeStart, Running, hosts, globals
<1>11. CASE Install
  BY <1>11 DEF Install, Destroy, hosts, globals
<1>12. CASE StopDying
  BY <1>12 DEF StopDying, globals
<1>13. CASE Unhook \/ Quiet \/ Free
  BY <1>13 DEF Unhook, Quiet, Free, hosts, globals
<1>14. CASE Dispose
  BY <1>14 DEF Dispose
<1>15. CASE UNCHANGED asioVars
  BY <1>15 DEF asioVars, hosts, globals, control
<1> QED
  BY <1>1, <1>2, <1>3, <1>4, <1>5, <1>6, <1>7, <1>8, <1>9, <1>10, <1>11, <1>12, <1>13, <1>14,
     <1>15 DEF AsioNext, Control
\* Every variable keeps its type, and the control thread has in hand what the place
\* it is in needs.
THEOREM TypeCorrect ==
  ASSUME Constants
  PROVE  AsioSpec => []TypeOK
<1>1. AsioInit => Typed
  BY TypedInit
<1>2. Typed /\ [AsioNext]_asioVars => Typed'
  BY TypedNext
<1>3. Typed => TypeOK
  BY DEF Typed
<1> QED
  BY <1>1, <1>2, <1>3, PTL DEF AsioSpec

-----------------------------------------------------------------------------
(* A transport outlives the callbacks inside it.                           *)

\* What a callback may find in the global, or has found, exists. Once the callbacks
\* are out, with the global cleared, none gets at a transport before teardown() ends,
\* whichever host set the global and whichever is torn down.
Alive ==
  /\ transport # None => transport \in transports \intersect buffers
  /\ NoUseAfterFree
  /\ pc \in {"quiet", "free", "dispose"} => transport = None
  /\ pc \in {"free", "dispose"} => \A h \in Hosts : callback[h].in = None

LEMMA AliveInit == AsioInit => Alive
BY DEF AsioInit, Alive, NoUseAfterFree, Out

\* Nothing in Alive depends on where else the control thread is.
LEMMA AliveElsewhere ==
  ASSUME Alive, UNCHANGED <<transport, callback>>,
         transports \subseteq transports', buffers \subseteq buffers',
         pc' \notin {"quiet", "free", "dispose"}
  PROVE  Alive'
BY DEF Alive, NoUseAfterFree

LEMMA AliveNext ==
  ASSUME Constants, Typed, Alive, [AsioNext]_asioVars
  PROVE  Alive'
<1> USE DEF Constants
<1>1. ASSUME NEW h \in Hosts, Enter(h) \/ Load(h) \/ Leave(h) PROVE Alive'
  <2>1. callback' = [callback EXCEPT ![h] = callback'[h]]
    BY <1>1 DEF Enter, Load, Leave, Typed, TypeOK
  <2>2. callback'[h].in \in {None, transport}
    BY <1>1 DEF Enter, Load, Leave, Typed, TypeOK, Out
  <2>3. UNCHANGED <<transport, transports, buffers, pc>>
    BY <1>1 DEF Enter, Load, Leave, globals, hosts, control
  <2> QED
    BY <2>1, <2>2, <2>3 DEF Alive, NoUseAfterFree, Typed, TypeOK
<1>2. CASE Configure \/ Start \/ StartInstalled \/ Stop
  BY <1>2, AliveElsewhere DEF Configure, Start, StartInstalled, Stop, Call, RuntimeStart,
     RuntimeStop, Running, hosts, globals
<1>3. CASE DriverUnavailable \/ OpenOther \/ TakeSlot \/ Opened \/ Restore \/ Install
  <2>1. pc' \notin {"quiet", "free", "dispose"}
    BY <1>3 DEF DriverUnavailable, OpenOther, TakeSlot, Opened, Restore, Install, Destroy
  <2> QED
    BY <1>3, <2>1, AliveElsewhere DEF DriverUnavailable, OpenOther, TakeSlot, Opened, Restore, Install,
       RuntimeStart, Running, hosts, globals
<1>4. CASE CreateBuffers
  BY <1>4 DEF CreateBuffers, Destroy, Alive, NoUseAfterFree, Typed, TypeOK, Places
<1>5. CASE StopDying
  BY <1>5, AliveElsewhere DEF StopDying, globals
<1>6. CASE Unhook \/ Quiet
  BY <1>6 DEF Unhook, Quiet, Alive, NoUseAfterFree, Out, hosts, globals
<1>7. CASE Free
  BY <1>7 DEF Free, Alive, NoUseAfterFree, globals
<1>8. CASE Dispose
  BY <1>8 DEF Dispose, Alive, NoUseAfterFree, Typed, TypeOK
<1>9. CASE UNCHANGED asioVars
  BY <1>9 DEF asioVars, hosts, globals, control, Alive, NoUseAfterFree
<1> QED
  BY <1>1, <1>2, <1>3, <1>4, <1>5, <1>6, <1>7, <1>8, <1>9 DEF AsioNext, Driver, Control

\* No callback is ever inside a transport that has been freed or whose driver buffers
\* have been disposed of, whichever driver refuses to stop and whichever host's
\* destruction cleared the pointer (teardown(), buffer_switch()).
THEOREM TransportOutlivesCallbacks ==
  ASSUME Constants
  PROVE  AsioSpec => []NoUseAfterFree
<1>1. AsioInit => Typed /\ Alive
  BY TypedInit, AliveInit
<1>2. Typed /\ Alive /\ [AsioNext]_asioVars => (Typed /\ Alive)'
  BY TypedNext, AliveNext
<1>3. Alive => NoUseAfterFree
  BY DEF Alive
<1> QED
  BY <1>1, <1>2, <1>3, PTL DEF AsioSpec

-----------------------------------------------------------------------------
(* With one host at a time, what runs is called.                           *)

\* What is installed is in the global, unless it is being torn down, and then it is
\* no longer what is installed.
Registered ==
  /\ installed # None => /\ candidate = None /\ transport = installed
                         /\ pc \notin Teardown \union {"buffers", "opened"}
  /\ (candidate # None /\ pc \in {"opened", "install"}) => transport = candidate
  /\ pc \in {"idle", "start", "open"} => candidate = None
  /\ pc \in Teardown => candidate \in {None, dying}

LEMMA RegisteredInit == AsioInit => Registered
BY DEF AsioInit, Registered

LEMMA RegisteredNext ==
  ASSUME Constants, NEW a, Hosts = {a}, Typed, Registered, [AsioNext]_asioVars
  PROVE  Registered'
<1> USE DEF Constants, Typed, TypeOK, Places, Teardown, Registered
<1>1. CASE Driver
  BY <1>1 DEF Driver, Enter, Load, Leave, globals, control
<1>2. CASE Configure \/ Start \/ StartInstalled \/ Stop
  BY <1>2 DEF Configure, Start, StartInstalled, Stop, Call, globals
<1>3. CASE DriverUnavailable \/ OpenOther
  BY <1>3 DEF DriverUnavailable, OpenOther, globals
<1>4. CASE TakeSlot
  <2>1. installed = None
    BY <1>4 DEF TakeSlot
  <2>2. pc' = "buffers" \/ (pc' = "destroy" /\ dying' = candidate')
    BY <1>4 DEF TakeSlot, Destroy
  <2>3. installed' = installed
    BY <1>4 DEF TakeSlot
  <2> QED
    BY <2>1, <2>2, <2>3
<1>5. CASE CreateBuffers
  BY <1>5 DEF CreateBuffers, Destroy
<1>6. CASE Opened
  BY <1>6 DEF Opened, Destroy, globals
<1>7. CASE Restore
  BY <1>7 DEF Restore, Destroy, globals
<1>8. CASE Install
  BY <1>8 DEF Install, Destroy, globals
<1>9. CASE StopDying \/ Unhook \/ Quiet \/ Free \/ Dispose
  BY <1>9 DEF StopDying, Unhook, Quiet, Free, Dispose, globals
<1>10. CASE UNCHANGED asioVars
  BY <1>10 DEF asioVars, globals, control
<1> QED
  BY <1>1, <1>2, <1>3, <1>4, <1>5, <1>6, <1>7, <1>8, <1>9, <1>10 DEF AsioNext, Control

\* As long as no host is created while there is another, a runtime that runs between
\* two calls, restored or not, is the one the driver's callbacks reach: what
\* RestoredRuntimeIsHeard is violated by is the second host, and nothing else.
THEOREM HeardWithOneHost ==
  ASSUME Constants, NEW a, Hosts = {a}
  PROVE  AsioSpec => []RestoredRuntimeIsHeard
<1>1. AsioInit => Typed /\ Registered
  BY TypedInit, RegisteredInit
<1>2. Typed /\ Registered /\ [AsioNext]_asioVars => (Typed /\ Registered)'
  BY TypedNext, RegisteredNext
<1>3. Registered => RestoredRuntimeIsHeard
  BY DEF Registered, RestoredRuntimeIsHeard, Constants
<1> QED
  BY <1>1, <1>2, <1>3, PTL DEF AsioSpec
=============================================================================
