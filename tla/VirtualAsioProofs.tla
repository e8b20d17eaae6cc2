------------------------- MODULE VirtualAsioProofs -------------------------
(***************************************************************************)
(* Proofs about the Virtual ASIO hosts, the memory they share with their   *)
(* clients, and the two threads that exchange blocks through it.           *)
(*                                                                         *)
(* SharedQueue: the ring is a first-in first-out queue, for every capacity *)
(* and any blocks. QueueTypeOK and SlotOwnership together are inductive:   *)
(* an action of one side changes only its own position and, the producer,  *)
(* the slot of its position, which is not the slot of any published        *)
(* position since positions less than a capacity apart have different      *)
(* slots. The lemmas about a Ring say so of the parts of one, whichever    *)
(* queue they belong to.                                                   *)
(*                                                                         *)
(* VirtualAsioTransport: a connection with its two queues, for every       *)
(* capacity, limit of a wake and number of runs.  Every block on its way   *)
(* from the driver to the session and back has a place (At), and the       *)
(* places are in order (InLine): a step adds a block with the latest       *)
(* number, drops one, or moves one ahead past no other.                    *)
(*                                                                         *)
(* SharedMemoryLayout: what it promises, for every format, every capacity  *)
(* and every value of the limits.                                          *)
(*                                                                         *)
(* VirtualAsioHost: for every number of devices, processes and clients,    *)
(* whatever client ids the processes draw.  The registry, the sessions and *)
(* the graphs of a host only change under its mutex; what is hard is a     *)
(* broker request, whose steps are spread over other processes' and the    *)
(* observer's.  HostInv therefore says what each step of a request still   *)
(* knows: how its graph relates to the host's generation, and whose        *)
(* connection it is about to remove.                                       *)
(***************************************************************************)
EXTENDS VirtualAsioTransport, SharedMemoryLayout, VirtualAsioHost, SequenceTheorems, FiniteSetTheorems, TLAPS

-----------------------------------------------------------------------------
(* The queue.                                                              *)

Inv == QueueTypeOK /\ SlotOwnership

LEMMA RemainderRange ==
  ASSUME NEW p \in Nat
  PROVE  /\ Slot(p) \in 0 .. Capacity - 1
         /\ p \div Capacity \in Nat
         /\ p = Capacity * (p \div Capacity) + Slot(p)
  BY CapacityIsPositive DEF Slot

\* Two positions less than Capacity apart never share a slot.
LEMMA SlotsAreApart ==
  ASSUME NEW p \in Nat, NEW q \in Nat, p < q, q - p < Capacity
  PROVE  Slot(p) # Slot(q)
<1> DEFINE a == p \div Capacity
           b == q \div Capacity
<1>1. a \in Nat /\ p = Capacity * a + Slot(p) /\ Slot(p) \in 0 .. Capacity - 1
  BY RemainderRange
<1>2. b \in Nat /\ q = Capacity * b + Slot(q) /\ Slot(q) \in 0 .. Capacity - 1
  BY RemainderRange
<1> HIDE DEF a, b
<1> SUFFICES ASSUME Slot(p) = Slot(q) PROVE FALSE
  OBVIOUS
<1>3. q - p = Capacity * (b - a)
  BY <1>1, <1>2, CapacityIsPositive
<1>4. CASE b <= a
  <2>1. Capacity * (b - a) <= 0
    BY <1>4, <1>1, <1>2, CapacityIsPositive
  <2> QED BY <2>1, <1>3, <1>1, <1>2, CapacityIsPositive
<1>5. CASE b >= a + 1
  <2>1. Capacity * (b - a) >= Capacity
    BY <1>5, <1>1, <1>2, CapacityIsPositive
  <2> QED BY <2>1, <1>3, <1>1, <1>2, CapacityIsPositive
<1> QED BY <1>4, <1>5, <1>1, <1>2

\* Writing into the slot of the next position leaves the published slots alone.
LEMMA PublishedSlotsStay ==
  ASSUME QueueTypeOK, Fill \in 0 .. Capacity - 1,
         NEW content, slots' = [slots EXCEPT ![Slot(write_position)] = content],
         NEW position \in read_position .. write_position - 1
  PROVE  slots'[Slot(position)] = slots[Slot(position)]
<1>1. position \in Nat /\ position < write_position
       /\ write_position - position < Capacity
  BY CapacityIsPositive DEF QueueTypeOK, Fill
<1>2. Slot(position) # Slot(write_position)
  BY <1>1, SlotsAreApart DEF QueueTypeOK
<1>3. Slot(position) \in 0 .. Capacity - 1
  BY <1>1, RemainderRange
<1> QED BY <1>2, <1>3 DEF QueueTypeOK

\* What QueueTypeOK and SlotOwnership say of a ring's positions, slots and copies.
Ring(w, s, wr, r, rd) ==
  /\ w \in Nat /\ r \in Nat /\ s \in [0 .. Capacity - 1 -> Blocks \cup {Torn}]
  /\ wr \in Blocks \cup {NoBlock} /\ rd \in Blocks \cup {NoBlock}
  /\ w - r \in 0 .. Capacity /\ (wr # NoBlock => w - r < Capacity)
  /\ \A p \in r .. w - 1 : s[Slot(p)] \in Blocks
  /\ rd # NoBlock => w - r > 0 /\ s[Slot(r)] = rd

\* The slot of the next position is none of the published slots.
LEMMA NextSlotIsFree ==
  ASSUME NEW w \in Nat, NEW r \in Nat, w - r < Capacity, NEW p \in r .. w - 1
  PROVE  Slot(p) # Slot(w) /\ Slot(p) \in 0 .. Capacity - 1
<1>1. p \in Nat /\ p < w /\ w - p < Capacity
  BY CapacityIsPositive
<1> QED BY <1>1, SlotsAreApart, RemainderRange

Written(s, position, content) == [s EXCEPT ![Slot(position)] = content]

LEMMA RingBegins ==
  ASSUME NEW w, NEW s, NEW r, NEW rd, Ring(w, s, NoBlock, r, rd), w - r < Capacity, NEW b \in Blocks
  PROVE  /\ Ring(w, Written(s, w, Torn), b, r, rd)
         /\ \A p \in r .. w - 1 : Written(s, w, Torn)[Slot(p)] = s[Slot(p)]
<1> DEFINE t == Written(s, w, Torn)
<1>1. w \in Nat /\ r \in Nat /\ s \in [0 .. Capacity - 1 -> Blocks \cup {Torn}]
  BY DEF Ring
<1>2. ASSUME NEW p \in r .. w - 1
      PROVE  t[Slot(p)] = s[Slot(p)]
  <2>1. Slot(p) # Slot(w) /\ Slot(p) \in 0 .. Capacity - 1
    BY <1>1, NextSlotIsFree, CapacityIsPositive
  <2> QED BY <1>1, <2>1 DEF Written
<1>3. t \in [0 .. Capacity - 1 -> Blocks \cup {Torn}]
  BY <1>1 DEF Written
<1> HIDE DEF t
<1>4. rd # NoBlock => r \in r .. w - 1
  BY <1>1 DEF Ring
<1>5. Ring(w, t, b, r, rd)
  BY <1>1, <1>2, <1>3, <1>4 DEF Ring
<1> QED BY <1>2, <1>5 DEF t

LEMMA RingPublishes ==
  ASSUME NEW w, NEW s, NEW r, NEW rd, NEW b \in Blocks, Ring(w, s, b, r, rd)
  PROVE  /\ Ring(w + 1, Written(s, w, b), NoBlock, r, rd)
         /\ \A p \in r .. w - 1 : Written(s, w, b)[Slot(p)] = s[Slot(p)]
         /\ Written(s, w, b)[Slot(w)] = b
<1> DEFINE t == Written(s, w, b)
<1>1. /\ w \in Nat /\ r \in Nat /\ s \in [0 .. Capacity - 1 -> Blocks \cup {Torn}]
      /\ w - r \in 0 .. Capacity - 1
  BY BlocksAreBlocks, CapacityIsPositive DEF Ring
<1>2. ASSUME NEW p \in r .. w - 1
      PROVE  t[Slot(p)] = s[Slot(p)]
  <2>1. Slot(p) # Slot(w) /\ Slot(p) \in 0 .. Capacity - 1
    BY <1>1, NextSlotIsFree, CapacityIsPositive
  <2> QED BY <1>1, <2>1 DEF Written
<1>3. t \in [0 .. Capacity - 1 -> Blocks \cup {Torn}] /\ t[Slot(w)] = b
  BY <1>1, RemainderRange DEF Written
<1> HIDE DEF t
<1>4. rd # NoBlock => r \in r .. w - 1
  BY <1>1 DEF Ring
<1>5. Ring(w + 1, t, NoBlock, r, rd)
  BY <1>1, <1>2, <1>3, <1>4, CapacityIsPositive DEF Ring
<1> QED BY <1>2, <1>3, <1>5 DEF t

LEMMA RingFinds ==
  ASSUME NEW w, NEW s, NEW r, NEW wr, Ring(w, s, wr, r, NoBlock), w - r > 0
  PROVE  s[Slot(r)] \in Blocks /\ Ring(w, s, wr, r, s[Slot(r)])
<1>1. r \in r .. w - 1
  BY DEF Ring
<1> QED BY <1>1 DEF Ring

LEMMA RingTakes ==
  ASSUME NEW w, NEW s, NEW r, NEW wr, NEW rd, Ring(w, s, wr, r, rd), rd # NoBlock
  PROVE  /\ Ring(w, s, wr, r + 1, NoBlock)
         /\ rd \in Blocks /\ w - r > 0 /\ s[Slot(r)] = rd
BY CapacityIsPositive DEF Ring

LEMMA InitInv == QueueInit => Inv
<1> SUFFICES ASSUME QueueInit PROVE Inv
  OBVIOUS
<1>1. QueueTypeOK
  BY CapacityIsPositive DEF QueueInit, QueueTypeOK
<1>2. SlotOwnership
  BY CapacityIsPositive, BlocksAreBlocks DEF QueueInit, SlotOwnership, Fill
<1> QED BY <1>1, <1>2 DEF Inv

LEMMA NextInv == Inv /\ [QueueNext]_queueVars => Inv'
<1> SUFFICES ASSUME Inv, [QueueNext]_queueVars PROVE Inv'
  OBVIOUS
<1> DEFINE R == Ring(write_position, slots, writing, read_position, reading)
           Rest == ready \in BOOLEAN /\ destination \in Blocks \cup {Silence}
<1>1. Inv <=> R /\ Rest
  BY DEF Inv, QueueTypeOK, SlotOwnership, Ring, Fill
<1>2. (R /\ Rest)' => Inv'
  BY DEF Inv, QueueTypeOK, SlotOwnership, Ring, Fill, Slot
<1>3. R /\ Rest
  BY <1>1
<1>4. ASSUME NEW block \in Blocks, BeginPush(block) PROVE R' /\ Rest'
  <2>1. /\ write_position - read_position < Capacity
        /\ Ring(write_position, slots, NoBlock, read_position, reading)
    BY <1>3, <1>4 DEF BeginPush, Fill
  <2> QED BY <1>3, <1>4, <2>1, RingBegins DEF BeginPush, consumerVars, Written
<1>5. ASSUME FinishPush PROVE R' /\ Rest'
  <2>1. writing \in Blocks
    BY <1>3, <1>5 DEF Ring, FinishPush
  <2> QED BY <1>3, <1>5, <2>1, RingPublishes DEF FinishPush, consumerVars, Written
<1>6. ASSUME BeginPop PROVE R' /\ Rest'
  BY <1>3, <1>6, RingFinds DEF BeginPop, producerVars, Fill
<1>7. ASSUME FinishPop PROVE R' /\ Rest'
  <2>1. R'
    BY <1>3, <1>7, RingTakes DEF FinishPop, producerVars
  <2>2. reading \in Blocks /\ slots[Slot(read_position)] = reading
    BY <1>3, <1>7, RingTakes DEF FinishPop
  <2>3. Rest'
    BY <1>3, <1>7, <2>2 DEF FinishPop
  <2> QED BY <2>1, <2>3
<1>8. ASSUME PopNothing PROVE R' /\ Rest'
  BY <1>3, <1>8 DEF PopNothing, producerVars
<1>9. ASSUME Close PROVE R' /\ Rest'
  BY <1>3, <1>9 DEF Close, producerVars, consumerVars
<1>10. ASSUME UNCHANGED queueVars PROVE R' /\ Rest'
  BY <1>3, <1>10 DEF queueVars, producerVars, consumerVars
<1> QED BY <1>2, <1>4, <1>5, <1>6, <1>7, <1>8, <1>9, <1>10 DEF QueueNext

\* In every reachable state the sides work on different slots, and every
\* published slot holds a whole block.
THEOREM SlotsAreOwned == QueueSpec => []SlotOwnership
<1>1. Inv => SlotOwnership
  BY DEF Inv
<1> QED BY <1>1, InitInv, NextInv, PTL DEF QueueSpec

\* Positions, slots and buffers stay in their types.
THEOREM TypeCorrect == QueueSpec => []QueueTypeOK
<1>1. Inv => QueueTypeOK
  BY DEF Inv
<1> QED BY <1>1, InitInv, NextInv, PTL DEF QueueSpec

-----------------------------------------------------------------------------

\* The published span as a sequence of blocks.
LEMMA PublishedIsSequence ==
  ASSUME Inv
  PROVE  Published \in Seq(Blocks) /\ Len(Published) = Fill /\ Fill \in 0 .. Capacity
<1>1. Fill \in 0 .. Capacity /\ Fill \in Nat
  BY CapacityIsPositive DEF Inv, SlotOwnership
<1>2. \A i \in 1 .. Fill : slots[Slot(read_position + i - 1)] \in Blocks
  BY DEF Inv, QueueTypeOK, SlotOwnership, Fill
<1>3. Published \in [1 .. Fill -> Blocks]
  BY <1>2 DEF Published
<1> QED BY <1>1, <1>3

\* A step that moves neither position and keeps the published slots keeps the
\* abstract queue.
LEMMA PublishedStays ==
  ASSUME Inv, read_position' = read_position, write_position' = write_position,
         \A position \in read_position .. write_position - 1 :
           slots'[Slot(position)] = slots[Slot(position)]
  PROVE  Published' = Published
<1>1. Fill' = Fill /\ Fill \in Nat
  BY CapacityIsPositive DEF Inv, SlotOwnership, Fill
<1>2. \A i \in 1 .. Fill : read_position + i - 1 \in read_position .. write_position - 1
  BY DEF Inv, QueueTypeOK, Fill
<1>3. \A i \in 1 .. Fill :
        slots'[Slot(read_position' + i - 1)] = slots[Slot(read_position + i - 1)]
  BY <1>2
<1>4. Published' = [i \in 1 .. Fill' |-> slots'[Slot(read_position' + i - 1)]]
  BY DEF Published, Slot
<1> QED BY <1>1, <1>3, <1>4 DEF Published

\* A push that finishes appends its block.
LEMMA FinishPushSends ==
  ASSUME Inv, FinishPush
  PROVE  Published' = Append(Published, writing) /\ Len(Published) < Capacity
<1>1. QueueTypeOK /\ Fill \in 0 .. Capacity - 1 /\ Fill' = Fill + 1 /\ Fill \in Nat
  BY CapacityIsPositive
  DEF Inv, QueueTypeOK, SlotOwnership, FinishPush, consumerVars, Fill
<1>2. Published \in Seq(Blocks) /\ Len(Published) = Fill
  BY PublishedIsSequence
<1>3. \A i \in 1 .. Fill : /\ read_position + i - 1 \in Nat
                           /\ read_position + i - 1 \in read_position .. write_position - 1
  BY <1>1 DEF QueueTypeOK, Fill
<1>4. \A i \in 1 .. Fill :
        slots'[Slot(read_position + i - 1)] = slots[Slot(read_position + i - 1)]
  BY <1>1, <1>3, PublishedSlotsStay DEF FinishPush
<1>5. read_position + (Fill + 1) - 1 = write_position
  BY <1>1 DEF QueueTypeOK, Fill
<1>6. slots'[Slot(write_position)] = writing
  BY <1>1, RemainderRange DEF QueueTypeOK, FinishPush
<1>7. read_position' = read_position
  BY DEF FinishPush, consumerVars
<1>8. Published' = [i \in 1 .. Fill + 1 |-> slots'[Slot(read_position + i - 1)]]
  BY <1>1, <1>7 DEF Published, Slot
<1>9. /\ Append(Published, writing) \in Seq(Blocks)
      /\ Len(Append(Published, writing)) = Fill + 1
      /\ \A i \in 1 .. Fill : Append(Published, writing)[i] = Published[i]
      /\ Append(Published, writing)[Fill + 1] = writing
  BY <1>1, <1>2, AppendProperties DEF QueueTypeOK, FinishPush
<1>10. ASSUME NEW i \in 1 .. Fill + 1
       PROVE  slots'[Slot(read_position + i - 1)] = Append(Published, writing)[i]
  <2>1. CASE i <= Fill
    BY <1>1, <1>4, <1>9, <2>1 DEF Published
  <2>2. CASE i = Fill + 1
    <3>1. read_position + i - 1 = write_position
      BY <1>5, <2>2
    <3> QED BY <1>6, <1>9, <2>2, <3>1
  <2>3. i <= Fill \/ i = Fill + 1
    BY <1>1, CapacityIsPositive
  <2> QED BY <2>1, <2>2, <2>3
<1>11. \A i \in 1 .. Fill + 1 : Append(Published, writing)[i] \in Blocks
  BY <1>9, ElementOfSeq
<1>12. Published' \in [1 .. Fill + 1 -> Blocks]
  BY <1>8, <1>10, <1>11
<1>13. Published' \in Seq(Blocks) /\ Len(Published') = Fill + 1
  BY <1>1, <1>12
<1>14. \A i \in 1 .. Fill + 1 : Published'[i] = Append(Published, writing)[i]
  BY <1>8, <1>10
<1>15. /\ Len(Published') = Len(Append(Published, writing))
       /\ \A i \in 1 .. Len(Published') : Published'[i] = Append(Published, writing)[i]
  BY <1>9, <1>13, <1>14
<1>16. Published' = Append(Published, writing)
  BY <1>9, <1>13, <1>15, SeqEqual
<1> QED BY <1>1, <1>2, <1>16, CapacityIsPositive

\* A pop that finishes takes the head.
LEMMA FinishPopReceives ==
  ASSUME Inv, FinishPop
  PROVE  /\ Published # <<>> /\ Head(Published) = reading
         /\ Published' = Tail(Published)
<1>1. QueueTypeOK /\ Fill > 0 /\ Fill' = Fill - 1 /\ Fill \in Nat
      /\ slots[Slot(read_position)] = reading
  BY CapacityIsPositive
  DEF Inv, QueueTypeOK, SlotOwnership, FinishPop, producerVars, Fill
<1>2. Published \in Seq(Blocks) /\ Len(Published) = Fill
  BY PublishedIsSequence
<1>3. Head(Published) = slots[Slot(read_position + 1 - 1)]
  BY <1>1, <1>2 DEF Published
<1>4. read_position + 1 - 1 = read_position
  BY <1>1 DEF QueueTypeOK
<1>5. slots' = slots /\ read_position' = read_position + 1
  BY DEF FinishPop, producerVars
<1>6. Published' = [i \in 1 .. Fill - 1 |-> slots[Slot((read_position + 1) + i - 1)]]
  BY <1>1, <1>5 DEF Published, Slot
<1>7. /\ Published # <<>>
      /\ Tail(Published) \in Seq(Blocks)
      /\ Len(Tail(Published)) = Fill - 1
      /\ \A i \in 1 .. Fill - 1 : Tail(Published)[i] = Published[i + 1]
  <2>1. Published # <<>>
    BY <1>1, <1>2
  <2> QED BY <1>1, <1>2, <2>1, HeadTailProperties
<1>8. ASSUME NEW i \in 1 .. Fill - 1
      PROVE  slots[Slot((read_position + 1) + i - 1)] = Tail(Published)[i]
  <2>1. i + 1 \in 1 .. Fill
    BY <1>1
  <2>2. read_position + (i + 1) - 1 = (read_position + 1) + i - 1
    BY <1>1 DEF QueueTypeOK
  <2> QED BY <1>7, <2>1, <2>2 DEF Published
<1>9. \A i \in 1 .. Fill - 1 : Tail(Published)[i] \in Blocks
  BY <1>7, ElementOfSeq
<1>10. Published' \in [1 .. Fill - 1 -> Blocks]
  BY <1>6, <1>8, <1>9
<1>11. Published' \in Seq(Blocks) /\ Len(Published') = Fill - 1
  BY <1>1, <1>10
<1>12. \A i \in 1 .. Fill - 1 : Published'[i] = Tail(Published)[i]
  BY <1>6, <1>8
<1>13. Published' = Tail(Published)
  BY <1>7, <1>11, <1>12, SeqEqual
<1> QED BY <1>1, <1>3, <1>4, <1>7, <1>13

-----------------------------------------------------------------------------

LEMMA InitImplements == QueueInit => Channel!Init
<1> SUFFICES ASSUME QueueInit PROVE Channel!Init
  OBVIOUS
<1>1. Inv /\ Fill = 0
  BY InitInv DEF QueueInit, Fill
<1>2. Published = <<>>
  BY <1>1, PublishedIsSequence
<1> QED BY <1>2 DEF QueueInit, Channel!Init

LEMMA NextImplements == Inv /\ [QueueNext]_queueVars => [Channel!Next]_(Channel!vars)
<1> SUFFICES ASSUME Inv, [QueueNext]_queueVars PROVE [Channel!Next]_(Channel!vars)
  OBVIOUS
<1> USE DEF Channel!vars
<1>0. QueueTypeOK /\ SlotOwnership
  BY DEF Inv
<1>1. ASSUME NEW block \in Blocks, BeginPush(block) PROVE UNCHANGED Channel!vars
  <2>1. Fill \in 0 .. Capacity - 1
    BY CapacityIsPositive, <1>0, <1>1 DEF SlotOwnership, BeginPush
  <2>2. Published' = Published
    BY <1>0, <1>1, <2>1, PublishedSlotsStay, PublishedStays
    DEF BeginPush, consumerVars
  <2> QED BY <1>1, <2>2 DEF BeginPush, consumerVars
<1>2. ASSUME FinishPush PROVE Channel!Send(writing) /\ writing \in Blocks
  BY <1>0, <1>2, FinishPushSends
  DEF Channel!Send, QueueTypeOK, FinishPush, consumerVars
<1>3. ASSUME BeginPop PROVE UNCHANGED Channel!vars
  <2>1. Published' = Published
    BY <1>3, PublishedStays DEF BeginPop, producerVars
  <2> QED BY <1>3, <2>1 DEF BeginPop, producerVars
<1>4. ASSUME FinishPop PROVE Channel!Receive
  BY <1>0, <1>4, FinishPopReceives
  DEF Channel!Receive, SlotOwnership, FinishPop, producerVars
<1>5. ASSUME PopNothing PROVE Channel!ReceiveNothing
  <2>1. Published' = Published
    BY <1>5, PublishedStays DEF PopNothing, producerVars
  <2>2. Fill = 0 => Published = <<>>
    BY PublishedIsSequence
  <2> QED BY <1>0, <1>5, <2>1, <2>2
      DEF Channel!ReceiveNothing, QueueTypeOK, PopNothing, producerVars
<1>6. ASSUME Close PROVE Channel!Close
  <2>1. Published' = Published
    BY <1>6, PublishedStays DEF Close, producerVars, consumerVars
  <2> QED BY <1>6, <2>1 DEF Channel!Close, Close, producerVars, consumerVars
<1>7. ASSUME UNCHANGED queueVars PROVE UNCHANGED Channel!vars
  <2>1. Published' = Published
    BY <1>7, PublishedStays DEF queueVars, producerVars, consumerVars
  <2> QED BY <1>7, <2>1 DEF queueVars, producerVars, consumerVars
<1> QED BY <1>1, <1>2, <1>3, <1>4, <1>5, <1>6, <1>7 DEF QueueNext, Channel!Next

\* Every behaviour of the two sides is one of the abstract queue: blocks come
\* out whole, once, in order, and an accepted block is never lost.
THEOREM QueueImplementsChannel == QueueSpec => ImplementsChannel
<1>1. QueueSpec => []Inv
  BY InitInv, NextInv, PTL DEF QueueSpec
<1>2. QueueInit => Channel!Init
  BY InitImplements
<1>3. Inv /\ [QueueNext]_queueVars => [Channel!Next]_(Channel!vars)
  BY NextImplements
<1> QED BY <1>1, <1>2, <1>3, PTL DEF QueueSpec, ImplementsChannel, Channel!Spec

-----------------------------------------------------------------------------
(* A connection at work.                                                   *)

Before(b, c) == b.run < c.run \/ (b.run = c.run /\ b.sequence < c.sequence)

Current == [run |-> run, sequence |-> sequence]

\* Where blocks are on their way from the driver to the session and back, the oldest first:
\* heard, drained, in the output queue, being copied into it, in the session's hands, in the
\* input queue, being copied into it.
Places == 0 .. 6

At(place, p, b) ==
  \/ place = 0 /\ p = 0 /\ heard # Silence /\ b = heard
  \/ place = 1 /\ p = 0 /\ driver = "draining" /\ drained > 0 /\ b = out_block
  \/ place = 2 /\ p \in out_read .. out_write - 1 /\ b = out_slots[Slot(p)]
  \/ place = 3 /\ p = 0 /\ session = "copying" /\ b = out_writing
  \/ place = 4 /\ p = 0 /\ session = "pushing" /\ b = destination
  \/ place = 5 /\ p \in read_position .. write_position - 1 /\ b = slots[Slot(p)]
  \/ place = 6 /\ p = 0 /\ driver = "copying" /\ b = writing

Nearer(s, p, t, q) == s < t \/ (s = t /\ p < q)

InLine ==
  \A s, t \in Places, p, q \in Nat, b, c \in Blocks :
    At(s, p, b) /\ At(t, q, c) /\ Nearer(s, p, t, q) => Before(b, c)

\* The block of the present number has not been pushed.
Fresh == driver \in {"waiting", "draining", "pushing"}

Numbered ==
  \A s \in Places, p \in Nat, b \in Blocks : At(s, p, b) =>
    /\ b = Current \/ Before(b, Current)
    /\ Fresh => Before(b, Current)

Flow == InLine /\ Numbered

Queues ==
  /\ Ring(write_position, slots, writing, read_position, reading)
  /\ Ring(out_write, out_slots, out_writing, out_read, out_reading)
  /\ ready \in BOOLEAN /\ {destination, out_block} \subseteq Blocks \cup {Silence}

\* What TransportTypeOK says besides.
Sides ==
  /\ {input_event, shutdown_event} \subseteq BOOLEAN
  /\ driver \in Working \cup {"stopped", "dead"}
  /\ run \in 0 .. MaxRuns /\ sequence \in 0 .. MaxSequence
  /\ drained \in 0 .. Capacity
  /\ heard \in Blocks \cup {Silence}
  /\ session \in {"waiting", "popping", "reading", "pushing", "copying", "ended"}
  /\ taken \in 0 .. MaxPerWake
  /\ host \in {"serving", "stopping", "joining", "stopped"}

\* Which thread is in which queue.
Threads ==
  /\ driver \in Working => run > 0
  /\ driver \in Working \ {"waiting"} => sequence < MaxSequence
  /\ driver = "copying" => writing = Current
  /\ writing # NoBlock => driver \in {"copying", "dead"}
  /\ out_reading # NoBlock => driver \in {"draining", "dead"}
  /\ driver = "draining" /\ out_reading # NoBlock => drained < Capacity
  /\ session = "reading" => taken < MaxPerWake
  /\ reading # NoBlock <=> session = "reading"
  /\ out_writing # NoBlock <=> session = "copying"
  /\ session = "pushing" => destination \in Blocks
  /\ driver = "draining" /\ drained > 0 => out_block \in Blocks

\* As long as the event is not set again, what a wake has taken and what is left were in the
\* queue when it began, and a wake may take as much.
Wakes ==
  /\ /\ session \in {"popping", "reading", "pushing", "copying"}
     /\ ~input_event /\ driver \notin {"signalling", "dead"}
     => taken + Fill <= Capacity
  /\ NoLostWakeup

TransportInv == Queues /\ Sides /\ Threads /\ Flow /\ Wakes

LEMMA BlockIsNumber ==
  ASSUME NEW b \in Blocks
  PROVE  b = [run |-> b.run, sequence |-> b.sequence] /\ b.run \in Int /\ b.sequence \in Int
BY BlocksAreTheDrivers, BoundsAreNumbers DEF DriverBlocks

\* A block that moves ahead, past no other that stays, and blocks that are dropped keep the order.
LEMMA MoveKeepsLine ==
  ASSUME InLine,
         NEW s1 \in Places, NEW p1 \in Nat, NEW s2 \in Places, NEW p2 \in Nat,
         \A s \in Places, p \in Nat, b \in Blocks : At(s, p, b)' =>
           \/ At(s, p, b) /\ (Nearer(s, p, s2, p2) \/ Nearer(s1, p1, s, p))
           \/ s = s2 /\ p = p2 /\ At(s1, p1, b),
         Nearer(s2, p2, s1, p1)
  PROVE  InLine'
<1> SUFFICES ASSUME NEW s \in Places, NEW t \in Places, NEW p \in Nat, NEW q \in Nat,
                    NEW b \in Blocks, NEW c \in Blocks,
                    At(s, p, b)', At(t, q, c)', Nearer(s, p, t, q)
             PROVE  Before(b, c)
  BY DEF InLine
<1>1. CASE At(s, p, b) /\ At(t, q, c)
  BY <1>1 DEF InLine
<1>2. CASE At(s1, p1, b) /\ s = s2 /\ p = p2 /\ At(t, q, c) /\ (Nearer(t, q, s2, p2) \/ Nearer(s1, p1, t, q))
  <2>1. Nearer(s1, p1, t, q)
    BY <1>2 DEF Nearer, Places
  <2> QED BY <1>2, <2>1 DEF InLine
<1>3. CASE At(s1, p1, c) /\ t = s2 /\ q = p2 /\ At(s, p, b) /\ (Nearer(s, p, s2, p2) \/ Nearer(s1, p1, s, p))
  <2>1. Nearer(s, p, s1, p1)
    BY <1>3 DEF Nearer, Places
  <2> QED BY <1>3, <2>1 DEF InLine
<1>4. CASE s = s2 /\ p = p2 /\ t = s2 /\ q = p2
  BY <1>4 DEF Nearer, Places
<1> QED BY <1>1, <1>2, <1>3, <1>4

LEMMA StayKeepsLine ==
  ASSUME InLine, \A s \in Places, p \in Nat, b \in Blocks : At(s, p, b)' => At(s, p, b)
  PROVE  InLine'
BY DEF InLine

\* No block is new, and the number stays.
LEMMA NumbersKept ==
  ASSUME Numbered, UNCHANGED <<run, sequence>>, Fresh' => Fresh,
         \A s \in Places, p \in Nat, b \in Blocks : At(s, p, b)' =>
           \E t \in Places, q \in Nat : At(t, q, b)
  PROVE  Numbered'
<1>1. Current' = Current
  BY DEF Current
<1> QED BY <1>1 DEF Numbered

LEMMA FlowStays ==
  ASSUME Flow, UNCHANGED <<run, sequence>>, Fresh' => Fresh,
         \A s \in Places, p \in Nat, b \in Blocks : At(s, p, b)' => At(s, p, b)
  PROVE  Flow'
BY StayKeepsLine, NumbersKept DEF Flow

LEMMA FlowMoves ==
  ASSUME Flow, UNCHANGED <<run, sequence>>, Fresh' => Fresh,
         NEW s1 \in Places, NEW p1 \in Nat, NEW s2 \in Places, NEW p2 \in Nat,
         \A s \in Places, p \in Nat, b \in Blocks : At(s, p, b)' =>
           \/ At(s, p, b) /\ (Nearer(s, p, s2, p2) \/ Nearer(s1, p1, s, p))
           \/ s = s2 /\ p = p2 /\ At(s1, p1, b),
         Nearer(s2, p2, s1, p1)
  PROVE  Flow'
<1>1. InLine'
  BY MoveKeepsLine DEF Flow
<1>2. Numbered'
  BY NumbersKept DEF Flow
<1> QED BY <1>1, <1>2 DEF Flow

\* Another number is later than all before it.
LEMMA NumberGrows ==
  ASSUME Flow, \A s \in Places, p \in Nat, b \in Blocks : At(s, p, b)' => At(s, p, b),
         {run, sequence, run', sequence'} \subseteq Nat, Before(Current, Current')
  PROVE  Flow'
<1>1. InLine'
  BY StayKeepsLine DEF Flow
<1>2. ASSUME NEW b \in Blocks, b = Current \/ Before(b, Current)
      PROVE  Before(b, Current')
  BY <1>2, BlockIsNumber DEF Before, Current
<1>3. Numbered'
  BY <1>2 DEF Flow, Numbered
<1> QED BY <1>1, <1>3 DEF Flow

\* What the steps of either side do to the output queue.
LEMMA OutputPushes ==
  ASSUME Queues, NEW b \in Blocks, Out!BeginPush(b)
  PROVE  /\ out_write - out_read < Capacity /\ out_writing' = b
         /\ Ring(out_write, out_slots, out_writing, out_read, out_reading)'
         /\ \A p \in out_read .. out_write - 1 : out_slots'[Slot(p)] = out_slots[Slot(p)]
         /\ UNCHANGED <<ready, out_write, out_read, out_reading, out_block>>
<1>1. /\ ready /\ out_writing = NoBlock /\ out_write - out_read < Capacity
      /\ out_writing' = b
      /\ out_slots' = Written(out_slots, out_write, Torn)
      /\ UNCHANGED <<ready, out_write, out_read, out_reading, out_block>>
  BY DEF Out!BeginPush, Out!Slot, Out!Fill, Out!consumerVars, Slot, Written
<1>2. Ring(out_write, out_slots, NoBlock, out_read, out_reading)
  BY <1>1 DEF Queues
<1>3. /\ Ring(out_write, out_slots', b, out_read, out_reading)
      /\ \A p \in out_read .. out_write - 1 : out_slots'[Slot(p)] = out_slots[Slot(p)]
  BY <1>1, <1>2, RingBegins
<1> QED BY <1>1, <1>3

LEMMA OutputPublishes ==
  ASSUME Queues, Out!FinishPush
  PROVE  /\ out_writing \in Blocks /\ out_writing' = NoBlock
         /\ Ring(out_write, out_slots, out_writing, out_read, out_reading)'
         /\ out_write' = out_write + 1 /\ out_slots'[Slot(out_write)] = out_writing
         /\ \A p \in out_read .. out_write - 1 : out_slots'[Slot(p)] = out_slots[Slot(p)]
         /\ UNCHANGED <<ready, out_read, out_reading, out_block>>
<1>1. /\ out_writing # NoBlock /\ out_writing' = NoBlock /\ out_write' = out_write + 1
      /\ out_slots' = Written(out_slots, out_write, out_writing)
      /\ UNCHANGED <<ready, out_read, out_reading, out_block>>
  BY DEF Out!FinishPush, Out!Slot, Out!consumerVars, Slot, Written
<1>2. out_writing \in Blocks
  BY <1>1 DEF Queues, Ring
<1>3. Ring(out_write, out_slots, out_writing, out_read, out_reading)
  BY DEF Queues
<1>4. /\ Ring(out_write + 1, out_slots', NoBlock, out_read, out_reading)
      /\ out_slots'[Slot(out_write)] = out_writing
      /\ \A p \in out_read .. out_write - 1 : out_slots'[Slot(p)] = out_slots[Slot(p)]
  BY <1>1, <1>2, <1>3, RingPublishes
<1> QED BY <1>1, <1>2, <1>4

LEMMA OutputFinds ==
  ASSUME Queues, Out!BeginPop
  PROVE  /\ Ring(out_write, out_slots, out_writing, out_read, out_reading)'
         /\ UNCHANGED <<ready, out_write, out_slots, out_writing, out_read, out_block>>
<1>1. /\ ready /\ out_reading = NoBlock /\ out_write - out_read > 0
      /\ out_reading' = out_slots[Slot(out_read)]
      /\ UNCHANGED <<ready, out_write, out_slots, out_writing, out_read, out_block>>
  BY DEF Out!BeginPop, Out!Slot, Out!Fill, Out!producerVars, Slot
<1>2. Ring(out_write, out_slots, out_writing, out_read, NoBlock)
  BY <1>1 DEF Queues
<1> QED BY <1>1, <1>2, RingFinds

LEMMA OutputTakes ==
  ASSUME Queues, Out!FinishPop
  PROVE  /\ Ring(out_write, out_slots, out_writing, out_read, out_reading)'
         /\ out_read \in out_read .. out_write - 1 /\ out_read' = out_read + 1
         /\ out_reading' = NoBlock /\ out_block' \in Blocks /\ out_block' = out_slots[Slot(out_read)]
         /\ UNCHANGED <<ready, out_write, out_slots, out_writing>>
<1>1. /\ out_reading # NoBlock /\ out_reading' = NoBlock /\ out_read' = out_read + 1
      /\ out_block' = IF out_reading \notin WellFormed THEN Silence
                      ELSE IF out_slots[Slot(out_read)] = out_reading THEN out_reading ELSE Torn
      /\ UNCHANGED <<ready, out_write, out_slots, out_writing>>
  BY DEF Out!FinishPop, Out!Slot, Out!producerVars, Slot
<1>2. Ring(out_write, out_slots, out_writing, out_read, out_reading)
  BY DEF Queues
<1>3. /\ Ring(out_write, out_slots, out_writing, out_read + 1, NoBlock)
      /\ out_reading \in Blocks /\ out_write - out_read > 0
      /\ out_slots[Slot(out_read)] = out_reading
  BY <1>1, <1>2, RingTakes
<1>4. out_read \in out_read .. out_write - 1
  BY <1>2, <1>3 DEF Ring
<1> QED BY <1>1, <1>3, <1>4, BlocksAreTheDrivers

\* The same of the input queue.
LEMMA InputPushes ==
  ASSUME Queues, NEW b \in Blocks, BeginPush(b)
  PROVE  /\ Fill < Capacity /\ writing' = b
         /\ Ring(write_position, slots, writing, read_position, reading)'
         /\ \A p \in read_position .. write_position - 1 : slots'[Slot(p)] = slots[Slot(p)]
         /\ UNCHANGED <<ready, write_position, read_position, reading, destination>>
<1>1. /\ ready /\ writing = NoBlock /\ write_position - read_position < Capacity
      /\ writing' = b
      /\ slots' = Written(slots, write_position, Torn)
      /\ UNCHANGED <<ready, write_position, read_position, reading, destination>>
  BY DEF BeginPush, Fill, consumerVars, Written
<1>2. Ring(write_position, slots, NoBlock, read_position, reading)
  BY <1>1 DEF Queues
<1>3. /\ Ring(write_position, slots', b, read_position, reading)
      /\ \A p \in read_position .. write_position - 1 : slots'[Slot(p)] = slots[Slot(p)]
  BY <1>1, <1>2, RingBegins
<1> QED BY <1>1, <1>3 DEF Fill

LEMMA InputPublishes ==
  ASSUME Queues, FinishPush
  PROVE  /\ writing \in Blocks /\ writing' = NoBlock
         /\ Ring(write_position, slots, writing, read_position, reading)'
         /\ write_position' = write_position + 1 /\ slots'[Slot(write_position)] = writing
         /\ \A p \in read_position .. write_position - 1 : slots'[Slot(p)] = slots[Slot(p)]
         /\ UNCHANGED <<ready, read_position, reading, destination>>
<1>1. /\ writing # NoBlock /\ writing' = NoBlock /\ write_position' = write_position + 1
      /\ slots' = Written(slots, write_position, writing)
      /\ UNCHANGED <<ready, read_position, reading, destination>>
  BY DEF FinishPush, consumerVars, Written
<1>2. writing \in Blocks
  BY <1>1 DEF Queues, Ring
<1>3. Ring(write_position, slots, writing, read_position, reading)
  BY DEF Queues
<1>4. /\ Ring(write_position + 1, slots', NoBlock, read_position, reading)
      /\ slots'[Slot(write_position)] = writing
      /\ \A p \in read_position .. write_position - 1 : slots'[Slot(p)] = slots[Slot(p)]
  BY <1>1, <1>2, <1>3, RingPublishes
<1> QED BY <1>1, <1>2, <1>4

LEMMA InputFinds ==
  ASSUME Queues, BeginPop
  PROVE  /\ Ring(write_position, slots, writing, read_position, reading)'
         /\ reading' # NoBlock
         /\ UNCHANGED <<ready, write_position, slots, writing, read_position, destination>>
<1>1. /\ ready /\ reading = NoBlock /\ write_position - read_position > 0
      /\ reading' = slots[Slot(read_position)]
      /\ UNCHANGED <<ready, write_position, slots, writing, read_position, destination>>
  BY DEF BeginPop, Fill, producerVars
<1>2. Ring(write_position, slots, writing, read_position, NoBlock)
  BY <1>1 DEF Queues
<1> QED BY <1>1, <1>2, RingFinds, BlocksAreBlocks

LEMMA InputTakes ==
  ASSUME Queues, FinishPop
  PROVE  /\ Ring(write_position, slots, writing, read_position, reading)'
         /\ read_position \in read_position .. write_position - 1
         /\ read_position' = read_position + 1
         /\ reading' = NoBlock /\ destination' \in Blocks /\ destination' = slots[Slot(read_position)]
         /\ UNCHANGED <<ready, write_position, slots, writing>>
<1>1. /\ reading # NoBlock /\ reading' = NoBlock /\ read_position' = read_position + 1
      /\ destination' = IF reading \notin WellFormed THEN Silence
                        ELSE IF slots[Slot(read_position)] = reading THEN reading ELSE Torn
      /\ UNCHANGED <<ready, write_position, slots, writing>>
  BY DEF FinishPop, producerVars
<1>2. Ring(write_position, slots, writing, read_position, reading)
  BY DEF Queues
<1>3. /\ Ring(write_position, slots, writing, read_position + 1, NoBlock)
      /\ reading \in Blocks /\ write_position - read_position > 0
      /\ slots[Slot(read_position)] = reading
  BY <1>1, <1>2, RingTakes
<1>4. read_position \in read_position .. write_position - 1
  BY <1>2, <1>3 DEF Ring
<1> QED BY <1>1, <1>3, <1>4, BlocksAreTheDrivers

LEMMA QueuesKept ==
  ASSUME TransportInv, [TransportNext]_transportVars
  PROVE  Queues'
<1>0. Queues /\ Sides /\ Threads
  BY DEF TransportInv
<1>1. ASSUME UNCHANGED <<inVars, outVars>>, ready' \in BOOLEAN
      PROVE  Queues'
  BY <1>0, <1>1 DEF Queues, Ring, inVars, outVars, producerVars, consumerVars
<1>2. ASSUME UNCHANGED outVars, Ring(write_position, slots, writing, read_position, reading)',
             ready' = ready, destination' \in Blocks \cup {Silence}
      PROVE  Queues'
  BY <1>0, <1>2 DEF Queues, Ring, outVars
<1>3. ASSUME UNCHANGED inVars, Ring(out_write, out_slots, out_writing, out_read, out_reading)',
             ready' = ready, out_block' \in Blocks \cup {Silence}
      PROVE  Queues'
  BY <1>0, <1>3 DEF Queues, Ring, inVars, producerVars, consumerVars
<1>4. ready \in BOOLEAN /\ {destination, out_block} \subseteq Blocks \cup {Silence}
  BY <1>0 DEF Queues
<1>5. Current \in Blocks \/ driver # "pushing"
  BY <1>0, BoundsAreNumbers, BlocksAreTheDrivers DEF Sides, Threads, Working, Current, DriverBlocks
<1>6. CASE FindOutput
  BY <1>0, <1>3, <1>4, <1>6, OutputFinds DEF FindOutput
<1>7. CASE TakeOutput
  BY <1>0, <1>3, <1>7, OutputTakes DEF TakeOutput
<1>8. CASE Callback
  <2>1. UNCHANGED <<ready, inVars, out_write, out_slots, out_writing, out_read, out_reading>>
        /\ out_block' \in {out_block, Silence}
    BY <1>8 DEF Callback, outVars, Out!PopNothing, Out!producerVars
  <2> QED BY <1>0, <1>3, <1>4, <2>1 DEF Queues, Ring
<1>9. CASE PushInput
  <2>1. CASE BeginPush(Current) /\ UNCHANGED outVars /\ driver = "pushing"
    BY <1>0, <1>2, <1>4, <1>5, <2>1, InputPushes
  <2>2. CASE UNCHANGED <<ready, inVars, outVars>>
    BY <1>1, <1>4, <2>2
  <2> QED BY <1>9, <2>1, <2>2 DEF PushInput, Current
<1>10. CASE PublishInput
  BY <1>0, <1>2, <1>4, <1>10, InputPublishes DEF PublishInput
<1>11. CASE FindInput
  BY <1>0, <1>2, <1>4, <1>11, InputFinds DEF FindInput
<1>12. CASE TakeInput
  BY <1>0, <1>2, <1>12, InputTakes DEF TakeInput
<1>13. CASE StopPopping
  <2>1. UNCHANGED <<ready, outVars, write_position, slots, writing, read_position, reading>>
        /\ destination' \in {destination, Silence}
    BY <1>13 DEF StopPopping, inVars, consumerVars, PopNothing, producerVars
  <2> QED BY <1>0, <1>2, <1>4, <2>1 DEF Queues, Ring
<1>14. CASE PushOutput
  <2>1. CASE Out!BeginPush(destination) /\ UNCHANGED inVars /\ session = "pushing"
    BY <1>0, <1>3, <1>4, <2>1, OutputPushes DEF Threads
  <2>2. CASE UNCHANGED <<ready, inVars, outVars>>
    BY <1>1, <1>4, <2>2
  <2> QED BY <1>14, <2>1, <2>2 DEF PushOutput
<1>15. CASE PublishOutput
  BY <1>0, <1>3, <1>4, <1>15, OutputPublishes DEF PublishOutput
<1>16. CASE StartRuntime \/ StopRuntime \/ BeginCycle \/ SignalInput \/ DriverDies
  BY <1>1, <1>4, <1>16 DEF StartRuntime, StopRuntime, BeginCycle, SignalInput, DriverDies
<1>17. CASE Wake \/ ClientExited \/ BeginStop \/ SignalShutdown \/ Join
  BY <1>1, <1>4, <1>17 DEF Wake, ClientExited, BeginStop, SignalShutdown, Join, HostTo
<1>18. CASE UNCHANGED transportVars
  BY <1>1, <1>4, <1>18 DEF transportVars
<1> QED
  BY <1>6, <1>7, <1>8, <1>9, <1>10, <1>11, <1>12, <1>13, <1>14, <1>15, <1>16, <1>17, <1>18
     DEF TransportNext, DriverStep, SessionStep

LEMMA SidesKept ==
  ASSUME TransportInv, [TransportNext]_transportVars
  PROVE  Sides'
<1>0. Sides /\ Threads /\ ready \in BOOLEAN
  BY DEF TransportInv, Queues
<1> USE CapacityIsPositive, BoundsAreNumbers, AWakeEmptiesTheQueue
<1>1. CASE StartRuntime \/ StopRuntime \/ BeginCycle \/ DriverDies
  BY <1>0, <1>1 DEF Sides, StartRuntime, StopRuntime, BeginCycle, DriverDies, DriverTo, Working, sessionVars
<1>2. CASE SignalInput
  BY <1>0, <1>2 DEF Sides, Threads, SignalInput, Working, sessionVars
<1>3. CASE FindOutput
  BY <1>0, <1>3 DEF Sides, FindOutput, driverVars, sessionVars
<1>4. CASE TakeOutput
  BY <1>0, <1>4 DEF Sides, Threads, TakeOutput, Out!FinishPop, sessionVars
<1>5. CASE Callback
  BY <1>0, <1>5 DEF Sides, Threads, Callback, DriverTo, Working, sessionVars
<1>6. CASE PushInput
  BY <1>0, <1>6 DEF Sides, Threads, PushInput, DriverTo, Working, sessionVars
<1>7. CASE PublishInput
  BY <1>0, <1>7 DEF Sides, PublishInput, DriverTo, Working, sessionVars
<1>8. CASE Wake
  <2>1. /\ input_event' \in BOOLEAN /\ session' \in {"ended", "popping"} /\ taken' \in {0, taken}
        /\ UNCHANGED <<shutdown_event, driver, run, sequence, drained, heard, host>>
    BY <1>0, <1>8 DEF Sides, Wake, SessionTo, driverVars
  <2> QED BY <1>0, <2>1 DEF Sides
<1>13. CASE ClientExited \/ FindInput \/ StopPopping
  BY <1>0, <1>13 DEF Sides, ClientExited, FindInput, StopPopping, SessionTo, driverVars
<1>9. CASE TakeInput
  BY <1>0, <1>9 DEF Sides, Threads, TakeInput, driverVars
<1>10. CASE PushOutput \/ PublishOutput
  BY <1>0, <1>10 DEF Sides, PushOutput, PublishOutput, SessionTo, driverVars
<1>11. CASE BeginStop \/ SignalShutdown \/ Join
  BY <1>0, <1>11 DEF Sides, BeginStop, SignalShutdown, Join, HostTo, driverVars, sessionVars
<1>12. CASE UNCHANGED transportVars
  BY <1>0, <1>12 DEF Sides, transportVars, driverVars, sessionVars
<1> QED
  BY <1>1, <1>2, <1>3, <1>4, <1>5, <1>6, <1>7, <1>8, <1>9, <1>10, <1>11, <1>12, <1>13
     DEF TransportNext, DriverStep, SessionStep

LEMMA ThreadsKept ==
  ASSUME TransportInv, [TransportNext]_transportVars
  PROVE  Threads'
<1>0. Queues /\ Sides /\ Threads
  BY DEF TransportInv
<1> USE DEF Threads, Working, Current
<1> USE BoundsAreNumbers, BlocksAreBlocks
<1>1. CASE StartRuntime \/ StopRuntime \/ BeginCycle \/ SignalInput \/ DriverDies
  BY <1>0, <1>1
     DEF Sides, StartRuntime, StopRuntime, BeginCycle, SignalInput, DriverDies, DriverTo,
         inVars, outVars, sessionVars, producerVars, consumerVars
<1>2. CASE FindOutput
  BY <1>0, <1>2, OutputFinds DEF FindOutput, inVars, driverVars, sessionVars, producerVars, consumerVars
<1>3. CASE TakeOutput
  BY <1>0, <1>3, OutputTakes DEF TakeOutput, inVars, sessionVars, producerVars, consumerVars
<1>4. CASE Callback
  BY <1>0, <1>4
     DEF Callback, DriverTo, Out!PopNothing, Out!producerVars, inVars, outVars, sessionVars,
         producerVars, consumerVars
<1>5. CASE PushInput
  <2>1. CASE /\ BeginPush(Current) /\ DriverTo("copying") /\ driver = "pushing"
             /\ UNCHANGED <<outVars, sessionVars>>
    BY <1>0, <2>1 DEF BeginPush, DriverTo, outVars, sessionVars, consumerVars
  <2>2. CASE /\ driver = "pushing" /\ driver' \in {"waiting", "stopped"}
             /\ UNCHANGED <<ready, inVars, outVars, sessionVars, run>>
    BY <1>0, <2>2 DEF Sides, inVars, outVars, sessionVars, producerVars, consumerVars
  <2> QED BY <1>5, <2>1, <2>2 DEF PushInput, DriverTo
<1>6. CASE PublishInput
  BY <1>0, <1>6, InputPublishes DEF PublishInput, DriverTo, outVars, sessionVars
<1>7. CASE Wake \/ ClientExited
  BY <1>0, <1>7 DEF Wake, ClientExited, SessionTo, inVars, outVars, driverVars, producerVars, consumerVars
<1>8. CASE FindInput
  BY <1>0, <1>8, InputFinds DEF FindInput, SessionTo, outVars, driverVars
<1>9. CASE TakeInput
  BY <1>0, <1>9, InputTakes DEF TakeInput, outVars, driverVars
<1>10. CASE StopPopping
  BY <1>0, <1>10
     DEF StopPopping, SessionTo, PopNothing, inVars, outVars, driverVars, producerVars, consumerVars
<1>11. CASE PushOutput
  <2>1. CASE /\ Out!BeginPush(destination) /\ SessionTo("copying") /\ session = "pushing"
             /\ UNCHANGED <<inVars, driverVars>>
    <3>1. destination \in Blocks
      BY <1>0, <2>1
    <3> QED BY <1>0, <2>1, <3>1, OutputPushes DEF SessionTo, inVars, driverVars, producerVars, consumerVars
  <2>2. CASE session = "pushing" /\ SessionTo("popping") /\ UNCHANGED <<ready, inVars, outVars, driverVars>>
    BY <1>0, <2>2 DEF SessionTo, inVars, outVars, driverVars, producerVars, consumerVars
  <2> QED BY <1>11, <2>1, <2>2 DEF PushOutput
<1>12. CASE PublishOutput
  BY <1>0, <1>12, OutputPublishes DEF PublishOutput, SessionTo, inVars, driverVars, producerVars, consumerVars
<1>13. CASE BeginStop \/ SignalShutdown \/ Join \/ UNCHANGED transportVars
  BY <1>0, <1>13
     DEF BeginStop, SignalShutdown, Join, HostTo, transportVars, inVars, outVars, driverVars, sessionVars,
         producerVars, consumerVars
<1> QED
  BY <1>1, <1>2, <1>3, <1>4, <1>5, <1>6, <1>7, <1>8, <1>9, <1>10, <1>11, <1>12, <1>13
     DEF TransportNext, DriverStep, SessionStep

LEMMA WakesKept ==
  ASSUME TransportInv, [TransportNext]_transportVars
  PROVE  Wakes'
<1>0. Queues /\ Sides /\ Threads /\ Wakes
  BY DEF TransportInv
<1>1. Fill \in 0 .. Capacity /\ write_position \in Nat /\ read_position \in Nat
  BY <1>0 DEF Queues, Ring, Fill
<1> USE AWakeEmptiesTheQueue, CapacityIsPositive
<1> USE DEF Wakes, NoLostWakeup
<1>2. ASSUME UNCHANGED <<write_position, read_position, input_event, session, taken>>, ready' => ready,
             driver' = driver \/ driver' = "dead" \/ driver \notin {"signalling", "dead"}
      PROVE  Wakes'
  BY <1>0, <1>2 DEF Fill
<1>3. CASE StartRuntime \/ StopRuntime \/ BeginCycle \/ FindOutput \/ TakeOutput \/ Callback \/ DriverDies
  <2>1. UNCHANGED <<write_position, read_position, input_event, session, taken, ready>>
    BY <1>3
       DEF StartRuntime, StopRuntime, BeginCycle, FindOutput, TakeOutput, Callback, DriverDies,
           Out!BeginPop, Out!FinishPop, Out!PopNothing, inVars, sessionVars, producerVars, consumerVars
  <2>2. driver' = driver \/ driver' = "dead" \/ driver \notin {"signalling", "dead"}
    BY <1>3
       DEF StartRuntime, StopRuntime, BeginCycle, FindOutput, TakeOutput, Callback, DriverDies, DriverTo,
           driverVars
  <2> QED BY <1>2, <2>1, <2>2
<1>4. CASE PushInput
  BY <1>2, <1>4
     DEF PushInput, BeginPush, PushIsFull, inVars, sessionVars, producerVars, consumerVars
<1>5. CASE PublishInput
  BY <1>5 DEF PublishInput, DriverTo
<1>6. CASE SignalInput
  BY <1>6 DEF SignalInput
<1>7. CASE Wake
  BY <1>0, <1>1, <1>7 DEF Wake, SessionTo, inVars, driverVars, producerVars, consumerVars, Fill
<1>8. CASE ClientExited
  BY <1>8 DEF ClientExited, SessionTo
<1>9. CASE FindInput
  <2>1. UNCHANGED <<ready, write_position, read_position, taken, input_event, driver>>
        /\ session = "popping" /\ session' = "reading"
    BY <1>0, <1>9, InputFinds DEF FindInput, SessionTo, driverVars
  <2> QED BY <1>0, <2>1 DEF Fill
<1>10. CASE TakeInput
  <2>1. /\ read_position' = read_position + 1 /\ write_position' = write_position
        /\ taken' = taken + 1 /\ session = "reading" /\ session' = "pushing"
        /\ UNCHANGED <<input_event, driver>>
    BY <1>0, <1>10, InputTakes DEF TakeInput, driverVars
  <2>2. taken' + Fill' = taken + Fill
    BY <1>0, <1>1, <2>1 DEF Fill, Sides
  <2> QED BY <1>0, <2>1, <2>2
<1>11. CASE StopPopping
  <2>1. /\ UNCHANGED <<write_position, read_position, input_event, driver, ready, taken>>
        /\ session = "popping" /\ session' = "waiting"
        /\ taken = MaxPerWake \/ ~ready \/ Fill = 0
    BY <1>11 DEF StopPopping, SessionTo, PopNothing, inVars, producerVars, consumerVars, driverVars
  <2>2. Fill' = Fill
    BY <2>1 DEF Fill
  <2>3. ready /\ driver \notin {"signalling", "dead"} /\ ~input_event => Fill = 0
    BY <1>0, <1>1, <2>1 DEF Sides
  <2> QED BY <1>1, <2>1, <2>2, <2>3
<1>12. CASE PushOutput \/ PublishOutput
  <2>1. UNCHANGED <<write_position, read_position, input_event, driver, taken>>
        /\ session \in {"pushing", "copying"} /\ session' \in {"copying", "popping"}
    BY <1>12 DEF PushOutput, PublishOutput, SessionTo, inVars, producerVars, consumerVars, driverVars
  <2> QED BY <1>0, <2>1 DEF Fill
<1>13. CASE BeginStop \/ SignalShutdown \/ Join \/ UNCHANGED transportVars
  BY <1>2, <1>13
     DEF BeginStop, SignalShutdown, Join, HostTo, transportVars, inVars, driverVars, sessionVars,
         producerVars, consumerVars
<1> QED
  BY <1>3, <1>4, <1>5, <1>6, <1>7, <1>8, <1>9, <1>10, <1>11, <1>12, <1>13
     DEF TransportNext, DriverStep, SessionStep

LEMMA FlowKept ==
  ASSUME TransportInv, [TransportNext]_transportVars, Sides'
  PROVE  Flow'
<1>0. Queues /\ Sides /\ Threads /\ Flow
  BY DEF TransportInv
<1>1. /\ write_position \in Nat /\ read_position \in Nat /\ out_write \in Nat /\ out_read \in Nat
      /\ {run, sequence, run', sequence'} \subseteq Nat
  BY <1>0, BoundsAreNumbers DEF Queues, Ring, Sides
<1>2. 0 \in Nat /\ \A i \in {0, 1, 2, 3, 4, 5, 6} : i \in Places
  BY DEF Places
<1> DEFINE Stays == \A s \in Places, p \in Nat, b \in Blocks : At(s, p, b)' => At(s, p, b)
           Moves(s1, p1, s2, p2) ==
             \A s \in Places, p \in Nat, b \in Blocks : At(s, p, b)' =>
               \/ At(s, p, b) /\ (Nearer(s, p, s2, p2) \/ Nearer(s1, p1, s, p))
               \/ s = s2 /\ p = p2 /\ At(s1, p1, b)
<1>3. CASE StopRuntime \/ BeginCycle \/ DriverDies
  <2>1. Stays
    BY <1>3
       DEF At, StopRuntime, BeginCycle, DriverDies, DriverTo, inVars, outVars, sessionVars,
           producerVars, consumerVars
  <2>2. UNCHANGED <<run, sequence>> /\ (Fresh' => Fresh)
    BY <1>3 DEF StopRuntime, BeginCycle, DriverDies, DriverTo, Fresh
  <2> QED BY <1>0, <2>1, <2>2, FlowStays
<1>4. CASE FindOutput
  <2>1. Stays
    BY <1>0, <1>4, OutputFinds DEF At, FindOutput, inVars, producerVars, consumerVars, driverVars, sessionVars
  <2>2. UNCHANGED <<run, sequence>> /\ (Fresh' => Fresh)
    BY <1>4 DEF FindOutput, driverVars, Fresh
  <2> QED BY <1>0, <2>1, <2>2, FlowStays
<1>5. CASE TakeOutput
  <2>1. /\ out_read' = out_read + 1 /\ out_read \in out_read .. out_write - 1
        /\ out_block' = out_slots[Slot(out_read)]
        /\ UNCHANGED <<out_write, out_slots, out_writing, write_position, slots, writing, read_position>>
        /\ UNCHANGED <<destination, session, driver, heard>>
    BY <1>0, <1>5, OutputTakes DEF TakeOutput, inVars, producerVars, consumerVars, sessionVars
  <2>2. At(2, out_read, out_block')
    BY <2>1 DEF At
  <2>3. Moves(2, out_read, 1, 0)
    BY <1>1, <2>1, <2>2 DEF At, Nearer, Places
  <2>4. UNCHANGED <<run, sequence>> /\ (Fresh' => Fresh)
    BY <1>5 DEF TakeOutput, Fresh
  <2>5. Nearer(1, 0, 2, out_read)
    BY DEF Nearer
  <2> QED BY <1>0, <1>1, <1>2, <2>3, <2>4, <2>5, FlowMoves
<1>6. CASE Callback
  <2>1. UNCHANGED <<inVars, out_read, out_write, out_slots, out_writing, session, run, sequence, drained>>
        /\ driver = "draining" /\ driver' \in {"pushing", "stopped"}
    BY <1>6 DEF Callback, DriverTo, outVars, Out!PopNothing, Out!producerVars, sessionVars
  <2>2. Fresh' => Fresh
    BY <2>1 DEF Fresh
  <2>3. CASE heard' = heard
    <3>1. Stays
      BY <2>1, <2>3 DEF At, inVars, producerVars, consumerVars
    <3> QED BY <1>0, <2>1, <2>2, <3>1, FlowStays
  <2>4. CASE drained > 0 /\ heard' = out_block
    <3>1. Moves(1, 0, 0, 0)
      BY <2>1, <2>4 DEF At, Nearer, Places, inVars, producerVars, consumerVars
    <3>2. Nearer(0, 0, 1, 0)
      BY DEF Nearer
    <3> QED BY <1>0, <1>2, <2>1, <2>2, <3>1, <3>2, FlowMoves
  <2>5. drained \in Nat
    BY <1>0, CapacityIsPositive DEF Sides
  <2> QED BY <1>6, <2>3, <2>4, <2>5 DEF Callback, DriverTo
<1>7. CASE PublishInput
  <2>1. /\ driver = "copying" /\ driver' = "signalling"
        /\ write_position' = write_position + 1 /\ slots'[Slot(write_position)] = writing
        /\ \A p \in read_position .. write_position - 1 : slots'[Slot(p)] = slots[Slot(p)]
        /\ UNCHANGED <<read_position, destination, out_write, out_slots, out_writing, out_read, out_block>>
        /\ UNCHANGED <<session, heard, run, sequence>>
    BY <1>0, <1>7, InputPublishes DEF PublishInput, DriverTo, outVars, sessionVars
  <2>2. At(6, 0, writing)
    BY <2>1 DEF At
  <2>3. Moves(6, 0, 5, write_position)
    BY <1>1, <2>1, <2>2 DEF At, Nearer, Places, Slot
  <2>4. Fresh' => Fresh
    BY <2>1 DEF Fresh
  <2>5. Nearer(5, write_position, 6, 0)
    BY DEF Nearer
  <2> QED BY <1>0, <1>1, <1>2, <2>1, <2>3, <2>4, <2>5, FlowMoves
<1>8. CASE Wake \/ ClientExited \/ StopPopping
  <2>1. Stays
    BY <1>8
       DEF At, Wake, ClientExited, StopPopping, PopNothing, SessionTo, inVars, outVars, driverVars,
           producerVars, consumerVars
  <2>2. UNCHANGED <<run, sequence>> /\ (Fresh' => Fresh)
    BY <1>8 DEF Wake, ClientExited, StopPopping, driverVars, Fresh
  <2> QED BY <1>0, <2>1, <2>2, FlowStays
<1>9. CASE FindInput
  <2>1. Stays
    BY <1>0, <1>9, InputFinds DEF At, FindInput, SessionTo, outVars, driverVars
  <2>2. UNCHANGED <<run, sequence>> /\ (Fresh' => Fresh)
    BY <1>9 DEF FindInput, driverVars, Fresh
  <2> QED BY <1>0, <2>1, <2>2, FlowStays
<1>10. CASE TakeInput
  <2>1. /\ session = "reading" /\ session' = "pushing"
        /\ read_position' = read_position + 1 /\ read_position \in read_position .. write_position - 1
        /\ destination' = slots[Slot(read_position)]
        /\ UNCHANGED <<write_position, slots, writing, out_write, out_slots, out_writing, out_read, out_block>>
        /\ UNCHANGED driverVars
    BY <1>0, <1>10, InputTakes DEF TakeInput, outVars
  <2>2. At(5, read_position, destination')
    BY <2>1 DEF At
  <2>3. Moves(5, read_position, 4, 0)
    BY <1>1, <2>1, <2>2 DEF At, Nearer, Places, driverVars
  <2>4. UNCHANGED <<run, sequence>> /\ (Fresh' => Fresh)
    BY <2>1 DEF driverVars, Fresh
  <2>5. Nearer(4, 0, 5, read_position)
    BY DEF Nearer
  <2> QED BY <1>0, <1>1, <1>2, <2>3, <2>4, <2>5, FlowMoves
<1>11. CASE PushOutput
  <2>1. UNCHANGED <<run, sequence>> /\ (Fresh' => Fresh)
    BY <1>11 DEF PushOutput, driverVars, Fresh
  <2>2. CASE session' = "copying"
    <3>1. /\ session = "pushing" /\ destination \in Blocks /\ Out!BeginPush(destination)
          /\ UNCHANGED inVars /\ UNCHANGED driverVars
      BY <1>0, <1>11, <2>2 DEF PushOutput, SessionTo, Threads
    <3>2. /\ out_writing' = destination
          /\ \A p \in out_read .. out_write - 1 : out_slots'[Slot(p)] = out_slots[Slot(p)]
          /\ UNCHANGED <<out_write, out_read, out_block>>
      BY <1>0, <3>1, OutputPushes
    <3>3. Moves(4, 0, 3, 0)
      BY <1>1, <2>2, <3>1, <3>2 DEF At, Nearer, Places, inVars, producerVars, consumerVars, driverVars
    <3>4. Nearer(3, 0, 4, 0)
      BY DEF Nearer
    <3> QED BY <1>0, <1>2, <2>1, <3>3, <3>4, FlowMoves
  <2>3. CASE session' = "popping" /\ UNCHANGED <<ready, inVars, outVars>>
    <3>1. Stays
      BY <1>11, <2>3
         DEF At, PushOutput, inVars, outVars, producerVars, consumerVars, driverVars
    <3> QED BY <1>0, <2>1, <3>1, FlowStays
  <2> QED BY <1>11, <2>2, <2>3 DEF PushOutput, SessionTo
<1>12. CASE PublishOutput
  <2>1. /\ session = "copying" /\ session' = "popping" /\ UNCHANGED <<inVars, driverVars>>
        /\ out_write' = out_write + 1 /\ out_slots'[Slot(out_write)] = out_writing
        /\ \A p \in out_read .. out_write - 1 : out_slots'[Slot(p)] = out_slots[Slot(p)]
        /\ UNCHANGED <<out_read, out_block>>
    BY <1>0, <1>12, OutputPublishes DEF PublishOutput, SessionTo
  <2>2. At(3, 0, out_writing)
    BY <2>1 DEF At
  <2>3. Moves(3, 0, 2, out_write)
    BY <1>1, <2>1, <2>2 DEF At, Nearer, Places, Slot, inVars, producerVars, consumerVars, driverVars
  <2>4. UNCHANGED <<run, sequence>> /\ (Fresh' => Fresh)
    BY <2>1 DEF driverVars, Fresh
  <2>5. Nearer(2, out_write, 3, 0)
    BY DEF Nearer
  <2> QED BY <1>0, <1>1, <1>2, <2>3, <2>4, <2>5, FlowMoves
<1>13. CASE BeginStop \/ SignalShutdown \/ Join \/ UNCHANGED transportVars
  <2>1. UNCHANGED <<inVars, outVars, driverVars, sessionVars>>
    BY <1>13 DEF BeginStop, SignalShutdown, Join, HostTo, transportVars
  <2>2. Stays
    BY <2>1 DEF At, inVars, outVars, driverVars, sessionVars, producerVars, consumerVars
  <2>3. UNCHANGED <<run, sequence>> /\ (Fresh' => Fresh)
    BY <2>1 DEF driverVars, Fresh
  <2> QED BY <1>0, <2>2, <2>3, FlowStays
<1>14. CASE StartRuntime \/ SignalInput
  <2>1. Stays
    BY <1>14 DEF At, StartRuntime, SignalInput, inVars, outVars, sessionVars, producerVars, consumerVars
  <2>2. Before(Current, Current')
    BY <1>1, <1>14 DEF StartRuntime, SignalInput, Before, Current
  <2> QED BY <1>0, <1>1, <2>1, <2>2, NumberGrows
<1>15. CASE PushInput
  <2>1. CASE /\ BeginPush(Current) /\ DriverTo("copying") /\ driver = "pushing"
             /\ UNCHANGED <<outVars, sessionVars>>
    <3>1. Current \in Blocks
      BY <1>0, <2>1, BoundsAreNumbers, BlocksAreTheDrivers DEF Sides, Threads, Working, Current, DriverBlocks
    <3>2. /\ writing' = Current
          /\ \A p \in read_position .. write_position - 1 : slots'[Slot(p)] = slots[Slot(p)]
          /\ UNCHANGED <<write_position, read_position, destination>>
      BY <1>0, <2>1, <3>1, InputPushes
    <3>3. \A s \in Places, p \in Nat, b \in Blocks : At(s, p, b)' =>
            \/ At(s, p, b) /\ s < 6
            \/ s = 6 /\ p = 0 /\ b = Current
      BY <1>1, <2>1, <3>2 DEF At, Places, DriverTo, outVars, sessionVars
    <3>4. \A s \in Places, p \in Nat, b \in Blocks : At(s, p, b) => Before(b, Current)
      BY <1>0, <2>1 DEF Flow, Numbered, Fresh
    <3>5. InLine'
      <4> SUFFICES ASSUME NEW s \in Places, NEW t \in Places, NEW p \in Nat, NEW q \in Nat,
                          NEW b \in Blocks, NEW c \in Blocks,
                          At(s, p, b)', At(t, q, c)', Nearer(s, p, t, q)
                   PROVE  Before(b, c)
        BY DEF InLine
      <4>1. At(s, p, b)
        <5>1. ASSUME s = 6, p = 0 PROVE ~(t < 6) /\ ~(t = 6 /\ q = 0)
          <6>1. 6 < t \/ (6 = t /\ 0 < q)
            BY <5>1 DEF Nearer
          <6> QED BY <6>1 DEF Places
        <5>2. \/ At(t, q, c) /\ t < 6
              \/ t = 6 /\ q = 0
          BY <3>3
        <5> QED BY <3>3, <5>1, <5>2 DEF Places
      <4>2. CASE At(t, q, c)
        BY <1>0, <4>1, <4>2 DEF Flow, InLine
      <4>3. CASE c = Current
        BY <3>4, <4>1, <4>3
      <4> QED BY <3>3, <4>2, <4>3
    <3>6. Current' = Current /\ ~Fresh'
      BY <2>1 DEF DriverTo, Current, Fresh
    <3>7. Numbered'
      BY <3>3, <3>4, <3>6 DEF Numbered
    <3> QED BY <3>5, <3>7 DEF Flow
  <2>2. CASE driver = "pushing" /\ driver' = "waiting" /\ UNCHANGED <<inVars, outVars, sessionVars, run, heard>>
             /\ sequence' = sequence + 1
    <3>1. Stays
      BY <2>2 DEF At, inVars, outVars, sessionVars, producerVars, consumerVars
    <3>2. Before(Current, Current')
      BY <1>1, <2>2 DEF Before, Current
    <3> QED BY <1>0, <1>1, <3>1, <3>2, NumberGrows
  <2>3. CASE driver = "pushing" /\ DriverTo("stopped") /\ UNCHANGED <<inVars, outVars, sessionVars>>
    <3>1. Stays /\ UNCHANGED <<run, sequence>> /\ ~Fresh'
      BY <2>3 DEF At, DriverTo, Fresh, inVars, outVars, sessionVars, producerVars, consumerVars
    <3> QED BY <1>0, <3>1, FlowStays
  <2> QED BY <1>15, <2>1, <2>2, <2>3 DEF PushInput, Current
<1> QED
  BY <1>3, <1>4, <1>5, <1>6, <1>7, <1>8, <1>9, <1>10, <1>11, <1>12, <1>13, <1>14, <1>15
     DEF TransportNext, DriverStep, SessionStep

LEMMA TransportStarts ==
  ASSUME TransportInit
  PROVE  TransportInv
<1> USE CapacityIsPositive, BoundsAreNumbers, AWakeEmptiesTheQueue
<1>1. Queues
  BY DEF TransportInit, QueueInit, Out!QueueInit, Queues, Ring
<1>2. Threads
  BY DEF TransportInit, QueueInit, Out!QueueInit, Threads, Working
<1>6. Sides
  <2>1. input_event \in BOOLEAN /\ shutdown_event \in BOOLEAN
    BY DEF TransportInit
  <2>2. /\ run \in 0 .. MaxRuns /\ sequence \in 0 .. MaxSequence /\ taken \in 0 .. MaxPerWake
        /\ drained \in 0 .. Capacity
    BY DEF TransportInit
  <2> QED BY <2>1, <2>2 DEF TransportInit, Sides
<1>3. \A s \in Places, p \in Nat, b \in Blocks : ~At(s, p, b)
  BY DEF TransportInit, QueueInit, Out!QueueInit, At
<1>4. Flow
  BY <1>3 DEF Flow, InLine, Numbered
<1>5. Wakes
  BY DEF TransportInit, QueueInit, Wakes, NoLostWakeup, Fill
<1> QED BY <1>1, <1>2, <1>4, <1>5, <1>6 DEF TransportInv

LEMMA TransportKept ==
  ASSUME TransportInv, [TransportNext]_transportVars
  PROVE  TransportInv'
BY QueuesKept, SidesKept, ThreadsKept, FlowKept, WakesKept DEF TransportInv

\* Threads, host, events and both queues keep their types, and no pop ever takes a block that is
\* being written.
THEOREM TransportTypes == TransportSpec => []TransportTypeOK
<1>1. TransportInv => TransportTypeOK
  BY DEF TransportInv, Queues, Sides, Ring, TransportTypeOK, QueueTypeOK, Out!QueueTypeOK
<1>2. TransportInit => TransportInv
  BY TransportStarts
<1>3. TransportInv /\ [TransportNext]_transportVars => TransportInv'
  BY TransportKept
<1> QED BY <1>1, <1>2, <1>3, PTL DEF TransportSpec

\* The pump thread never waits while an accepted block is in its queue and nobody is about to set
\* the event: a wake that stops at its limit has emptied what was there when the event was reset.
THEOREM InputIsNotSleptOn == TransportSpec => []NoLostWakeup
<1>1. TransportInv => NoLostWakeup
  BY DEF TransportInv, Wakes
<1>2. TransportInit => TransportInv
  BY TransportStarts
<1>3. TransportInv /\ [TransportNext]_transportVars => TransportInv'
  BY TransportKept
<1> QED BY <1>1, <1>2, <1>3, PTL DEF TransportSpec

LEMMA OnlyCallbackIsHeard ==
  ASSUME [TransportNext]_transportVars, heard' # heard
  PROVE  Callback
<1>1. CASE StartRuntime \/ StopRuntime \/ BeginCycle \/ FindOutput \/ TakeOutput \/ PushInput
             \/ PublishInput \/ SignalInput \/ DriverDies
  BY <1>1
     DEF StartRuntime, StopRuntime, BeginCycle, FindOutput, TakeOutput, PushInput, PublishInput,
         SignalInput, DriverDies, DriverTo, driverVars
<1>2. CASE SessionStep \/ BeginStop \/ SignalShutdown \/ Join \/ UNCHANGED transportVars
  BY <1>2
     DEF SessionStep, Wake, ClientExited, FindInput, TakeInput, StopPopping, PushOutput, PublishOutput,
         BeginStop, SignalShutdown, Join, HostTo, driverVars, transportVars
<1> QED BY <1>1, <1>2 DEF TransportNext, DriverStep

\* What the DAW hears only moves forward: blocks dropped on either way, a callback that takes
\* several at once, and a driver that is started again with the blocks of its last run, and their
\* numbers, still under way do not change that.
THEOREM DawHearsInOrder == TransportSpec => HeardInOrder
<1>1. TransportInv /\ [TransportNext]_transportVars => [heard' # heard => Later(heard, heard')]_heard
  <2> SUFFICES ASSUME TransportInv, [TransportNext]_transportVars, heard' # heard
               PROVE  Later(heard, heard')
    OBVIOUS
  <2>1. Callback /\ Sides /\ Threads /\ InLine
    BY OnlyCallbackIsHeard DEF TransportInv, Flow
  <2>2. driver = "draining" /\ drained > 0 /\ heard' = out_block
    BY <2>1, CapacityIsPositive DEF Callback, DriverTo, Sides
  <2>3. CASE heard # Silence
    <3>1. heard \in Blocks /\ out_block \in Blocks /\ At(0, 0, heard) /\ At(1, 0, out_block)
      BY <2>1, <2>2, <2>3 DEF Sides, Threads, At
    <3>2. Before(heard, out_block)
      BY <2>1, <3>1 DEF InLine, Nearer, Places
    <3> QED BY <2>2, <3>1, <3>2, BlockIsNumber DEF Before, Later
  <2> QED BY <2>3 DEF Later
<1>2. TransportInit => TransportInv
  BY TransportStarts
<1>3. TransportInv /\ [TransportNext]_transportVars => TransportInv'
  BY TransportKept
<1> QED BY <1>1, <1>2, <1>3, PTL DEF TransportSpec, HeardInOrder

\* A step of a connection is a step of its input queue, or leaves it alone.
LEMMA StepOfInputQueue ==
  ASSUME TransportInv, [TransportNext]_transportVars
  PROVE  [QueueNext]_queueVars
<1>0. Queues /\ Sides /\ Threads
  BY DEF TransportInv
<1>1. ASSUME UNCHANGED inVars, ready' = ready
      PROVE  UNCHANGED queueVars
  BY <1>1 DEF inVars, queueVars
<1>2. ASSUME UNCHANGED inVars, ready' = FALSE
      PROVE  [QueueNext]_queueVars
  BY <1>0, <1>1, <1>2 DEF Queues, Close, QueueNext, inVars
<1>3. CASE FindOutput \/ TakeOutput \/ Callback
  BY <1>1, <1>3
     DEF FindOutput, TakeOutput, Callback, Out!BeginPop, Out!FinishPop, Out!PopNothing
<1>4. CASE PushInput
  <2>1. driver = "pushing" => Current \in Blocks
    BY <1>0, BoundsAreNumbers, BlocksAreTheDrivers DEF Sides, Threads, Working, Current, DriverBlocks
  <2>2. (BeginPush(Current) /\ Current \in Blocks) \/ UNCHANGED <<ready, inVars>>
    BY <1>4, <2>1 DEF PushInput, Current
  <2> QED BY <1>1, <2>2 DEF QueueNext
<1>5. CASE PublishInput \/ FindInput \/ TakeInput
  BY <1>5 DEF PublishInput, FindInput, TakeInput, QueueNext
<1>6. CASE StopPopping
  BY <1>1, <1>6 DEF StopPopping, QueueNext
<1>7. CASE PushOutput \/ PublishOutput
  BY <1>1, <1>7 DEF PushOutput, PublishOutput, Out!BeginPush, Out!FinishPush
<1>8. CASE StartRuntime \/ StopRuntime \/ BeginCycle \/ SignalInput \/ DriverDies \/ Wake
             \/ SignalShutdown \/ Join \/ UNCHANGED transportVars
  BY <1>1, <1>8
     DEF StartRuntime, StopRuntime, BeginCycle, SignalInput, DriverDies, Wake, SignalShutdown, Join, HostTo,
         transportVars
<1>9. CASE ClientExited \/ BeginStop
  BY <1>2, <1>9 DEF ClientExited, BeginStop, HostTo
<1> QED
  BY <1>3, <1>4, <1>5, <1>6, <1>7, <1>8, <1>9 DEF TransportNext, DriverStep, SessionStep

\* The blocks of a connection pass its input queue as they pass the abstract channel, whatever
\* the threads of both sides, their ends and their restarts do.
THEOREM TransportImplementsChannel == TransportSpec => ImplementsChannel
<1>1. TransportInit => TransportInv /\ QueueInit
  BY TransportStarts DEF TransportInit
<1>2. TransportInv /\ [TransportNext]_transportVars => TransportInv'
  BY TransportKept
<1>3. TransportInv /\ [TransportNext]_transportVars => [QueueNext]_queueVars
  BY StepOfInputQueue
<1>4. TransportSpec => QueueSpec
  BY <1>1, <1>2, <1>3, PTL DEF TransportSpec, QueueSpec
<1> QED BY <1>4, QueueImplementsChannel

-----------------------------------------------------------------------------
(* The layout.                                                             *)

\* A product grows with its factors.
LEMMA TimesIsMonotone ==
  ASSUME NEW a \in Nat, NEW b \in Nat, NEW x \in Nat, NEW y \in Nat, a <= x, b <= y
  PROVE  a * b \in Nat /\ x * y \in Nat /\ a * b <= x * y
<1>1. a * b <= x * b
  <2>1. (x - a) * b >= 0  OBVIOUS
  <2>2. (x - a) * b = x * b - a * b  OBVIOUS
  <2> QED  BY <2>1, <2>2
<1>2. x * b <= x * y
  <2>1. x * (y - b) >= 0  OBVIOUS
  <2>2. x * (y - b) = x * y - x * b  OBVIOUS
  <2> QED  BY <2>1, <2>2
<1> QED  BY <1>1, <1>2

\* What is aligned is the next multiple, less than an alignment away.
LEMMA AlignedIsNext ==
  ASSUME NEW n \in Nat
  PROVE  /\ Aligned(n) \in Nat
         /\ Aligned(n) % Alignment = 0
         /\ n <= Aligned(n) /\ Aligned(n) < n + Alignment
BY DEF Aligned, Alignment

LEMMA MultiplesAdd ==
  ASSUME NEW a \in Nat, NEW b \in Nat, NEW s \in Nat,
         a % Alignment = 0, b % Alignment = 0
  PROVE  s * b \in Nat /\ (a + s * b) % Alignment = 0
<1>1. PICK j \in Nat : a = 64 * j  BY DEF Alignment
<1>2. PICK k \in Nat : b = 64 * k  BY DEF Alignment
<1>3. s * k \in Nat  OBVIOUS
<1>4. s * b = 64 * (s * k)  BY <1>2
<1> HIDE DEF Alignment
<1>5. a + s * b = 64 * (j + s * k)  BY <1>1, <1>3, <1>4
<1> QED  BY <1>3, <1>4, <1>5 DEF Alignment

-----------------------------------------------------------------------------
(* One queue, wherever it starts. *)

LEMMA BlockBytesType ==
  ASSUME NEW c \in Configs, NEW d \in Directions
  PROVE  BlockBytes(c, d) \in Nat /\ BlockHeaderBytes <= BlockBytes(c, d)
<1>1. c.channels[d] \in Nat /\ c.frames \in Nat  BY DEF Configs
<1>2. c.channels[d] * c.frames \in Nat  BY <1>1, TimesIsMonotone
<1> HIDE DEF Configs
<1> QED  BY <1>2 DEF BlockBytes, BlockHeaderBytes, SampleBytes

LEMMA QueueShape ==
  ASSUME NEW c \in Configs, NEW d \in Directions, NEW start \in Nat,
         start % Alignment = 0
  PROVE  LET q == Queue(c, d, start) IN
         /\ q.end \in Nat /\ q.end % Alignment = 0 /\ start <= q.end
         /\ c.channels[d] > 0 =>
              /\ q.control = start
              /\ q.slots = start + ControlBytes
              /\ q.stride \in Nat /\ q.stride % Alignment = 0
              /\ BlockBytes(c, d) <= q.stride
              /\ q.end = q.slots + c.capacity * q.stride
<1> DEFINE stride == Aligned(BlockBytes(c, d))
<1>1. stride \in Nat /\ stride % Alignment = 0 /\ BlockBytes(c, d) <= stride
  BY BlockBytesType, AlignedIsNext
<1>2. c.capacity \in Nat /\ c.channels[d] \in Nat  BY DEF Configs
<1>3. CASE c.channels[d] = 0
  BY <1>3 DEF Queue
<1>4. CASE c.channels[d] > 0
  <2> HIDE DEF stride
  <2>1. Queue(c, d, start) =
          [control |-> start, slots |-> start + ControlBytes, stride |-> stride,
           end |-> start + ControlBytes + stride * c.capacity]
    BY <1>2, <1>4 DEF Queue, stride
  <2>2. stride * c.capacity = c.capacity * stride  BY <1>1, <1>2
  <2>3. (start + ControlBytes) % Alignment = 0 /\ start + ControlBytes \in Nat
    BY DEF ControlBytes, Alignment
  <2>4. /\ c.capacity * stride \in Nat
        /\ (start + ControlBytes + c.capacity * stride) % Alignment = 0
    BY <1>1, <1>2, <2>3, MultiplesAdd
  <2>5. start <= start + ControlBytes + c.capacity * stride
    BY <2>4 DEF ControlBytes
  <2>6. start + ControlBytes + c.capacity * stride \in Nat
    BY <2>4 DEF ControlBytes
  <2> QED  BY <1>1, <2>1, <2>2, <2>3, <2>4, <2>5, <2>6
<1> QED  BY <1>2, <1>3, <1>4

LEMMA Starts ==
  ASSUME NEW c \in Configs, NEW d \in Directions
  PROVE  /\ Start(c, d) \in Nat /\ Start(c, d) % Alignment = 0
         /\ HeaderBytes <= Start(c, d)
<1>1. HeaderBytes \in Nat /\ HeaderBytes % Alignment = 0  BY DEF HeaderBytes, Alignment
<1>2. CASE d = "input"
  BY <1>1, <1>2 DEF Start, HeaderBytes
<1>3. CASE d = "output"
  <2>1. "input" \in Directions  BY DEF Directions
  <2>2. LET q == Queue(c, "input", HeaderBytes) IN
          q.end \in Nat /\ q.end % Alignment = 0 /\ HeaderBytes <= q.end
    BY <1>1, <2>1, QueueShape
  <2> QED  BY <1>3, <2>2 DEF Start
<1> QED  BY <1>2, <1>3 DEF Directions

-----------------------------------------------------------------------------
(* The parts of one queue follow each other: the one at a ends no later than *)
(* PartEnd(c, d, a), and the next begins no earlier.                          *)

PartEnd(c, d, a) == QueueOf(c, d).slots + a * QueueOf(c, d).stride

LEMMA PartsFollow ==
  ASSUME NEW c \in Configs, NEW d \in Directions, c.channels[d] > 0,
         NEW a \in 0 .. c.capacity
  PROVE  LET p == [of |-> d, at |-> a] IN
         /\ From(c, p) \in Nat /\ From(c, p) % Alignment = 0
         /\ Start(c, d) <= From(c, p)
         /\ To(c, p) <= PartEnd(c, d, a)
         /\ PartEnd(c, d, a) <= QueueOf(c, d).end
         /\ \A b \in 0 .. c.capacity :
              a < b => PartEnd(c, d, a) <= From(c, [of |-> d, at |-> b])
<1> DEFINE q == QueueOf(c, d)
           start == Start(c, d)
           p(b) == [of |-> d, at |-> b]
<1>1. /\ start \in Nat /\ start % Alignment = 0
      /\ q.control = start /\ q.slots = start + ControlBytes
      /\ q.stride \in Nat /\ q.stride % Alignment = 0
      /\ BlockBytes(c, d) <= q.stride
      /\ q.end = q.slots + c.capacity * q.stride
  BY Starts, QueueShape DEF QueueOf
<1>2. c.capacity \in Nat /\ BlockBytes(c, d) \in Nat  BY BlockBytesType DEF Configs
<1>3. q.slots \in Nat /\ q.slots % Alignment = 0 /\ start <= q.slots
  BY <1>1 DEF ControlBytes, Alignment
<1>4. d # "header"  BY DEF Directions
<1>5. From(c, p(0)) = start  BY <1>1, <1>4 DEF From
<1>6. \A b \in 0 .. c.capacity : b > 0 => From(c, p(b)) = q.slots + (b - 1) * q.stride
  BY <1>4 DEF From, SlotOffset
<1>7. \A b \in 0 .. c.capacity : b * q.stride \in Nat
  BY <1>1, <1>2, TimesIsMonotone
<1> HIDE DEF q, start
<1>8. \A b \in 0 .. c.capacity : b > 0 => (b - 1) * q.stride = b * q.stride - q.stride
  BY <1>1, <1>2
<1>9. From(c, p(a)) \in Nat /\ From(c, p(a)) % Alignment = 0 /\ start <= From(c, p(a))
  <2>1. CASE a = 0  BY <1>1, <1>5, <2>1
  <2>2. CASE a > 0
    <3>1. a - 1 \in Nat  BY <1>2, <2>2
    <3>2. (a - 1) * q.stride \in Nat /\ (q.slots + (a - 1) * q.stride) % Alignment = 0
      BY <1>1, <1>3, <3>1, MultiplesAdd
    <3> QED  BY <1>1, <1>3, <1>6, <2>2, <3>2
  <2> QED  BY <1>2, <2>1, <2>2
<1>10. To(c, p(a)) <= PartEnd(c, d, a)
  <2>1. CASE a = 0
    <3>1. To(c, p(a)) = start + ControlBytes  BY <1>4, <1>5, <2>1 DEF To
    <3> QED  BY <1>1, <1>3, <1>7, <2>1, <3>1 DEF PartEnd, q, ControlBytes
  <2>2. CASE a > 0
    <3>1. To(c, p(a)) = From(c, p(a)) + BlockBytes(c, d)  BY <1>4, <2>2 DEF To
    <3> QED  BY <1>1, <1>2, <1>3, <1>6, <1>7, <1>8, <2>2, <3>1 DEF PartEnd, q
  <2> QED  BY <1>2, <2>1, <2>2
<1>11. PartEnd(c, d, a) <= q.end
  <2>1. a * q.stride <= c.capacity * q.stride  BY <1>1, <1>2, TimesIsMonotone
  <2>2. c.capacity * q.stride \in Nat  BY <1>1, <1>2, TimesIsMonotone
  <2>3. a * q.stride \in Nat  BY <1>7
  <2>4. PartEnd(c, d, a) = q.slots + a * q.stride  BY DEF PartEnd, q
  <2> QED  BY <1>1, <1>3, <2>1, <2>2, <2>3, <2>4
<1>12. ASSUME NEW b \in 0 .. c.capacity, a < b
       PROVE  PartEnd(c, d, a) <= From(c, p(b))
  <2>1. b - 1 \in Nat /\ a <= b - 1 /\ a \in Nat  BY <1>2, <1>12
  <2>2. a * q.stride <= (b - 1) * q.stride  BY <1>1, <2>1, TimesIsMonotone
  <2>3. (b - 1) * q.stride \in Nat /\ a * q.stride \in Nat  BY <1>1, <2>1, TimesIsMonotone
  <2>4. PartEnd(c, d, a) = q.slots + a * q.stride  BY DEF PartEnd, q
  <2>5. From(c, p(b)) = q.slots + (b - 1) * q.stride  BY <1>6, <2>1
  <2> QED  BY <1>3, <2>2, <2>3, <2>4, <2>5
<1> QED  BY <1>9, <1>10, <1>11, <1>12 DEF q, start

-----------------------------------------------------------------------------
(* The parts of the whole mapping. *)

LEMMA TheEnds ==
  ASSUME NEW c \in Configs
  PROVE  /\ \A d \in Directions : QueueOf(c, d).end \in Nat
         /\ HeaderBytes <= QueueOf(c, "input").end
         /\ Start(c, "input") = HeaderBytes
         /\ Start(c, "output") = QueueOf(c, "input").end
         /\ QueueOf(c, "input").end <= QueueOf(c, "output").end
         /\ TotalBytes(c) \in Nat /\ QueueOf(c, "output").end <= TotalBytes(c)
<1>1. \A d \in Directions :
        QueueOf(c, d).end \in Nat /\ Start(c, d) <= QueueOf(c, d).end
  BY Starts, QueueShape DEF QueueOf
<1>2. Start(c, "input") = HeaderBytes /\ Start(c, "output") = QueueOf(c, "input").end
  BY DEF Start, QueueOf
<1>3. TotalBytes(c) \in Nat /\ QueueOf(c, "output").end <= TotalBytes(c)
  BY <1>1, AlignedIsNext DEF TotalBytes, Directions
<1> QED  BY <1>1, <1>2, <1>3 DEF Directions

LEMMA PartsAreNumbers ==
  ASSUME NEW c \in Configs, NEW p \in Parts(c)
  PROVE  From(c, p) \in Nat /\ To(c, p) \in Nat
<1>1. CASE p = [of |-> "header", at |-> 0]
  BY <1>1 DEF From, To, HeaderBytes
<1>2. ASSUME NEW d \in Directions, NEW a \in 0 .. c.capacity, c.channels[d] > 0,
             p = [of |-> d, at |-> a]
      PROVE  From(c, p) \in Nat /\ To(c, p) \in Nat
  BY <1>2, PartsFollow, BlockBytesType DEF To, ControlBytes, HeaderBytes
<1> QED  BY <1>1, <1>2 DEF Parts

\* No byte of a mapping belongs to two parts of it, and none of a part is
\* outside: the engine and the driver, which reach the parts through offsets of
\* their own, never write over each other's words (layout.cpp: 190-210).
THEOREM PartsDoNotMeet ==
  ASSUME NEW c \in Configs
  PROVE  PartsAreApart(c)
<1> DEFINE header == [of |-> "header", at |-> 0]
           Of(d) == {p \in Parts(c) : p.of = d}
<1>1. \A p \in Parts(c) :
        \/ p = header
        \/ \E d \in Directions, a \in 0 .. c.capacity :
             c.channels[d] > 0 /\ p = [of |-> d, at |-> a]
  BY DEF Parts
<1>2. From(c, header) = 0 /\ To(c, header) = HeaderBytes
  BY DEF From, To, HeaderBytes
<1>3. ASSUME NEW d \in Directions, NEW a \in 0 .. c.capacity, c.channels[d] > 0
      PROVE  LET p == [of |-> d, at |-> a] IN
             /\ From(c, p) \in Nat /\ To(c, p) \in Nat
             /\ Start(c, d) <= From(c, p) /\ To(c, p) <= QueueOf(c, d).end
             /\ \A b \in 0 .. c.capacity : a < b => To(c, p) <= From(c, [of |-> d, at |-> b])
  <2> DEFINE p == [of |-> d, at |-> a]
  <2>1. To(c, p) \in Nat
    BY <1>3, PartsFollow, BlockBytesType DEF To, ControlBytes, HeaderBytes
  <2>2. PartEnd(c, d, a) \in Nat
    <3>1. QueueOf(c, d).slots \in Nat /\ QueueOf(c, d).stride \in Nat
      BY <1>3, Starts, QueueShape DEF QueueOf, ControlBytes
    <3>2. a * QueueOf(c, d).stride \in Nat  BY <3>1, TimesIsMonotone
    <3> QED  BY <3>1, <3>2 DEF PartEnd
  <2>3. QueueOf(c, d).end \in Nat  BY TheEnds
  <2>4. \A b \in 0 .. c.capacity : From(c, [of |-> d, at |-> b]) \in Nat
    BY <1>3, PartsFollow
  <2>5. /\ From(c, p) \in Nat /\ Start(c, d) <= From(c, p)
        /\ To(c, p) <= PartEnd(c, d, a)
        /\ PartEnd(c, d, a) <= QueueOf(c, d).end
        /\ \A b \in 0 .. c.capacity :
             a < b => PartEnd(c, d, a) <= From(c, [of |-> d, at |-> b])
    BY <1>3, PartsFollow
  <2> HIDE DEF p
  <2> SUFFICES /\ To(c, p) <= QueueOf(c, d).end
               /\ \A b \in 0 .. c.capacity :
                    a < b => To(c, p) <= From(c, [of |-> d, at |-> b])
    BY <2>1, <2>5 DEF p
  <2>6. To(c, p) <= QueueOf(c, d).end  BY <2>1, <2>2, <2>3, <2>5
  <2> QED  BY <2>1, <2>2, <2>4, <2>5, <2>6
<1>4. ASSUME NEW p \in Parts(c), NEW q \in Parts(c), p # q
      PROVE  To(c, p) <= From(c, q) \/ To(c, q) <= From(c, p)
  <2>1. CASE p = header
    <3>1. PICK d \in Directions, a \in 0 .. c.capacity :
            c.channels[d] > 0 /\ q = [of |-> d, at |-> a]
      BY <1>1, <1>4, <2>1
    <3> QED  BY <1>2, <1>3, <2>1, <3>1, Starts DEF HeaderBytes
  <2>2. CASE q = header
    <3>1. PICK d \in Directions, a \in 0 .. c.capacity :
            c.channels[d] > 0 /\ p = [of |-> d, at |-> a]
      BY <1>1, <1>4, <2>2
    <3> QED  BY <1>2, <1>3, <2>2, <3>1, Starts DEF HeaderBytes
  <2>3. CASE p # header /\ q # header
    <3>1. PICK d \in Directions, a \in 0 .. c.capacity :
            c.channels[d] > 0 /\ p = [of |-> d, at |-> a]
      BY <1>1, <2>3
    <3>2. PICK e \in Directions, b \in 0 .. c.capacity :
            c.channels[e] > 0 /\ q = [of |-> e, at |-> b]
      BY <1>1, <2>3
    <3>3. CASE d = e
      <4>1. a < b \/ b < a
        <5>1. a # b  BY <1>4, <3>1, <3>2, <3>3
        <5>2. c.capacity \in Nat  BY DEF Configs
        <5> QED  BY <5>1, <5>2
      <4> QED  BY <1>3, <3>1, <3>2, <3>3, <4>1
    <3>4. CASE d = "input" /\ e = "output"
      <4>1. To(c, p) <= QueueOf(c, d).end /\ QueueOf(c, d).end <= From(c, q)
        BY <1>3, <3>1, <3>2, <3>4, TheEnds
      <4> QED  BY <1>3, <3>1, <3>2, <4>1, TheEnds
    <3>5. CASE d = "output" /\ e = "input"
      <4>1. To(c, q) <= QueueOf(c, e).end /\ QueueOf(c, e).end <= From(c, p)
        BY <1>3, <3>1, <3>2, <3>5, TheEnds
      <4> QED  BY <1>3, <3>1, <3>2, <4>1, TheEnds
    <3> QED  BY <3>3, <3>4, <3>5 DEF Directions
  <2> QED  BY <2>1, <2>2, <2>3
<1>5. ASSUME NEW p \in Parts(c)  PROVE To(c, p) <= TotalBytes(c)
  <2>1. CASE p = header
    BY <1>2, <2>1, TheEnds DEF HeaderBytes, Directions
  <2>2. CASE p # header
    <3>1. PICK d \in Directions, a \in 0 .. c.capacity :
            c.channels[d] > 0 /\ p = [of |-> d, at |-> a]
      BY <1>1, <2>2
    <3>2. To(c, p) \in Nat /\ To(c, p) <= QueueOf(c, d).end  BY <1>3, <3>1
    <3>3. QueueOf(c, d).end <= TotalBytes(c)  BY TheEnds DEF Directions
    <3> QED  BY <3>2, <3>3, TheEnds
  <2> QED  BY <2>1, <2>2
<1> QED  BY <1>4, <1>5 DEF PartsAreApart

\* The control words and every slot begin on a line of their own, as the
\* interlocked operations on them need (layout.cpp: 51-60, 84-96).
THEOREM PartsLineUp ==
  ASSUME NEW c \in Configs
  PROVE  PartsAreAligned(c)
<1> SUFFICES ASSUME NEW p \in Parts(c)  PROVE From(c, p) % Alignment = 0
  BY DEF PartsAreAligned
<1>1. CASE p = [of |-> "header", at |-> 0]  BY <1>1 DEF From, Alignment
<1>2. ASSUME NEW d \in Directions, NEW a \in 0 .. c.capacity, c.channels[d] > 0,
             p = [of |-> d, at |-> a]
      PROVE  From(c, p) % Alignment = 0
  BY <1>2, PartsFollow
<1> QED  BY <1>1, <1>2 DEF Parts

-----------------------------------------------------------------------------
(* The refusals. *)

LEMMA QueueIsBounded ==
  ASSUME NEW c \in Configs, NEW d \in Directions, NEW start \in Nat,
         start % Alignment = 0, ValidFormat(c), c.capacity \in 1 .. MaxCapacity,
         start <= HeaderBytes + LargestQueue
  PROVE  /\ QueueFits(c, d, start)
         /\ Queue(c, d, start).end <= start + LargestQueue
<1> DEFINE largest == BlockHeaderBytes + MaxChannels * MaxFrames * SampleBytes + Alignment
           samples == c.channels[d] * c.frames
           stride  == Aligned(BlockBytes(c, d))
<1> USE LayoutAssumption
<1>1. /\ c.capacity \in Nat /\ c.channels[d] \in Nat /\ c.frames \in Nat
      /\ c.channels[d] <= MaxChannels /\ c.frames <= MaxFrames
  BY DEF Configs, ValidFormat
<1>2. /\ samples \in Nat /\ MaxChannels * MaxFrames \in Nat
      /\ samples <= MaxChannels * MaxFrames
  BY <1>1, TimesIsMonotone
<1>3. /\ largest \in Nat /\ BlockBytes(c, d) \in Nat
      /\ BlockBytes(c, d) + Alignment <= largest
  <2> HIDE DEF samples
  <2>1. BlockBytes(c, d) = BlockHeaderBytes + samples * SampleBytes
    BY DEF BlockBytes, samples
  <2> QED  BY <1>2, <2>1 DEF BlockHeaderBytes, SampleBytes, Alignment
<1>4. stride \in Nat /\ stride < BlockBytes(c, d) + Alignment
  BY <1>3, AlignedIsNext
<1>5. LargestQueue = ControlBytes + largest * MaxCapacity
  BY DEF LargestQueue
<1> HIDE DEF largest, stride
<1>6. /\ stride * c.capacity \in Nat /\ largest * MaxCapacity \in Nat
      /\ stride * c.capacity <= largest * MaxCapacity
  <2>1. stride <= largest  BY <1>3, <1>4 DEF Alignment
  <2>2. c.capacity <= MaxCapacity /\ MaxCapacity \in Nat  OBVIOUS
  <2> QED  BY <1>1, <1>3, <1>4, <2>1, <2>2, TimesIsMonotone
<1>7. LargestQueue \in Nat /\ ControlBytes + stride * c.capacity <= LargestQueue
  BY <1>5, <1>6 DEF ControlBytes
<1>8. Queue(c, d, start).end <= start + LargestQueue
  <2>1. CASE c.channels[d] = 0
    BY <1>7, <2>1 DEF Queue
  <2>2. CASE c.channels[d] # 0
    <3>1. Queue(c, d, start).end = start + ControlBytes + stride * c.capacity
      BY <2>2 DEF Queue, stride
    <3> QED  BY <1>6, <1>7, <3>1 DEF ControlBytes
  <2> QED  BY <2>1, <2>2
<1>9. Queue(c, d, start).end <= MaxUint64
  <2>1. Queue(c, d, start).end \in Nat  BY QueueShape
  <2> QED  BY <1>7, <1>8, <2>1 DEF HeaderBytes, Alignment
<1>10. CASE c.channels[d] = 0
  BY <1>8, <1>10 DEF QueueFits
<1>11. CASE c.channels[d] # 0
  <2>1. samples <= MaxUint32  BY <1>2
  <2>2. stride * c.capacity <= MaxUint64
    BY <1>6, <1>7 DEF HeaderBytes, Alignment, ControlBytes
  <2>3. BlockBytes(c, d) + Alignment - 1 <= MaxUint64
    <3>1. largest * 1 <= largest * MaxCapacity  BY <1>3, TimesIsMonotone
    <3>2. BlockBytes(c, d) + Alignment <= LargestQueue
      BY <1>3, <1>5, <1>6, <3>1 DEF ControlBytes, Alignment
    <3> QED  BY <1>3, <1>7, <3>2 DEF HeaderBytes, Alignment
  <2> QED  BY <1>8, <1>9, <2>1, <2>2, <2>3 DEF QueueFits, samples, stride
<1> QED  BY <1>8, <1>10, <1>11

\* For every format and capacity within the limits no step of the arithmetic
\* leaves its width, so that a layout is only ever refused for its size: the
\* checks of build_queue() cannot be what turns a client away (layout.cpp:
\* 31-96, 192-208).
THEOREM ArithmeticStaysInWidth ==
  ASSUME NEW c \in Configs, ValidFormat(c), c.capacity \in 1 .. MaxCapacity
  PROVE  /\ \A d \in Directions : QueueFits(c, d, Start(c, d))
         /\ QueueOf(c, "output").end + Alignment - 1 <= MaxUint64
<1> DEFINE first == QueueOf(c, "input").end
           last  == QueueOf(c, "output").end
<1>1. LargestQueue \in Nat
  <2>1. MaxChannels * MaxFrames \in Nat  BY LayoutAssumption, TimesIsMonotone
  <2>2. BlockHeaderBytes + MaxChannels * MaxFrames * SampleBytes + Alignment \in Nat
    BY <2>1 DEF BlockHeaderBytes, SampleBytes, Alignment
  <2> QED  BY <2>2, LayoutAssumption, TimesIsMonotone DEF LargestQueue, ControlBytes
<1>2. HeaderBytes \in Nat /\ HeaderBytes % Alignment = 0
  BY DEF HeaderBytes, Alignment
<1>3. QueueFits(c, "input", HeaderBytes) /\ first <= HeaderBytes + LargestQueue
  BY <1>1, <1>2, TheEnds, QueueIsBounded DEF QueueOf, Directions, HeaderBytes
<1>4. first \in Nat /\ last \in Nat /\ first % Alignment = 0
  BY Starts, TheEnds DEF Directions
<1>5. QueueFits(c, "output", first) /\ last <= first + LargestQueue
  BY <1>3, <1>4, TheEnds, QueueIsBounded DEF QueueOf, Directions
<1>6. last + Alignment - 1 <= MaxUint64
  BY <1>1, <1>2, <1>3, <1>4, <1>5, LayoutAssumption DEF Alignment
<1> QED  BY <1>3, <1>5, <1>6, TheEnds DEF Directions

\* The driver accepts every header the engine writes, if its mapping is as
\* large as the engine's (shared_memory.cpp: 139-190, 232-245).
THEOREM CreatedIsAccepted ==
  ASSUME NEW c \in Configs, NEW i \in Identities, Accepts(c, i),
         NEW mapped \in Nat, TotalBytes(c) <= mapped
  PROVE  Validates(Header(c, i), mapped)
BY DEF Validates, Header

\* What it accepts lies inside what it has mapped: whatever the header says, no
\* part that the driver then reads or writes is outside its view
\* (layout.cpp: 258-282).
THEOREM AcceptedIsInside ==
  ASSUME NEW h, h.config \in Configs, NEW mapped \in Nat, Validates(h, mapped)
  PROVE  \A p \in Parts(h.config) : To(h.config, p) <= mapped
<1>1. TotalBytes(h.config) <= mapped  BY DEF Validates, Header
<1>2. ASSUME NEW p \in Parts(h.config)
      PROVE  To(h.config, p) <= TotalBytes(h.config) /\ To(h.config, p) \in Int
  <2>1. To(h.config, p) <= TotalBytes(h.config)  BY PartsDoNotMeet DEF PartsAreApart
  <2>2. To(h.config, p) \in Int  BY PartsAreNumbers
  <2> QED  BY <2>1, <2>2
<1> QED  BY <1>1, <1>2, TheEnds

-----------------------------------------------------------------------------
(* The hosts: the inductive invariant. *)

ConnectRequests ==
  [step : {"generation", "build", "admit"}, host : Hosts, client : Clients, rate : Rates,
   attempt : Nat, seen : Nat, graph : Nat]

ConnectionRequests ==
  [step : {"peer", "remove", "open"}, host : Hosts, connection : Connections]

Types ==
  /\ rate \in Rates
  /\ command \in {NoCommand} \union [rate : Rates, next_host : Nat]
  /\ registry \in [Hosts -> SUBSET Connections]
  /\ active_rate \in [Hosts -> Rates \union {NoRate}]
  /\ next_generation \in [Hosts -> Nat]
  /\ sessions \in [Hosts -> SUBSET Sessions]
  /\ graph_generation \in [Hosts -> Nat \ {0}]
  /\ request \in [Processes -> {NoRequest} \union ConnectRequests \union ConnectionRequests]
  /\ alive \in [Processes -> BOOLEAN]
  /\ known_rate \in [Processes -> Rates \union {NoRate}]
  /\ held \in [Processes -> [Hosts -> SUBSET Connections]]

\* The registry never holds more than maximum_clients.
RegistryIsBounded ==
  \A h \in Hosts : IsFiniteSet(registry[h]) /\ Cardinality(registry[h]) <= MaxClients

\* A graph was built between two reads of a generation that only grows.
GraphsAreBetween ==
  \A p \in Processes :
    LET r == request[p] IN
      /\ Connecting(p, "build") => 0 < r.seen /\ r.seen <= graph_generation[r.host]
      /\ Connecting(p, "admit") =>
           0 < r.seen /\ r.seen <= r.graph /\ r.graph <= graph_generation[r.host]

\* Process p's request is about a connection of host h.
Means(p, h) ==
  /\ request[p] # NoRequest
  /\ request[p].step \in {"peer", "remove", "open"}
  /\ request[p].host = h

\* The connections of host h somebody can still name.
Named(h) ==
  ConnectionsOf(sessions[h])
    \union (UNION {held[p][h] : p \in Processes})
    \union {request[p].connection : p \in {q \in Processes : Means(q, h)}}

\* The generation alone identifies a connection of a host, and is never given
\* out again.
GenerationsIdentify ==
  \A h \in Hosts : \A c, d \in Named(h) :
    /\ c.generation < next_generation[h]
    /\ c.generation = d.generation => c = d

\* A process holds and opens its own connections, and a disconnection past the
\* check of the peer is of its own connection or of none.
RequestsAreOwn ==
  \A p \in Processes, h \in Hosts :
    /\ \A c \in held[p][h] : c.process = p
    /\ Means(p, h) =>
         LET c == request[p].connection IN
         /\ Connecting(p, "open") => c.process = p
         /\ Connecting(p, "remove") => c.process = p \/ c \notin ConnectionsOf(sessions[h])

HostInv ==
  /\ Types
  /\ RegistryIsBounded
  /\ RegistryMatchesSessions
  /\ FreshGraphs
  /\ GraphsAreBetween
  /\ GenerationsIdentify
  /\ RequestsAreOwn

-----------------------------------------------------------------------------
(* Types. *)

LEMMA InitTypes == Init => Types /\ RegistryIsBounded
<1> USE VirtualAsioHostAssumption
<1>1. Init => Types  BY DEF Init, Types
<1>2. Init => RegistryIsBounded  BY FS_EmptySet DEF Init, RegistryIsBounded
<1> QED  BY <1>1, <1>2

LEMMA ReapTypes ==
  ASSUME Types, NEW h \in Hosts, ReapStopped(h)
  PROVE  /\ registry' \in [Hosts -> SUBSET Connections]
         /\ active_rate' \in [Hosts -> Rates \union {NoRate}]
         /\ sessions' \in [Hosts -> SUBSET Sessions]
BY DEF Types, ReapStopped, Without, RateOf, Surviving

LEMMA DawTypes ==
  ASSUME Types, NEW p \in Processes, Daw(p)
  PROVE  Types'
<1> USE VirtualAsioHostAssumption DEF Types
<1>1. CASE QueryFormat(p)  BY <1>1 DEF QueryFormat, presetVars, hostVars
<1>2. CASE ProcessExits(p)  BY <1>2 DEF ProcessExits, Finished, presetVars, hostVars
<1>3. CASE OpenObjects(p)
  <2>1. request[p] \in ConnectionRequests
    BY <1>3 DEF OpenObjects, Opening, ConnectRequests
  <2> QED  BY <1>3, <2>1 DEF OpenObjects, Finished, ConnectionRequests, presetVars, hostVars
<1>4. CASE OpenFails(p)
  <2>1. request[p] \in ConnectionRequests
    BY <1>4 DEF OpenFails, Opening, ConnectRequests
  <2>2. [step |-> "peer", host |-> request[p].host, connection |-> request[p].connection]
          \in ConnectionRequests
    BY <2>1 DEF ConnectionRequests
  <2>3. request' \in [Processes -> {NoRequest} \union ConnectRequests \union ConnectionRequests]
    BY <1>4, <2>2 DEF OpenFails, Finished
  <2> QED  BY <1>4, <2>3 DEF OpenFails, presetVars, hostVars
<1>5. ASSUME NEW h \in Hosts, NEW c \in ClientsOf[p], SendConnect(p, h, c)
      PROVE  Types'
  <2>1. c \in Clients  OBVIOUS
  <2> QED  BY <1>5, <2>1 DEF SendConnect, ConnectRequests, presetVars, hostVars
<1>6. ASSUME NEW h \in Hosts, NEW c \in held[p][h] \union registry[h], SendDisconnect(p, h, c)
      PROVE  Types'
  <2>1. c \in Connections  OBVIOUS
  <2> QED  BY <1>6, <2>1 DEF SendDisconnect, ConnectionRequests, presetVars, hostVars
<1>7. ASSUME NEW h \in Hosts, NEW c \in held[p][h], CloseLocal(p, h, c)
      PROVE  Types'
  <2>1. held' \in [Processes -> [Hosts -> SUBSET Connections]]  BY <1>7 DEF CloseLocal
  <2>2. \A s \in Sessions : [s EXCEPT !.signaled = @ \/ s.connection = c] \in Sessions
    BY DEF Sessions
  <2>3. sessions' \in [Hosts -> SUBSET Sessions]  BY <1>7, <2>2 DEF CloseLocal
  <2> QED  BY <1>7, <2>1, <2>3 DEF CloseLocal, presetVars
<1> QED  BY <1>1, <1>2, <1>3, <1>4, <1>5, <1>6, <1>7 DEF Daw

LEMMA BrokerTypes ==
  ASSUME Types, GraphsAreBetween, NEW p \in Processes, Broker(p)
  PROVE  Types'
<1> USE VirtualAsioHostAssumption DEF Types
<1>1. ASSUME NEW step \in {"generation", "build", "admit"}, Connecting(p, step)
      PROVE  request[p] \in ConnectRequests
  BY <1>1 DEF Connecting, ConnectionRequests
<1>2. ASSUME NEW step \in {"peer", "remove"}, Connecting(p, step)
      PROVE  request[p] \in ConnectionRequests
  BY <1>2 DEF Connecting, ConnectRequests
<1>3. CASE ReadGeneration(p)
  <2>1. request[p] \in ConnectRequests  BY <1>1, <1>3 DEF ReadGeneration
  <2> QED  BY <1>3, <2>1 DEF ReadGeneration, ConnectRequests, presetVars, hostVars
<1>4. CASE BuildGraph(p)
  <2>1. request[p] \in ConnectRequests  BY <1>1, <1>4 DEF BuildGraph
  <2>2. [request[p] EXCEPT !.graph = graph_generation[request[p].host], !.step = "admit"]
          \in ConnectRequests
    BY <2>1 DEF ConnectRequests
  <2>3. \/ request' = [request EXCEPT ![p] = NoRequest]
        \/ request' = [request EXCEPT ![p] =
             [request[p] EXCEPT !.graph = graph_generation[request[p].host], !.step = "admit"]]
    BY <1>4 DEF BuildGraph, Finished
  <2>4. request' \in [Processes -> {NoRequest} \union ConnectRequests \union ConnectionRequests]
    BY <2>2, <2>3
  <2> QED  BY <1>4, <2>4 DEF BuildGraph, presetVars, hostVars
<1>5. CASE RejectStale(p)
  <2>1. request[p] \in ConnectRequests  BY <1>1, <1>5 DEF RejectStale
  <2>2. CASE Finished(p)
    <3>1. request' \in [Processes -> {NoRequest} \union ConnectRequests \union ConnectionRequests]
      BY <2>2 DEF Finished
    <3> QED  BY <1>5, <3>1 DEF RejectStale, presetVars, hostVars
  <2>3. CASE /\ request[p].attempt < MaxAttempts
             /\ request' = [request EXCEPT ![p].step = "generation", ![p].attempt = @ + 1]
    <3> DEFINE again == [request[p] EXCEPT !.step = "generation", !.attempt = @ + 1]
    <3>1. again \in ConnectRequests
      <4>1. request[p].attempt + 1 \in Nat
        BY <2>1 DEF ConnectRequests
      <4> HIDE DEF Types
      <4> QED BY <2>1, <4>1 DEF ConnectRequests
    <3>2. request' = [request EXCEPT ![p] = again]
      BY <2>1, <2>3 DEF ConnectRequests
    <3> HIDE DEF again
    <3>3. request' \in [Processes -> {NoRequest} \union ConnectRequests \union ConnectionRequests]
      BY <3>1, <3>2
    <3> QED  BY <1>5, <3>3 DEF RejectStale, presetVars, hostVars
  <2> QED  BY <1>5, <2>2, <2>3 DEF RejectStale
<1>6. CASE RefuseAdmission(p)
  <2>1. request[p].host \in Hosts  BY <1>1, <1>6 DEF RefuseAdmission, ConnectRequests
  <2> QED  BY <1>6, <2>1, ReapTypes DEF RefuseAdmission, Finished, presetVars
<1>7. CASE RollBackAdmission(p)
  <2>1. request[p].host \in Hosts  BY <1>1, <1>7 DEF RollBackAdmission, ConnectRequests
  <2> QED  BY <1>7, <2>1, ReapTypes DEF RollBackAdmission, Finished, presetVars
<1>8. CASE Connect(p)
  <2>1. request[p] \in ConnectRequests  BY <1>1, <1>8 DEF Connect
  <2>2. ConnectionFor(p) \in Connections
    BY <2>1 DEF ConnectionFor, Connections, ConnectRequests
  <2>3. NewSession(ConnectionFor(p), request[p].graph) \in Sessions
    <3>1. request[p].graph \in Nat \ {0}
      BY <1>8, <2>1 DEF Connect, GraphsAreBetween, ConnectRequests
    <3> QED  BY <2>2, <3>1 DEF NewSession, Sessions
  <2>4. AdmitSession(p) /\ UNCHANGED <<presetVars, graph_generation, alive, known_rate, held>>
    BY <1>8 DEF Connect
  <2>5. [step |-> "open", host |-> request[p].host, connection |-> ConnectionFor(p)]
          \in ConnectionRequests
    BY <2>1, <2>2 DEF ConnectionRequests, ConnectRequests
  <2>6. request' \in [Processes -> {NoRequest} \union ConnectRequests \union ConnectionRequests]
    BY <2>4, <2>5 DEF AdmitSession, Finished
  <2>7. request[p].host \in Hosts /\ request[p].rate \in Rates  BY <2>1 DEF ConnectRequests
  <2>8. /\ registry' \in [Hosts -> SUBSET Connections]
        /\ sessions' \in [Hosts -> SUBSET Sessions]
    BY <2>2, <2>3, <2>4, <2>7 DEF AdmitSession, Without, Surviving
  <2>9. /\ active_rate' \in [Hosts -> Rates \union {NoRate}]
        /\ next_generation' \in [Hosts -> Nat]
    BY <2>4, <2>7 DEF AdmitSession
  <2> QED  BY <2>4, <2>6, <2>8, <2>9 DEF presetVars
<1>9. CASE CheckPeer(p)
  <2>1. request[p] \in ConnectionRequests  BY <1>2, <1>9 DEF CheckPeer
  <2>2. [request[p] EXCEPT !.step = "remove"] \in ConnectionRequests
    BY <2>1 DEF ConnectionRequests
  <2>3. request' \in [Processes -> {NoRequest} \union ConnectRequests \union ConnectionRequests]
    BY <1>9, <2>2 DEF CheckPeer, Finished
  <2> QED  BY <1>9, <2>3 DEF CheckPeer, presetVars, hostVars
<1>10. CASE Disconnect(p)
  <2>1. request[p].host \in Hosts  BY <1>2, <1>10 DEF Disconnect, ConnectionRequests
  <2> QED  BY <1>10, <2>1 DEF Disconnect, Finished, RateOf, presetVars
<1> QED  BY <1>3, <1>4, <1>5, <1>6, <1>7, <1>8, <1>9, <1>10 DEF Broker

LEMMA SessionTypes ==
  ASSUME Types, NEW h \in Hosts, Host(h) \/ RefreshHost(h) \/ RefuseRefresh(h)
  PROVE  Types'
<1> USE DEF Types
<1>1. ASSUME NEW s \in sessions[h], SessionEnds(h, s)  PROVE Types'
  <2>1. [s EXCEPT !.running = FALSE] \in Sessions
    <3>1. s \in Sessions  OBVIOUS
    <3> HIDE DEF Types
    <3> QED  BY <3>1 DEF Sessions
  <2> QED  BY <1>1, <2>1 DEF SessionEnds, presetVars, dawVars
<1>2. CASE Reap(h)  BY <1>2, ReapTypes DEF Reap, presetVars, dawVars
<1>3. CASE RefreshHost(h)
  <2>1. graph_generation[h] + 1 \in Nat \ {0}  OBVIOUS
  <2>2. \A s \in Sessions : [s EXCEPT !.graph = graph_generation[h] + 1] \in Sessions
    BY <2>1 DEF Sessions
  <2>3. sessions' \in [Hosts -> SUBSET Sessions]  BY <1>3, <2>2 DEF RefreshHost, Surviving
  <2>4. command' \in [rate : Rates, next_host : Nat]
    BY <1>3 DEF RefreshHost, Refreshing, Hosts
  <2>5. registry' \in [Hosts -> SUBSET Connections] /\ active_rate' \in [Hosts -> Rates \union {NoRate}]
    BY <1>3 DEF RefreshHost, Without, RateOf
  <2>6. graph_generation' \in [Hosts -> Nat \ {0}]  BY <1>3, <2>1 DEF RefreshHost
  <2> QED  BY <1>3, <2>3, <2>4, <2>5, <2>6 DEF RefreshHost, dawVars
<1>4. CASE RefuseRefresh(h)  BY <1>4, ReapTypes DEF RefuseRefresh, dawVars
<1> QED  BY <1>1, <1>2, <1>3, <1>4 DEF Host, NoticeClientGone, WaitFails

LEMMA NextTypes == Types /\ GraphsAreBetween /\ [Next]_vars => Types'
<1> SUFFICES ASSUME Types, GraphsAreBetween, [Next]_vars  PROVE Types'
  OBVIOUS
<1>1. CASE UNCHANGED vars  BY <1>1 DEF Types, vars, presetVars, hostVars, dawVars
<1>2. ASSUME NEW r \in Rates, BeginUpdate(r)  PROVE Types'
  BY <1>2 DEF BeginUpdate, Types, hostVars, dawVars
<1>3. CASE CommitUpdate
  BY <1>3 DEF CommitUpdate, Refreshing, Types, hostVars, dawVars
<1>4. CASE StopAll
  BY <1>4 DEF StopAll, Types, dawVars
<1> QED  BY <1>1, <1>2, <1>3, <1>4, DawTypes, BrokerTypes, SessionTypes DEF Next, Observer

-----------------------------------------------------------------------------
(* The registry and the sessions.                                          *)

\* RegistryMatchesSessions, of one host.
Coherent(clients, format, some) ==
  /\ clients = ConnectionsOf(some)
  /\ \A s, t \in some : s.connection.client = t.connection.client => s = t
  /\ (clients = {}) = (format = NoRate)
  /\ \A s \in some : s.connection.rate = format

LEMMA CoherentHosts ==
  RegistryMatchesSessions <=>
    \A h \in Hosts : Coherent(registry[h], active_rate[h], sessions[h])
BY DEF RegistryMatchesSessions, Coherent

\* Whichever sessions go, and their clients with them, the rest still agree.
LEMMA RemovalIsCoherent ==
  ASSUME NEW clients, NEW format, NEW some, Coherent(clients, format, some),
         NEW gone \in SUBSET some
  PROVE  LET left == clients \ ConnectionsOf(gone)
         IN  Coherent(left, IF left = {} THEN NoRate ELSE format, some \ gone)
<1> DEFINE left == clients \ ConnectionsOf(gone)
<1>1. left = ConnectionsOf(some \ gone)
  BY DEF Coherent, ConnectionsOf
<1>2. \A s \in some \ gone : s.connection \in left
  BY <1>1 DEF ConnectionsOf
<1>3. left # {} => format # NoRate
  BY DEF Coherent
<1> QED  BY <1>1, <1>2, <1>3 DEF Coherent

\* An admission adds a client with an id and at a rate that agree with the rest.
LEMMA AdmissionIsCoherent ==
  ASSUME NEW clients, NEW format, NEW some, Coherent(clients, format, some),
         NEW connection \in Connections, NEW graph,
         \A c \in clients : c.client # connection.client,
         format \in {NoRate, connection.rate}
  PROVE  Coherent(clients \union {connection}, connection.rate,
                  some \union {NewSession(connection, graph)})
<1> DEFINE new == NewSession(connection, graph)
<1>1. new.connection = connection  BY DEF NewSession
<1> HIDE DEF new
<1>2. ConnectionsOf(some \union {new}) = ConnectionsOf(some) \union {connection}
  BY <1>1 DEF ConnectionsOf
<1>3. connection.rate # NoRate  BY VirtualAsioHostAssumption DEF Connections
<1>4. \A s \in some : s.connection \in clients  BY DEF Coherent, ConnectionsOf
<1>5. \A s \in some : s.connection.rate = connection.rate
  BY <1>4 DEF Coherent
<1> QED  BY <1>1, <1>2, <1>3, <1>4, <1>5 DEF Coherent, new

\* Sessions that change without another connection leave the host coherent.
LEMMA UpdateIsCoherent ==
  ASSUME NEW clients, NEW format, NEW some, Coherent(clients, format, some),
         NEW f, \A s \in some : f[s].connection = s.connection
  PROVE  Coherent(clients, format, {f[s] : s \in some})
<1>1. ConnectionsOf({f[s] : s \in some}) = ConnectionsOf(some)
  BY DEF ConnectionsOf
<1> QED  BY <1>1 DEF Coherent

\* The registry after the reaping, and the format.
Reaped(h)       == Without(h, ConnectionsOf(Stopped(h)))
ReapedFormat(h) == RateOf(h, Reaped(h))

LEMMA ReapIsCoherent ==
  ASSUME RegistryMatchesSessions, NEW h \in Hosts
  PROVE  Coherent(Reaped(h), ReapedFormat(h), Surviving(h))
<1>1. Stopped(h) \in SUBSET sessions[h]  BY DEF Stopped
<1>2. Coherent(registry[h], active_rate[h], sessions[h])  BY CoherentHosts
<1> QED
  BY <1>1, <1>2, RemovalIsCoherent DEF Reaped, ReapedFormat, Without, RateOf, Surviving

\* A step of one host.
LEMMA OneHostIsCoherent ==
  ASSUME Types, RegistryMatchesSessions, NEW h \in Hosts,
         NEW clients, NEW format, NEW some, Coherent(clients, format, some),
         registry' = [registry EXCEPT ![h] = clients],
         active_rate' = [active_rate EXCEPT ![h] = format],
         sessions' = [sessions EXCEPT ![h] = some]
  PROVE  RegistryMatchesSessions'
<1> SUFFICES ASSUME NEW i \in Hosts
             PROVE  Coherent(registry'[i], active_rate'[i], sessions'[i])
  BY DEF RegistryMatchesSessions, Coherent, ConnectionsOf
<1>1. Coherent(registry[i], active_rate[i], sessions[i])  BY CoherentHosts
<1> QED  BY <1>1 DEF Types

LEMMA NextCoherent ==
  Types /\ RegistryMatchesSessions /\ [Next]_vars => RegistryMatchesSessions'
<1> SUFFICES ASSUME Types, RegistryMatchesSessions, [Next]_vars
             PROVE  RegistryMatchesSessions'
  OBVIOUS
<1>1. CASE UNCHANGED hostVars
  BY <1>1 DEF RegistryMatchesSessions, hostVars, ConnectionsOf
<1>2. ASSUME NEW h \in Hosts, ReapStopped(h)  PROVE RegistryMatchesSessions'
  BY <1>2, ReapIsCoherent, OneHostIsCoherent DEF ReapStopped, Reaped, ReapedFormat
<1>3. ASSUME NEW p \in Processes, NEW h \in Hosts, NEW c \in held[p][h], CloseLocal(p, h, c)
      PROVE  RegistryMatchesSessions'
  <2> DEFINE f == [s \in sessions[h] |-> [s EXCEPT !.signaled = @ \/ s.connection = c]]
  <2>1. \A s \in sessions[h] : f[s].connection = s.connection
    BY DEF Types, Sessions
  <2>2. sessions' = [sessions EXCEPT ![h] = {f[s] : s \in sessions[h]}]
    BY <1>3 DEF CloseLocal
  <2> HIDE DEF f
  <2>3. Coherent(registry[h], active_rate[h], {f[s] : s \in sessions[h]})
    BY <2>1, UpdateIsCoherent, CoherentHosts
  <2>4. /\ registry' = [registry EXCEPT ![h] = registry[h]]
        /\ active_rate' = [active_rate EXCEPT ![h] = active_rate[h]]
    BY <1>3 DEF CloseLocal, Types
  <2> QED  BY <2>2, <2>3, <2>4, OneHostIsCoherent
<1>4. ASSUME NEW p \in Processes, Connect(p)  PROVE RegistryMatchesSessions'
  <2> DEFINE h == request[p].host
             connection == ConnectionFor(p)
  <2>1. request[p] \in ConnectRequests
    BY <1>4 DEF Connect, Connecting, Types, ConnectionRequests
  <2>2. h \in Hosts /\ connection \in Connections
    BY <2>1 DEF ConnectionFor, Connections, ConnectRequests, Types
  <2>3. connection.rate = request[p].rate /\ connection.client = request[p].client
    BY DEF ConnectionFor
  <2>4. AdmitSession(p)  BY <1>4 DEF Connect
  <2>5. /\ \A c \in Reaped(h) : c.client # connection.client
        /\ ReapedFormat(h) \in {NoRate, connection.rate}
    BY <2>3, <2>4 DEF AdmitSession, Admits, Reaped, ReapedFormat
  <2>6. /\ registry' = [registry EXCEPT ![h] = Reaped(h) \union {connection}]
        /\ active_rate' = [active_rate EXCEPT ![h] = connection.rate]
        /\ sessions' = [sessions EXCEPT ![h] =
             Surviving(h) \union {NewSession(connection, request[p].graph)}]
    BY <2>3, <2>4 DEF AdmitSession, Reaped
  <2> HIDE DEF h, connection
  <2>7. Coherent(Reaped(h) \union {connection}, connection.rate,
                 Surviving(h) \union {NewSession(connection, request[p].graph)})
    BY <2>2, <2>5, ReapIsCoherent, AdmissionIsCoherent
  <2> QED  BY <2>2, <2>6, <2>7, OneHostIsCoherent
<1>5. ASSUME NEW p \in Processes, Disconnect(p)  PROVE RegistryMatchesSessions'
  <2> DEFINE h == request[p].host
             Meant(c) == /\ c.client = request[p].connection.client
                         /\ c.generation = request[p].connection.generation
             gone == {s \in sessions[h] : Meant(s.connection)}
             left == registry[h] \ ConnectionsOf(gone)
  <2>1. h \in Hosts
    BY <1>5 DEF Disconnect, Connecting, Types, ConnectionRequests, ConnectRequests
  <2>2. registry[h] = ConnectionsOf(sessions[h])  BY <2>1 DEF RegistryMatchesSessions
  <2>3. {c \in registry[h] : ~Meant(c)} = left
    BY <2>2 DEF ConnectionsOf
  <2>4. {s \in sessions[h] : ~Meant(s.connection)} = sessions[h] \ gone
    OBVIOUS
  <2>5. /\ registry' = [registry EXCEPT ![h] = left]
        /\ active_rate' = [active_rate EXCEPT ![h] = IF left = {} THEN NoRate ELSE active_rate[h]]
        /\ sessions' = [sessions EXCEPT ![h] = sessions[h] \ gone]
    BY <1>5, <2>3, <2>4 DEF Disconnect, RateOf
  <2>6. gone \in SUBSET sessions[h]  OBVIOUS
  <2> HIDE DEF h, gone
  <2>7. Coherent(left, IF left = {} THEN NoRate ELSE active_rate[h], sessions[h] \ gone)
    BY <2>1, <2>6, RemovalIsCoherent, CoherentHosts
  <2> QED  BY <2>1, <2>5, <2>7, OneHostIsCoherent
<1>6. ASSUME NEW h \in Hosts, NEW s \in sessions[h], SessionEnds(h, s)
      PROVE  RegistryMatchesSessions'
  <2> DEFINE f == [t \in sessions[h] |-> IF t = s THEN [s EXCEPT !.running = FALSE] ELSE t]
  <2>1. \A t \in sessions[h] : f[t].connection = t.connection
    BY DEF Types, Sessions
  <2>2. (sessions[h] \ {s}) \union {[s EXCEPT !.running = FALSE]} = {f[t] : t \in sessions[h]}
    OBVIOUS
  <2>3. sessions' = [sessions EXCEPT ![h] = {f[t] : t \in sessions[h]}]
    BY <1>6, <2>2 DEF SessionEnds
  <2> HIDE DEF f
  <2>4. Coherent(registry[h], active_rate[h], {f[t] : t \in sessions[h]})
    BY <2>1, UpdateIsCoherent, CoherentHosts
  <2>5. /\ registry' = [registry EXCEPT ![h] = registry[h]]
        /\ active_rate' = [active_rate EXCEPT ![h] = active_rate[h]]
    BY <1>6 DEF SessionEnds, Types
  <2> QED  BY <2>3, <2>4, <2>5, OneHostIsCoherent
<1>7. ASSUME NEW h \in Hosts, RefreshHost(h)  PROVE RegistryMatchesSessions'
  <2> DEFINE next == graph_generation[h] + 1
             f == [s \in Surviving(h) |-> [s EXCEPT !.graph = next]]
  <2>1. \A s \in Surviving(h) : f[s].connection = s.connection
    BY DEF Types, Sessions, Surviving
  <2>2. /\ sessions' = [sessions EXCEPT ![h] = {f[s] : s \in Surviving(h)}]
        /\ registry' = [registry EXCEPT ![h] = Reaped(h)]
        /\ active_rate' = [active_rate EXCEPT ![h] = ReapedFormat(h)]
    BY <1>7 DEF RefreshHost, Reaped, ReapedFormat
  <2> HIDE DEF f
  <2>3. Coherent(Reaped(h), ReapedFormat(h), {f[s] : s \in Surviving(h)})
    BY <2>1, UpdateIsCoherent, ReapIsCoherent
  <2> QED  BY <2>2, <2>3, OneHostIsCoherent
<1>8. CASE StopAll
  BY <1>8 DEF StopAll, RegistryMatchesSessions, ConnectionsOf
<1>9. ASSUME NEW p \in Processes, Daw(p)  PROVE RegistryMatchesSessions'
  BY <1>1, <1>3, <1>9 DEF Daw, QueryFormat, ProcessExits, OpenObjects, OpenFails, SendConnect,
     SendDisconnect
<1>10. ASSUME NEW p \in Processes, Broker(p)  PROVE RegistryMatchesSessions'
  <2>1. ASSUME Connecting(p, "admit")  PROVE request[p].host \in Hosts
    BY <2>1 DEF Connecting, Types, ConnectionRequests, ConnectRequests
  <2> QED
    BY <1>1, <1>2, <1>4, <1>5, <1>10, <2>1 DEF Broker, ReadGeneration, BuildGraph, RejectStale,
       RefuseAdmission, RollBackAdmission, CheckPeer
<1>11. ASSUME NEW h \in Hosts, Host(h)  PROVE RegistryMatchesSessions'
  BY <1>2, <1>6, <1>11 DEF Host, NoticeClientGone, WaitFails, Reap
<1>12. CASE Observer
  BY <1>1, <1>2, <1>7, <1>12 DEF Observer, BeginUpdate, RefuseRefresh, CommitUpdate
<1> QED
  BY <1>1, <1>8, <1>9, <1>10, <1>11, <1>12 DEF Next, vars

-----------------------------------------------------------------------------
(* What a step does to a host, as far as the remaining invariants care.    *)

\* Sessions keep their connections, but for one that a request adds.
LEMMA ConnectionsLeave ==
  ASSUME Types, RegistryMatchesSessions, [Next]_vars, NEW h \in Hosts,
         \A p \in Processes : Connect(p) => request[p].host # h
  PROVE  /\ ConnectionsOf(sessions'[h]) \subseteq ConnectionsOf(sessions[h])
         /\ registry'[h] \subseteq registry[h]
<1>1. RegistryMatchesSessions'  BY NextCoherent
<1>2. registry[h] = ConnectionsOf(sessions[h]) /\ registry'[h] = ConnectionsOf(sessions'[h])
  BY <1>1 DEF RegistryMatchesSessions, ConnectionsOf
<1> SUFFICES registry'[h] \subseteq registry[h]
  BY <1>2
<1> USE DEF Types
<1>3. CASE UNCHANGED registry  BY <1>3
<1>4. ASSUME NEW i \in Hosts, ReapStopped(i)  PROVE registry'[h] \subseteq registry[h]
  BY <1>4 DEF ReapStopped, Without
<1>5. ASSUME NEW p \in Processes, Connect(p)  PROVE registry'[h] \subseteq registry[h]
  BY <1>5 DEF Connect, AdmitSession
<1>6. ASSUME NEW p \in Processes, Disconnect(p)  PROVE registry'[h] \subseteq registry[h]
  BY <1>6 DEF Disconnect
<1>7. ASSUME NEW i \in Hosts, RefreshHost(i)  PROVE registry'[h] \subseteq registry[h]
  BY <1>7 DEF RefreshHost, Without
<1>8. CASE StopAll  BY <1>8 DEF StopAll
<1>9. ASSUME NEW p \in Processes, Daw(p)  PROVE UNCHANGED registry
  BY <1>9 DEF Daw, QueryFormat, ProcessExits, OpenObjects, OpenFails, SendConnect,
     SendDisconnect, CloseLocal, hostVars
<1>10. ASSUME NEW p \in Processes, Broker(p)  PROVE registry'[h] \subseteq registry[h]
  <2>1. ASSUME Connecting(p, "admit")  PROVE request[p].host \in Hosts
    BY <2>1 DEF Connecting, ConnectionRequests, ConnectRequests
  <2> HIDE DEF Types
  <2> QED
    BY <1>3, <1>4, <1>5, <1>6, <1>10, <2>1 DEF Broker, ReadGeneration, BuildGraph, RejectStale,
       RefuseAdmission, RollBackAdmission, CheckPeer, hostVars
<1> HIDE DEF Types
<1>11. ASSUME NEW i \in Hosts, Host(i)  PROVE registry'[h] \subseteq registry[h]
  BY <1>3, <1>4, <1>11 DEF Host, NoticeClientGone, WaitFails, Reap, SessionEnds
<1>12. CASE Observer
  BY <1>3, <1>4, <1>7, <1>12 DEF Observer, BeginUpdate, RefuseRefresh, CommitUpdate, hostVars
<1> QED
  BY <1>3, <1>8, <1>9, <1>10, <1>11, <1>12 DEF Next, vars, hostVars

-----------------------------------------------------------------------------
(* The limit on clients.                                                   *)

LEMMA FewerIsBounded ==
  ASSUME NEW clients, IsFiniteSet(clients), Cardinality(clients) <= MaxClients,
         NEW some \in SUBSET clients
  PROVE  IsFiniteSet(some) /\ Cardinality(some) <= MaxClients
<1>1. IsFiniteSet(some) /\ Cardinality(some) <= Cardinality(clients)  BY FS_Subset
<1>2. Cardinality(some) \in Nat /\ Cardinality(clients) \in Nat
  BY <1>1, FS_CardinalityType
<1> QED  BY <1>1, <1>2, VirtualAsioHostAssumption

LEMMA NextBounded ==
  Types /\ RegistryMatchesSessions /\ RegistryIsBounded /\ [Next]_vars => RegistryIsBounded'
<1> SUFFICES ASSUME Types, RegistryMatchesSessions, RegistryIsBounded, [Next]_vars,
                    NEW h \in Hosts
             PROVE  IsFiniteSet(registry'[h]) /\ Cardinality(registry'[h]) <= MaxClients
  BY DEF RegistryIsBounded
<1>1. IsFiniteSet(registry[h]) /\ Cardinality(registry[h]) <= MaxClients
  BY DEF RegistryIsBounded
<1>2. CASE \A p \in Processes : Connect(p) => request[p].host # h
  BY <1>1, <1>2, ConnectionsLeave, FewerIsBounded
<1>3. ASSUME NEW p \in Processes, Connect(p), request[p].host = h
      PROVE  IsFiniteSet(registry'[h]) /\ Cardinality(registry'[h]) <= MaxClients
  <2>1. registry'[h] = Reaped(h) \union {ConnectionFor(p)}
    BY <1>3 DEF Connect, AdmitSession, Reaped, Types
  <2>2. Cardinality(Reaped(h)) < MaxClients
    BY <1>3 DEF Connect, AdmitSession, Admits, Reaped
  <2>3. IsFiniteSet(Reaped(h))  BY <1>1, FewerIsBounded DEF Reaped, Without
  <2>4. Cardinality(Reaped(h)) \in Nat  BY <2>3, FS_CardinalityType
  <2>5. /\ IsFiniteSet(registry'[h])
        /\ Cardinality(registry'[h]) <= Cardinality(Reaped(h)) + 1
    <3> DEFINE R == Reaped(h)
    <3>1. /\ IsFiniteSet(R \union {ConnectionFor(p)})
          /\ \/ Cardinality(R \union {ConnectionFor(p)}) = Cardinality(R)
             \/ Cardinality(R \union {ConnectionFor(p)}) = Cardinality(R) + 1
      <4>1. IsFiniteSet(R)
        BY <2>3
      <4> HIDE DEF R
      <4> QED BY <4>1, FS_AddElement
    <3> QED BY <2>1, <2>4, <3>1
  <2>6. Cardinality(registry'[h]) \in Nat  BY <2>5, FS_CardinalityType
  <2> QED  BY <2>2, <2>4, <2>5, <2>6, VirtualAsioHostAssumption
<1> QED  BY <1>2, <1>3

-----------------------------------------------------------------------------
(* Graphs.                                                                 *)

\* The generation of a host's graphs only grows, and with a refresh every
\* session has one of the new generation.
LEMMA NextFresh ==
  Types /\ FreshGraphs /\ GraphsAreBetween /\ [Next]_vars => FreshGraphs'
<1> SUFFICES ASSUME Types, FreshGraphs, GraphsAreBetween, [Next]_vars  PROVE FreshGraphs'
  OBVIOUS
<1>1. CASE UNCHANGED <<sessions, graph_generation>>
  BY <1>1 DEF FreshGraphs
<1>2. ASSUME NEW h \in Hosts, ReapStopped(h), UNCHANGED graph_generation  PROVE FreshGraphs'
  BY <1>2 DEF FreshGraphs, ReapStopped, Surviving, Types
<1>3. ASSUME NEW p \in Processes, NEW h \in Hosts, NEW c \in held[p][h], CloseLocal(p, h, c)
      PROVE  FreshGraphs'
  <2>1. \A s \in sessions[h] : [s EXCEPT !.signaled = @ \/ s.connection = c].graph = s.graph
    BY DEF Types, Sessions
  <2> SUFFICES ASSUME NEW i \in Hosts, NEW t \in sessions'[i]
               PROVE  t.graph = graph_generation[i]
    BY <1>3 DEF CloseLocal, FreshGraphs
  <2>2. CASE i = h
    <3>1. PICK s \in sessions[h] : t = [s EXCEPT !.signaled = @ \/ s.connection = c]
      BY <1>3, <2>2 DEF CloseLocal, Types
    <3> QED  BY <2>1, <2>2, <3>1 DEF FreshGraphs
  <2>3. CASE i # h  BY <1>3, <2>3 DEF CloseLocal, FreshGraphs, Types
  <2> QED  BY <2>2, <2>3
<1>4. ASSUME NEW p \in Processes, Connect(p)  PROVE FreshGraphs'
  <2> DEFINE r == request[p]
  <2>1. r \in ConnectRequests
    BY <1>4 DEF Connect, Connecting, Types, ConnectionRequests
  <2>2. r.graph = graph_generation[r.host]
    <3>1. r.seen = graph_generation[r.host] /\ r.seen <= r.graph /\ r.graph <= graph_generation[r.host]
      BY <1>4 DEF Connect, GraphsAreBetween
    <3>2. r.host \in Hosts /\ r.seen \in Nat /\ r.graph \in Nat  BY <2>1 DEF ConnectRequests
    <3>3. graph_generation[r.host] \in Nat  BY <3>2 DEF Types
    <3> QED  BY <3>1, <3>2, <3>3
  <2>3. /\ sessions' = [sessions EXCEPT ![r.host] =
             Surviving(r.host) \union {NewSession(ConnectionFor(p), r.graph)}]
        /\ UNCHANGED graph_generation
    BY <1>4 DEF Connect, AdmitSession
  <2> QED  BY <2>2, <2>3 DEF FreshGraphs, Types, Surviving, NewSession
<1>5. ASSUME NEW p \in Processes, Disconnect(p)  PROVE FreshGraphs'
  BY <1>5 DEF Disconnect, FreshGraphs, Types
<1>6. ASSUME NEW h \in Hosts, NEW s \in sessions[h], SessionEnds(h, s)
      PROVE  FreshGraphs'
  <2>1. [s EXCEPT !.running = FALSE].graph = s.graph
    BY DEF Types, Sessions
  <2> QED  BY <1>6, <2>1 DEF SessionEnds, FreshGraphs, Types
<1>7. ASSUME NEW h \in Hosts, RefreshHost(h)  PROVE FreshGraphs'
  <2>1. \A s \in sessions[h] : [s EXCEPT !.graph = graph_generation[h] + 1].graph
                                  = graph_generation[h] + 1
    BY DEF Types, Sessions
  <2> SUFFICES ASSUME NEW i \in Hosts, NEW t \in sessions'[i]
               PROVE  t.graph = graph_generation'[i]
    BY DEF FreshGraphs
  <2>2. CASE i = h
    <3>1. PICK s \in Surviving(h) : t = [s EXCEPT !.graph = graph_generation[h] + 1]
      BY <1>7, <2>2 DEF RefreshHost, Types
    <3>2. graph_generation'[i] = graph_generation[h] + 1
      BY <1>7, <2>2 DEF RefreshHost, Types
    <3> QED  BY <2>1, <3>1, <3>2 DEF Surviving
  <2>3. CASE i # h  BY <1>7, <2>3 DEF RefreshHost, FreshGraphs, Types
  <2> QED  BY <2>2, <2>3
<1>8. CASE StopAll  BY <1>8 DEF StopAll, FreshGraphs
<1>9. ASSUME NEW p \in Processes, Daw(p)  PROVE FreshGraphs'
  BY <1>1, <1>3, <1>9 DEF Daw, QueryFormat, ProcessExits, OpenObjects, OpenFails, SendConnect,
     SendDisconnect, hostVars
<1>10. ASSUME NEW p \in Processes, Broker(p)  PROVE FreshGraphs'
  <2>1. ASSUME Connecting(p, "admit")  PROVE request[p].host \in Hosts
    BY <2>1 DEF Connecting, Types, ConnectionRequests, ConnectRequests
  <2> QED
    BY <1>1, <1>2, <1>4, <1>5, <1>10, <2>1 DEF Broker, ReadGeneration, BuildGraph, RejectStale,
       RefuseAdmission, RollBackAdmission, CheckPeer, hostVars
<1>11. ASSUME NEW h \in Hosts, Host(h)  PROVE FreshGraphs'
  BY <1>2, <1>6, <1>11 DEF Host, NoticeClientGone, WaitFails, Reap
<1>12. CASE Observer
  BY <1>1, <1>2, <1>7, <1>12 DEF Observer, BeginUpdate, RefuseRefresh, CommitUpdate, hostVars
<1> QED
  BY <1>1, <1>8, <1>9, <1>10, <1>11, <1>12 DEF Next, vars, hostVars

\* GraphsAreBetween, of one request.
Between(p) ==
  LET r == request[p] IN
    /\ Connecting(p, "build") => 0 < r.seen /\ r.seen <= graph_generation[r.host]
    /\ Connecting(p, "admit") =>
         0 < r.seen /\ r.seen <= r.graph /\ r.graph <= graph_generation[r.host]

\* A host's generation only grows.
LEMMA GenerationsGrow ==
  ASSUME Types, [Next]_vars
  PROVE  \A h \in Hosts : graph_generation[h] <= graph_generation'[h]
<1>1. CASE UNCHANGED graph_generation  BY <1>1 DEF Types
<1>2. ASSUME NEW h \in Hosts, RefreshHost(h)
      PROVE  \A i \in Hosts : graph_generation[i] <= graph_generation'[i]
  BY <1>2 DEF RefreshHost, Types
<1>3. ASSUME NEW p \in Processes, Daw(p)  PROVE UNCHANGED graph_generation
  BY <1>3 DEF Daw, QueryFormat, ProcessExits, OpenObjects, OpenFails, SendConnect,
     SendDisconnect, CloseLocal, hostVars
<1>4. ASSUME NEW p \in Processes, Broker(p)  PROVE UNCHANGED graph_generation
  BY <1>4 DEF Broker, ReadGeneration, BuildGraph, RejectStale, RefuseAdmission,
     RollBackAdmission, Connect, CheckPeer, Disconnect, hostVars
<1> QED
  BY <1>1, <1>2, <1>3, <1>4 DEF Next, Host, NoticeClientGone, WaitFails, SessionEnds, Reap,
     Observer, BeginUpdate, RefuseRefresh, CommitUpdate, StopAll, vars, hostVars

\* Only a process and the broker working for it move its request.
LEMMA OthersRequests ==
  ASSUME Types, [Next]_vars, NEW p \in Processes, ~Daw(p), ~Broker(p)
  PROVE  request'[p] = request[p]
<1>1. ASSUME NEW q \in Processes, q # p, Daw(q)  PROVE request'[p] = request[p]
  BY <1>1 DEF Types, Daw, QueryFormat, ProcessExits, OpenObjects, OpenFails, SendConnect,
     SendDisconnect, CloseLocal, Finished
<1>2. ASSUME NEW q \in Processes, q # p, Broker(q)  PROVE request'[p] = request[p]
  BY <1>2 DEF Types, Broker, ReadGeneration, BuildGraph, RejectStale, RefuseAdmission,
     RollBackAdmission, Connect, AdmitSession, CheckPeer, Disconnect, Finished
<1> QED
  BY <1>1, <1>2 DEF Next, Host, NoticeClientGone, WaitFails, SessionEnds, Reap, Observer,
     BeginUpdate, RefreshHost, RefuseRefresh, CommitUpdate, StopAll, vars, dawVars

LEMMA NextBetween ==
  Types /\ GraphsAreBetween /\ [Next]_vars => GraphsAreBetween'
<1> SUFFICES ASSUME Types, GraphsAreBetween, [Next]_vars, NEW p \in Processes
             PROVE  Between(p)'
  BY DEF GraphsAreBetween, Between
<1> DEFINE r == request[p]
           g == graph_generation[r.host]
<1>1. Between(p)  BY DEF GraphsAreBetween, Between
<1>2. ASSUME NEW step \in {"generation", "build", "admit"}, Connecting(p, step)
      PROVE  r \in ConnectRequests
  BY <1>2 DEF Connecting, Types, ConnectionRequests
<1>3. ASSUME request'[p] = request[p]  PROVE Between(p)'
  <2>1. ASSUME NEW step \in {"build", "admit"}, Connecting(p, step)
        PROVE  /\ r.host \in Hosts /\ r.seen \in Nat /\ r.graph \in Nat
               /\ g \in Nat /\ graph_generation'[r.host] \in Nat /\ g <= graph_generation'[r.host]
    <3>1. r \in ConnectRequests  BY <1>2, <2>1
    <3>2. Types'  BY NextTypes
    <3> QED  BY <3>1, <3>2, GenerationsGrow DEF ConnectRequests, Types
  <2> QED  BY <1>1, <1>3, <2>1 DEF Between, Connecting
<1>4. ASSUME \/ request'[p] = NoRequest
             \/ request'[p].step \in {"generation", "peer", "remove", "open"}
      PROVE  Between(p)'
  BY <1>4 DEF Between, Connecting
<1>5. CASE Daw(p)
  BY <1>3, <1>4, <1>5 DEF Types, Daw, QueryFormat, ProcessExits, OpenObjects, OpenFails,
     SendConnect, SendDisconnect, CloseLocal, Finished
<1>6. CASE ReadGeneration(p)
  <2>1. r \in ConnectRequests  BY <1>2, <1>6 DEF ReadGeneration
  <2>2. /\ request'[p].seen = g /\ request'[p].step = "build" /\ request'[p].host = r.host
        /\ graph_generation' = graph_generation
    BY <1>6, <2>1 DEF ReadGeneration, ConnectRequests, Types, hostVars
  <2>3. g \in Nat \ {0}  BY <2>1 DEF ConnectRequests, Types
  <2> QED  BY <2>2, <2>3 DEF Between, Connecting
<1>7. CASE BuildGraph(p)
  <2>1. r \in ConnectRequests  BY <1>2, <1>7 DEF BuildGraph
  <2>2. CASE Finished(p)  BY <1>4, <2>2 DEF Finished, Types
  <2>3. CASE ~Finished(p)
    <3>1. /\ request'[p].seen = r.seen /\ request'[p].graph = g
          /\ request'[p].step = "admit" /\ request'[p].host = r.host
          /\ graph_generation' = graph_generation
      BY <1>7, <2>1, <2>3 DEF BuildGraph, ConnectRequests, Types, hostVars
    <3>2. g \in Nat /\ 0 < r.seen /\ r.seen <= g
      BY <1>1, <1>7, <2>1 DEF BuildGraph, Between, ConnectRequests, Types
    <3> QED  BY <3>1, <3>2 DEF Between, Connecting
  <2> QED  BY <2>2, <2>3
<1>8. CASE RejectStale(p)
  <2>1. r \in ConnectRequests  BY <1>2, <1>8 DEF RejectStale
  <2> QED  BY <1>4, <1>8, <2>1 DEF RejectStale, Finished, Types, ConnectRequests
<1>9. CASE RefuseAdmission(p) \/ RollBackAdmission(p) \/ Disconnect(p)
  BY <1>4, <1>9 DEF RefuseAdmission, RollBackAdmission, Disconnect, Finished, Types
<1>10. CASE Connect(p)
  BY <1>4, <1>10 DEF Connect, AdmitSession, Finished, Types
<1>11. CASE CheckPeer(p)
  <2>1. r \in ConnectionRequests
    BY <1>11 DEF CheckPeer, Connecting, Types, ConnectRequests
  <2> QED  BY <1>4, <1>11, <2>1 DEF CheckPeer, Finished, Types, ConnectionRequests
<1>12. CASE ~Daw(p) /\ ~Broker(p)  BY <1>3, <1>12, OthersRequests
<1> QED
  BY <1>5, <1>6, <1>7, <1>8, <1>9, <1>10, <1>11, <1>12 DEF Broker

-----------------------------------------------------------------------------
(* Connections and their names.                                            *)

\* What a process comes to hold it asked for.
LEMMA HeldStep ==
  ASSUME Types, [Next]_vars, NEW p \in Processes, NEW h \in Hosts, NEW c \in held'[p][h]
  PROVE  \/ c \in held[p][h]
         \/ Means(p, h) /\ Connecting(p, "open") /\ c = request[p].connection
<1> USE DEF Types
<1>1. CASE UNCHANGED held  BY <1>1
<1>2. ASSUME NEW q \in Processes, OpenObjects(q)
      PROVE  \/ c \in held[p][h]
             \/ Means(p, h) /\ Connecting(p, "open") /\ c = request[p].connection
  <2>1. request[q] \in ConnectionRequests
    BY <1>2 DEF OpenObjects, Opening, ConnectRequests
  <2> QED  BY <1>2, <2>1 DEF OpenObjects, Opening, Means, Connecting, ConnectionRequests
<1>3. ASSUME NEW q \in Processes, ProcessExits(q)  PROVE c \in held[p][h]
  BY <1>3 DEF ProcessExits
<1>4. ASSUME NEW q \in Processes, NEW i \in Hosts, NEW d \in held[q][i], CloseLocal(q, i, d)
      PROVE  c \in held[p][h]
  BY <1>4 DEF CloseLocal
<1> HIDE DEF Types
<1>5. ASSUME NEW q \in Processes, Broker(q)  PROVE UNCHANGED held
  BY <1>5 DEF Broker, ReadGeneration, BuildGraph, RejectStale, RefuseAdmission,
     RollBackAdmission, Connect, CheckPeer, Disconnect
<1> QED
  BY <1>1, <1>2, <1>3, <1>4, <1>5 DEF Next, Daw, QueryFormat, SendConnect, SendDisconnect,
     OpenFails, Host, NoticeClientGone, WaitFails, SessionEnds, Reap, Observer, BeginUpdate,
     RefreshHost, RefuseRefresh, CommitUpdate, StopAll, vars, dawVars

\* Where the connection of a request comes from.
LEMMA RequestStep ==
  ASSUME Types, [Next]_vars, NEW p \in Processes, NEW h \in Hosts, Means(p, h)'
  PROVE  \/ request'[p] = request[p]
         \/ /\ request'[p].step = "peer"
            /\ \/ request'[p].connection \in held[p][h] \union registry[h]
               \/ Means(p, h) /\ request'[p].connection = request[p].connection
         \/ /\ Connect(p) /\ request[p].host = h
            /\ request'[p].step = "open" /\ request'[p].connection = ConnectionFor(p)
         \/ /\ Means(p, h) /\ UNCHANGED sessions
            /\ request'[p].step = "remove" /\ request'[p].connection = request[p].connection
            /\ \/ request[p].connection.process = p
               \/ request[p].connection \notin ConnectionsOf(sessions[h])
<1> USE DEF Types
<1>1. ASSUME NEW i \in Hosts, NEW c \in held[p][i] \union registry[i], SendDisconnect(p, i, c)
      PROVE  request'[p].step = "peer" /\ request'[p].connection \in held[p][h] \union registry[h]
  BY <1>1 DEF SendDisconnect, Means
<1>2. CASE OpenFails(p)
  <2>1. request[p] \in ConnectionRequests
    BY <1>2 DEF OpenFails, Opening, ConnectRequests
  <2> QED  BY <1>2, <2>1 DEF OpenFails, Opening, Finished, Means, ConnectionRequests
<1>3. CASE Connect(p)
  BY <1>3 DEF Connect, AdmitSession, Finished, Means
<1>4. CASE CheckPeer(p)
  <2>1. request[p] \in ConnectionRequests
    BY <1>4 DEF CheckPeer, Connecting, ConnectRequests
  <2> QED  BY <1>4, <2>1 DEF CheckPeer, Connecting, Finished, Means, ConnectionRequests, hostVars
<1>5. ASSUME NEW step \in {"generation", "build", "admit"}, Connecting(p, step)
      PROVE  request[p] \in ConnectRequests
  BY <1>5 DEF Connecting, ConnectionRequests
<1>6. CASE ReadGeneration(p) \/ BuildGraph(p) \/ RejectStale(p)
  <2>1. request[p] \in ConnectRequests
    BY <1>5, <1>6 DEF ReadGeneration, BuildGraph, RejectStale
  <2>2. request'[p] = NoRequest \/ request'[p].step \in {"generation", "build", "admit"}
    BY <1>6, <2>1 DEF ReadGeneration, BuildGraph, RejectStale, Finished, ConnectRequests
  <2> QED  BY <2>2 DEF Means
<1>7. CASE \/ RefuseAdmission(p) \/ RollBackAdmission(p) \/ Disconnect(p) \/ OpenObjects(p)
           \/ (ProcessExits(p) /\ Opening(p))
           \/ \E i \in Hosts, c \in ClientsOf[p] : SendConnect(p, i, c)
  <2>1. CASE RefuseAdmission(p) \/ RollBackAdmission(p) \/ Disconnect(p) \/ OpenObjects(p)
    BY <2>1 DEF RefuseAdmission, RollBackAdmission, Disconnect, OpenObjects, Finished, Means
  <2>2. CASE ProcessExits(p) /\ Opening(p)
    BY <2>2 DEF ProcessExits, Finished, Means
  <2>3. CASE \E i \in Hosts, c \in ClientsOf[p] : SendConnect(p, i, c)
    BY <2>3 DEF SendConnect, Means
  <2> QED BY <1>7, <2>1, <2>2, <2>3
<1> HIDE DEF Types
<1>8. CASE \/ QueryFormat(p) \/ (ProcessExits(p) /\ ~Opening(p))
           \/ \E i \in Hosts : \E c \in held[p][i] : CloseLocal(p, i, c)
  BY <1>8 DEF QueryFormat, ProcessExits, CloseLocal
<1>9. CASE ~Daw(p) /\ ~Broker(p)  BY <1>9, OthersRequests
<1>10. CASE Daw(p)
  <2>1. CASE \E i \in Hosts : \E c \in held[p][i] \union registry[i] : SendDisconnect(p, i, c)
    BY <1>1, <2>1
  <2>2. CASE \E i \in Hosts : \E c \in ClientsOf[p] : SendConnect(p, i, c)  BY <1>7, <2>2
  <2>3. CASE \E i \in Hosts : \E c \in held[p][i] : CloseLocal(p, i, c)  BY <1>8, <2>3
  <2>4. CASE QueryFormat(p)
    <3>1. request'[p] = request[p]  BY <2>4 DEF QueryFormat
    <3> QED  BY <3>1
  <2>5. CASE ProcessExits(p)  BY <1>7, <1>8, <2>5
  <2>6. CASE OpenObjects(p)  BY <1>7, <2>6
  <2> QED  BY <1>2, <1>10, <2>1, <2>2, <2>3, <2>4, <2>5, <2>6 DEF Daw
<1>11. CASE Broker(p)  BY <1>3, <1>4, <1>6, <1>7, <1>11 DEF Broker
<1> QED  BY <1>9, <1>10, <1>11

LEMMA IsNamed ==
  ASSUME NEW h \in Hosts, NEW c
  PROVE  c \in Named(h) <=>
           \/ c \in ConnectionsOf(sessions[h])
           \/ \E p \in Processes : c \in held[p][h]
           \/ \E p \in Processes : Means(p, h) /\ c = request[p].connection
<1>1. c \in UNION {held[p][h] : p \in Processes} <=> \E p \in Processes : c \in held[p][h]
  OBVIOUS
<1>2. c \in {request[p].connection : p \in {q \in Processes : Means(q, h)}}
        <=> \E p \in Processes : Means(p, h) /\ c = request[p].connection
  OBVIOUS
<1> DEFINE owned == UNION {held[p][h] : p \in Processes}
           asked == {request[p].connection : p \in {q \in Processes : Means(q, h)}}
<1>3. Named(h) = ConnectionsOf(sessions[h]) \union owned \union asked  BY DEF Named
<1>4. c \in owned <=> \E p \in Processes : c \in held[p][h]  BY <1>1
<1>5. c \in asked <=> \E p \in Processes : Means(p, h) /\ c = request[p].connection  BY <1>2
<1> HIDE DEF owned, asked
<1> QED  BY <1>3, <1>4, <1>5

\* A connection's name is new only when the connection is.
LEMMA NamedStep ==
  ASSUME Types, RegistryMatchesSessions, [Next]_vars, NEW h \in Hosts, NEW c \in Named(h)'
  PROVE  \/ c \in Named(h)
         \/ \E p \in Processes : Connect(p) /\ request[p].host = h /\ c = ConnectionFor(p)
<1>1. registry[h] = ConnectionsOf(sessions[h])  BY DEF RegistryMatchesSessions
<1>2. CASE c \in ConnectionsOf(sessions'[h])
  <2>1. CASE \A p \in Processes : Connect(p) => request[p].host # h
    BY <1>2, <2>1, ConnectionsLeave DEF Named
  <2>2. ASSUME NEW p \in Processes, Connect(p), request[p].host = h
        PROVE  c \in Named(h) \/ c = ConnectionFor(p)
    <3>1. sessions'[h] = Surviving(h) \union {NewSession(ConnectionFor(p), request[p].graph)}
      BY <2>2 DEF Connect, AdmitSession, Types
    <3>2. NewSession(ConnectionFor(p), request[p].graph).connection = ConnectionFor(p)
      BY DEF NewSession
    <3> QED  BY <1>2, <3>1, <3>2 DEF Named, ConnectionsOf, Surviving
  <2> QED  BY <2>1, <2>2
<1>3. ASSUME NEW p \in Processes, c \in held'[p][h]  PROVE c \in Named(h)
  BY <1>3, HeldStep, IsNamed
<1>4. ASSUME NEW p \in Processes, Means(p, h)', c = request'[p].connection
      PROVE  \/ c \in Named(h)
             \/ Connect(p) /\ request[p].host = h /\ c = ConnectionFor(p)
  <2>1. CASE request'[p] = request[p]
    BY <1>4, <2>1, IsNamed DEF Means
  <2>2. CASE request'[p] # request[p]
    BY <1>1, <1>4, <2>2, RequestStep, IsNamed
  <2> QED  BY <2>1, <2>2
<1>5. \/ c \in ConnectionsOf(sessions'[h])
      \/ \E p \in Processes : c \in held'[p][h]
      \/ \E p \in Processes : Means(p, h)' /\ c = request'[p].connection
  <2> DEFINE owned == UNION {held'[p][h] : p \in Processes}
             asked == {request'[p].connection : p \in {q \in Processes : Means(q, h)'}}
  <2>1. c \in owned <=> \E p \in Processes : c \in held'[p][h]
    OBVIOUS
  <2>2. c \in asked <=> \E p \in Processes : Means(p, h)' /\ c = request'[p].connection
    OBVIOUS
  <2>3. Named(h)' = ConnectionsOf(sessions'[h]) \union owned \union asked
    BY DEF Named, ConnectionsOf
  <2> HIDE DEF owned, asked
  <2> QED  BY <2>1, <2>2, <2>3
<1> QED  BY <1>2, <1>3, <1>4, <1>5

LEMMA NamedAreConnections ==
  ASSUME Types, NEW h \in Hosts
  PROVE  Named(h) \subseteq Connections
<1>1. ConnectionsOf(sessions[h]) \subseteq Connections  BY DEF Types, ConnectionsOf, Sessions
<1>2. ASSUME NEW p \in Processes, Means(p, h)  PROVE request[p].connection \in Connections
  BY <1>2 DEF Means, Types, ConnectRequests, ConnectionRequests
<1>3. \A p \in Processes : held[p][h] \subseteq Connections  BY DEF Types
<1> QED  BY <1>1, <1>2, <1>3, IsNamed

\* Connection generations are handed out in order.
LEMMA NumbersGrow ==
  ASSUME Types, [Next]_vars, NEW h \in Hosts
  PROVE  next_generation'[h] \in Nat /\ next_generation[h] <= next_generation'[h]
<1>1. CASE UNCHANGED next_generation  BY <1>1 DEF Types
<1>2. ASSUME NEW p \in Processes, RollBackAdmission(p) \/ Connect(p)
      PROVE  next_generation'[h] \in Nat /\ next_generation[h] <= next_generation'[h]
  BY <1>2 DEF RollBackAdmission, Connect, AdmitSession, Types
<1>3. ASSUME NEW p \in Processes, Daw(p)
      PROVE  next_generation'[h] \in Nat /\ next_generation[h] <= next_generation'[h]
  BY <1>1, <1>3 DEF Daw, QueryFormat, ProcessExits, OpenObjects, OpenFails, SendConnect,
     SendDisconnect, CloseLocal, hostVars
<1>4. ASSUME NEW p \in Processes, Broker(p)
      PROVE  next_generation'[h] \in Nat /\ next_generation[h] <= next_generation'[h]
  BY <1>1, <1>2, <1>4 DEF Broker, ReadGeneration, BuildGraph, RejectStale, RefuseAdmission,
     CheckPeer, Disconnect, hostVars
<1>5. CASE Observer \/ StopAll \/ UNCHANGED vars \/ \E i \in Hosts : Host(i)
  <2>1. UNCHANGED next_generation
    BY <1>5 DEF Host, NoticeClientGone, WaitFails, SessionEnds, Reap, Observer, BeginUpdate,
       RefreshHost, RefuseRefresh, CommitUpdate, StopAll, vars, hostVars
  <2> QED  BY <1>1, <2>1
<1> QED  BY <1>1, <1>3, <1>4, <1>5 DEF Next

LEMMA NextIdentify ==
  Types /\ RegistryMatchesSessions /\ GenerationsIdentify /\ [Next]_vars => GenerationsIdentify'
<1> SUFFICES ASSUME Types, RegistryMatchesSessions, GenerationsIdentify, [Next]_vars,
                    NEW h \in Hosts, NEW c \in Named(h)', NEW d \in Named(h)'
             PROVE  /\ c.generation < next_generation'[h]
                    /\ c.generation = d.generation => c = d
  BY DEF GenerationsIdentify
<1> DEFINE next == next_generation[h]
<1>1. next \in Nat /\ next_generation'[h] \in Nat /\ next <= next_generation'[h]
  BY NumbersGrow DEF Types
<1>2. \A e \in Named(h) : e.generation \in Nat /\ e.generation < next
  BY NamedAreConnections DEF GenerationsIdentify, Connections
<1>3. ASSUME NEW p \in Processes, Connect(p), request[p].host = h
      PROVE  /\ ConnectionFor(p).generation = next
             /\ next_generation'[h] = next + 1
  BY <1>3 DEF ConnectionFor, Connect, AdmitSession, Types
<1>4. ASSUME NEW p \in Processes, Connect(p), request[p].host = h,
             NEW q \in Processes, Connect(q), request[q].host = h
      PROVE  ConnectionFor(p) = ConnectionFor(q)
  <2>1. sessions'[h] = Surviving(h) \union {NewSession(ConnectionFor(p), request[p].graph)}
    BY <1>4 DEF Connect, AdmitSession, Types
  <2>2. sessions'[h] = Surviving(h) \union {NewSession(ConnectionFor(q), request[q].graph)}
    BY <1>4 DEF Connect, AdmitSession, Types
  <2>3. NewSession(ConnectionFor(p), request[p].graph) \notin Surviving(h)
    <3>1. \A s \in Surviving(h) : s.connection \in Named(h)
      BY IsNamed DEF Surviving, ConnectionsOf
    <3>2. ConnectionFor(p) \notin Named(h)  BY <1>1, <1>2, <1>3, <1>4
    <3> QED  BY <3>1, <3>2 DEF NewSession
  <2> QED  BY <2>1, <2>2, <2>3 DEF NewSession
<1>5. CASE c \in Named(h) /\ d \in Named(h)
  BY <1>1, <1>2, <1>5 DEF GenerationsIdentify
<1>6. ASSUME NEW p \in Processes, Connect(p), request[p].host = h, c = ConnectionFor(p)
      PROVE  c.generation < next_generation'[h] /\ (c.generation = d.generation => c = d)
  BY <1>1, <1>2, <1>3, <1>4, <1>6, NamedStep
<1>7. ASSUME c \in Named(h), NEW p \in Processes, Connect(p), request[p].host = h,
             d = ConnectionFor(p)
      PROVE  c.generation < next_generation'[h] /\ c.generation # d.generation
  BY <1>1, <1>2, <1>3, <1>7
<1> QED  BY <1>5, <1>6, <1>7, NamedStep

LEMMA NextOwn ==
  Types /\ RegistryMatchesSessions /\ GenerationsIdentify /\ RequestsAreOwn /\ [Next]_vars
    => RequestsAreOwn'
<1> SUFFICES ASSUME Types, RegistryMatchesSessions, GenerationsIdentify, RequestsAreOwn,
                    [Next]_vars, NEW p \in Processes, NEW h \in Hosts
             PROVE  /\ \A c \in held'[p][h] : c.process = p
                    /\ Means(p, h)' =>
                         LET c == request'[p].connection IN
                         /\ Connecting(p, "open")' => c.process = p
                         /\ Connecting(p, "remove")' =>
                              c.process = p \/ c \notin ConnectionsOf(sessions'[h])
  BY DEF RequestsAreOwn, ConnectionsOf
<1>1. \A c \in held'[p][h] : c.process = p
  BY HeldStep DEF RequestsAreOwn
<1>2. \A c \in Named(h) : c \in ConnectionsOf(sessions'[h]) => c \in ConnectionsOf(sessions[h])
  <2>1. CASE \A q \in Processes : Connect(q) => request[q].host # h
    BY <2>1, ConnectionsLeave
  <2>2. ASSUME NEW q \in Processes, Connect(q), request[q].host = h, NEW c \in Named(h)
        PROVE  c \in ConnectionsOf(sessions'[h]) => c \in ConnectionsOf(sessions[h])
    <3>1. sessions'[h] = Surviving(h) \union {NewSession(ConnectionFor(q), request[q].graph)}
      BY <2>2 DEF Connect, AdmitSession, Types
    <3>2. c # ConnectionFor(q)
      <4>1. c.generation \in Nat /\ c.generation < next_generation[h]
        BY NamedAreConnections DEF GenerationsIdentify, Connections
      <4>2. ConnectionFor(q).generation = next_generation[h]
        BY <2>2 DEF ConnectionFor
      <4>3. next_generation[h] \in Nat  BY DEF Types
      <4> QED  BY <4>1, <4>2, <4>3
    <3> QED  BY <3>1, <3>2 DEF ConnectionsOf, Surviving, NewSession
  <2> QED  BY <2>1, <2>2
<1>3. ASSUME Means(p, h)'
      PROVE  LET c == request'[p].connection IN
             /\ Connecting(p, "open")' => c.process = p
             /\ Connecting(p, "remove")' => c.process = p \/ c \notin ConnectionsOf(sessions'[h])
  <2>1. CASE request'[p] = request[p]
    <3>1. Means(p, h) /\ request[p].connection \in Named(h)
      BY <1>3, <2>1, IsNamed DEF Means
    <3> QED  BY <1>2, <2>1, <3>1 DEF RequestsAreOwn, Connecting
  <2>2. CASE request'[p].step = "peer"  BY <2>2 DEF Connecting
  <2>3. CASE /\ request'[p].step = "open" /\ request'[p].connection = ConnectionFor(p)
    BY <2>3 DEF Connecting, ConnectionFor
  <2>4. CASE /\ UNCHANGED sessions
             /\ request'[p].step = "remove" /\ request'[p].connection = request[p].connection
             /\ \/ request[p].connection.process = p
                \/ request[p].connection \notin ConnectionsOf(sessions[h])
    BY <2>4 DEF Connecting
  <2> QED  BY <1>3, <2>1, <2>2, <2>3, <2>4, RequestStep
<1> QED  BY <1>1, <1>3

-----------------------------------------------------------------------------
(* The theorems.                                                           *)

LEMMA InitHostInv == Init => HostInv
<1> SUFFICES ASSUME Init  PROVE HostInv
  OBVIOUS
<1>1. \A h \in Hosts : ConnectionsOf(sessions[h]) = {}  BY DEF Init, ConnectionsOf
<1>2. \A p \in Processes : request[p] = NoRequest /\ \A h \in Hosts : held[p][h] = {}
  BY DEF Init
<1>3. \A h \in Hosts : Named(h) = {}  BY <1>1, <1>2, IsNamed DEF Means
<1>4. RegistryMatchesSessions /\ FreshGraphs  BY <1>1 DEF Init, RegistryMatchesSessions, FreshGraphs
<1>5. GraphsAreBetween /\ RequestsAreOwn
  BY <1>2 DEF GraphsAreBetween, RequestsAreOwn, Connecting, Means
<1>6. GenerationsIdentify  BY <1>3 DEF GenerationsIdentify
<1> QED  BY <1>4, <1>5, <1>6, InitTypes DEF HostInv

LEMMA NextHostInv == HostInv /\ [Next]_vars => HostInv'
BY NextTypes, NextBounded, NextCoherent, NextFresh, NextBetween, NextIdentify, NextOwn DEF HostInv

\* The inductive invariant holds in every reachable state.
THEOREM HostInvariant == Spec => []HostInv
BY InitHostInv, NextHostInv, PTL DEF Spec

\* Whatever the devices, the processes and the client ids, every variable keeps
\* its type and no registry grows beyond maximum_clients.
THEOREM HostTypeOK == Spec => []TypeOK
<1>1. HostInv => TypeOK  BY DEF HostInv, Types, RegistryIsBounded, TypeOK
<1> QED  BY <1>1, HostInvariant, PTL

\* A host's registry and its sessions are always the same clients, each with
\* an id of its own, at the rate the registry holds: also when an admission is
\* rolled back, a session ends by itself, or a refresh is refused.
THEOREM RegistryIsSessions == Spec => []RegistryMatchesSessions
<1>1. HostInv => RegistryMatchesSessions  BY DEF HostInv
<1> QED  BY <1>1, HostInvariant, PTL

\* No session keeps a graph from before the last refresh of its host, although
\* the broker builds graphs with no lock held.
THEOREM GraphsAreFresh == Spec => []FreshGraphs
<1>1. HostInv => FreshGraphs  BY DEF HostInv
<1> QED  BY <1>1, HostInvariant, PTL

\* A step that removes no session by request leaves the running ones in place.
LEMMA RunningStay ==
  ASSUME Types, [Next]_vars, serving', \A p \in Processes : ~Disconnect(p),
         NEW h \in Hosts, NEW s \in sessions[h], s.running
  PROVE  s.connection \in ConnectionsOf(sessions'[h])
<1>1. CASE UNCHANGED sessions  BY <1>1 DEF ConnectionsOf
<1>2. s \in Surviving(h)  BY DEF Surviving, Stopped
<1>3. ASSUME NEW i \in Hosts, ReapStopped(i)  PROVE s \in sessions'[h]
  BY <1>2, <1>3 DEF ReapStopped, Types
<1>4. ASSUME NEW p \in Processes, Connect(p)  PROVE s \in sessions'[h]
  BY <1>2, <1>4 DEF Connect, AdmitSession, Types
<1>5. ASSUME NEW i \in Hosts, RefreshHost(i)  PROVE s.connection \in ConnectionsOf(sessions'[h])
  <2>1. CASE i = h
    <3>1. [s EXCEPT !.graph = graph_generation[h] + 1] \in sessions'[h]
      BY <1>2, <1>5, <2>1 DEF RefreshHost, Types
    <3>2. [s EXCEPT !.graph = graph_generation[h] + 1].connection = s.connection
      BY DEF Types, Sessions
    <3> QED  BY <3>1, <3>2 DEF ConnectionsOf
  <2>2. CASE i # h  BY <1>5, <2>2 DEF RefreshHost, Types, ConnectionsOf
  <2> QED  BY <2>1, <2>2
<1>6. ASSUME NEW p \in Processes, NEW i \in Hosts, NEW c \in held[p][i], CloseLocal(p, i, c)
      PROVE  s.connection \in ConnectionsOf(sessions'[h])
  <2>1. CASE i = h
    <3>1. [s EXCEPT !.signaled = @ \/ s.connection = c] \in sessions'[h]
      BY <1>6, <2>1 DEF CloseLocal, Types
    <3>2. [s EXCEPT !.signaled = @ \/ s.connection = c].connection = s.connection
      BY DEF Types, Sessions
    <3> QED  BY <3>1, <3>2 DEF ConnectionsOf
  <2>2. CASE i # h  BY <1>6, <2>2 DEF CloseLocal, Types, ConnectionsOf
  <2> QED  BY <2>1, <2>2
<1>7. ASSUME NEW i \in Hosts, NEW t \in sessions[i], SessionEnds(i, t)
      PROVE  s.connection \in ConnectionsOf(sessions'[h])
  <2>1. CASE i = h /\ t = s
    <3>1. [s EXCEPT !.running = FALSE] \in sessions'[h]
      BY <1>7, <2>1 DEF SessionEnds, Types
    <3>2. [s EXCEPT !.running = FALSE].connection = s.connection
      BY DEF Types, Sessions
    <3> QED  BY <3>1, <3>2 DEF ConnectionsOf
  <2>2. CASE ~(i = h /\ t = s)  BY <1>7, <2>2 DEF SessionEnds, Types, ConnectionsOf
  <2> QED  BY <2>1, <2>2
<1>8. ASSUME NEW p \in Processes, Daw(p)  PROVE s.connection \in ConnectionsOf(sessions'[h])
  BY <1>1, <1>6, <1>8 DEF Daw, QueryFormat, ProcessExits, OpenObjects, OpenFails, SendConnect,
     SendDisconnect, hostVars
<1>9. s \in sessions'[h] => s.connection \in ConnectionsOf(sessions'[h])  BY DEF ConnectionsOf
<1>10. ASSUME NEW p \in Processes, Broker(p)  PROVE s.connection \in ConnectionsOf(sessions'[h])
  <2>1. ASSUME Connecting(p, "admit")  PROVE request[p].host \in Hosts
    BY <2>1 DEF Connecting, Types, ConnectionRequests, ConnectRequests
  <2> QED
    BY <1>1, <1>3, <1>4, <1>9, <1>10, <2>1 DEF Broker, ReadGeneration, BuildGraph, RejectStale,
       RefuseAdmission, RollBackAdmission, CheckPeer, hostVars
<1>11. ASSUME NEW i \in Hosts, Host(i)  PROVE s.connection \in ConnectionsOf(sessions'[h])
  BY <1>3, <1>7, <1>9, <1>11 DEF Host, NoticeClientGone, WaitFails, Reap
<1>12. CASE Observer
  BY <1>1, <1>3, <1>5, <1>9, <1>12 DEF Observer, BeginUpdate, RefuseRefresh, CommitUpdate, hostVars
<1>13. ~StopAll  BY DEF StopAll
<1> QED
  BY <1>1, <1>8, <1>10, <1>11, <1>12, <1>13 DEF Next, vars, hostVars

\* While the engine serves, a running session goes only by a disconnection its
\* own process asked for, of that very connection, although the disconnection
\* looks it up by client id and connection generation, after a check of the
\* peer made before the host's lock.
THEOREM DisconnectionIsOwn == Spec => OnlyOwnDisconnection
<1>1. ASSUME HostInv, [Next]_vars, serving', NEW h \in Hosts, NEW s \in sessions[h], s.running,
             s.connection \notin ConnectionsOf(sessions'[h])
      PROVE  /\ Connecting(s.connection.process, "remove")
             /\ request[s.connection.process].connection = s.connection
  <2> USE DEF HostInv
  <2>1. PICK p \in Processes : Disconnect(p)  BY <1>1, RunningStay
  <2>2. request[p] \in ConnectionRequests /\ Connecting(p, "remove") /\ request[p] # NoRequest
    BY <1>1, <2>1 DEF Disconnect, Connecting, Types, ConnectRequests
  <2> DEFINE c == request[p].connection
  <2>3. request[p].host = h /\ s.connection.client = c.client /\ s.connection.generation = c.generation
    <3>1. sessions' = [sessions EXCEPT ![request[p].host] =
            {t \in @ : ~(/\ t.connection.client = c.client
                        /\ t.connection.generation = c.generation)}]
      BY <2>1 DEF Disconnect
    <3>2. s \notin sessions'[h]  BY <1>1 DEF ConnectionsOf
    <3> QED  BY <1>1, <3>1, <3>2 DEF Types
  <2>4. Means(p, h)  BY <2>2, <2>3 DEF Means, ConnectionRequests
  <2>5. c \in Named(h) /\ s.connection \in Named(h) /\ s.connection \in ConnectionsOf(sessions[h])
    BY <2>4, IsNamed DEF ConnectionsOf
  <2>6. c = s.connection  BY <1>1, <2>3, <2>5 DEF GenerationsIdentify
  <2>7. c.process = p  BY <1>1, <2>2, <2>4, <2>5, <2>6 DEF RequestsAreOwn
  <2> QED  BY <2>2, <2>6, <2>7
<1>2. HostInv /\ [Next]_vars =>
        [\A h \in Hosts : \A s \in sessions[h] :
           serving' /\ s.running /\ s.connection \notin ConnectionsOf(sessions'[h]) =>
             /\ Connecting(s.connection.process, "remove")
             /\ request[s.connection.process].connection = s.connection]_vars
  BY <1>1
<1> QED  BY <1>2, HostInvariant, PTL DEF Spec, OnlyOwnDisconnection
=============================================================================
