---------------------------- MODULE SharedQueue -----------------------------
(***************************************************************************)
(* WindowsVirtualAsioSharedQueue: a ring of block slots in memory that two *)
(* processes map, with one producer and one consumer. Each side owns one   *)
(* 64-bit position and only reads the other's; there is no lock. A block   *)
(* is copied sample by sample, so pushing and popping take two steps each: *)
(* what the other side does in between falls on a half-written slot.       *)
(*                                                                         *)
(* Positions count blocks and do not wrap in 2^64 pushes. The statistics   *)
(* of the control block (produced, consumed, overrun, underrun,            *)
(* discontinuities) decide nothing and are left out.                       *)
(***************************************************************************)
EXTENDS Integers, Sequences

CONSTANTS Capacity,    \* queue_capacity_blocks
          Blocks,      \* headers and samples a producer may write
          WellFormed,  \* of this connection's generation, with the agreed frames
          Silence,     \* a cleared destination
          NoBlock,     \* no copy is under way
          Torn,        \* a slot that is being written
          MaxPosition  \* bound on the blocks pushed

ASSUME CapacityIsPositive == Capacity \in Nat \ {0}
ASSUME BlocksAreBlocks ==
  /\ WellFormed \subseteq Blocks
  /\ {Silence, NoBlock, Torn} \cap Blocks = {}

VARIABLES ready,           \* VirtualAsioSharedMemoryState::Ready
          write_position,  \* next position to write; the producer's
          read_position,   \* next position to read; the consumer's
          slots,           \* the ring
          writing,         \* the block the producer is copying in
          reading,         \* the block the consumer has found and is copying out
          destination      \* the consumer's buffer after its last pop

producerVars == <<write_position, slots, writing>>
consumerVars == <<read_position, reading, destination>>
queueVars == <<ready, producerVars, consumerVars>>

QueueInit ==
  /\ ready = TRUE
  /\ write_position = 0
  /\ read_position = 0
  /\ slots = [index \in 0 .. Capacity - 1 |-> Torn]
  /\ writing = NoBlock
  /\ reading = NoBlock
  /\ destination = Silence

Slot(position) == position % Capacity

Fill == write_position - read_position

\* Fault: a full queue is found full one block too late.
FaultBeginPush(block) ==
  /\ ready
  /\ writing = NoBlock
  /\ Fill <= Capacity
  /\ write_position < MaxPosition
  /\ writing' = block
  /\ slots' = [slots EXCEPT ![Slot(write_position)] = Torn]
  /\ UNCHANGED <<ready, write_position, consumerVars>>

\* push() up to the first sample it writes.
BeginPush(block) ==
  /\ ready
  /\ writing = NoBlock
  /\ Fill < Capacity
  /\ write_position < MaxPosition
  /\ writing' = block
  /\ slots' = [slots EXCEPT ![Slot(write_position)] = Torn]
  /\ UNCHANGED <<ready, write_position, consumerVars>>

\* push() answers Full: the block is the caller's to drop.
PushIsFull == ready /\ writing = NoBlock /\ Fill = Capacity

\* Fault: the position is published before the header is written.
FaultFinishPush ==
  /\ writing # NoBlock
  /\ write_position' = write_position + 1
  /\ writing' = NoBlock
  /\ UNCHANGED <<ready, slots, consumerVars>>

\* The header is written, then the position: the state is not looked at again.
FinishPush ==
  /\ writing # NoBlock
  /\ slots' = [slots EXCEPT ![Slot(write_position)] = writing]
  /\ write_position' = write_position + 1
  /\ writing' = NoBlock
  /\ UNCHANGED <<ready, consumerVars>>

\* pop() up to the header of the block it finds.
BeginPop ==
  /\ ready
  /\ reading = NoBlock
  /\ Fill > 0
  /\ reading' = slots[Slot(read_position)]
  /\ UNCHANGED <<ready, producerVars, read_position, destination>>

\* The samples are copied, unless the header was not well-formed; a slot that
\* changed since the header was read leaves a mixture of two blocks.
FinishPop ==
  /\ reading # NoBlock
  /\ destination' = IF reading \notin WellFormed THEN Silence
                    ELSE IF slots[Slot(read_position)] = reading THEN reading
                    ELSE Torn
  /\ read_position' = read_position + 1
  /\ reading' = NoBlock
  /\ UNCHANGED <<ready, producerVars>>

\* pop() answers Empty or NotReady and clears the destination.
PopNothing ==
  /\ reading = NoBlock
  /\ ~ready \/ Fill = 0
  /\ destination' = Silence
  /\ UNCHANGED <<ready, producerVars, read_position, reading>>

\* Either side leaves Ready; a copy that has begun goes on.
Close ==
  /\ ready
  /\ ready' = FALSE
  /\ UNCHANGED <<producerVars, consumerVars>>

QueueNext ==
  \/ \E block \in Blocks : BeginPush(block)
  \/ FinishPush
  \/ BeginPop
  \/ FinishPop
  \/ PopNothing
  \/ Close

QueueSpec == QueueInit /\ [][QueueNext]_queueVars

-----------------------------------------------------------------------------

\* Slots and positions keep their types; a torn slot is never looked at, nor heard.
QueueTypeOK ==
  /\ ready \in BOOLEAN
  /\ write_position \in Nat
  /\ read_position \in Nat
  /\ slots \in [0 .. Capacity - 1 -> Blocks \cup {Torn}]
  /\ writing \in Blocks \cup {NoBlock}
  /\ reading \in Blocks \cup {NoBlock}
  /\ destination \in Blocks \cup {Silence}

\* The two sides are never in one slot: the producer writes outside the
\* published span, every published slot is whole, and the block the consumer is
\* copying stays what its header said.
SlotOwnership ==
  /\ Fill \in 0 .. Capacity
  /\ writing # NoBlock => Fill < Capacity
  /\ \A position \in read_position .. write_position - 1 :
       slots[Slot(position)] \in Blocks
  /\ reading # NoBlock => Fill > 0 /\ slots[Slot(read_position)] = reading

\* The blocks in the published span, oldest first.
Published == [i \in 1 .. Fill |-> slots[Slot(read_position + i - 1)]]

Channel == INSTANCE BlockChannel WITH queue <- Published, open <- ready

\* The ring is a first-in first-out queue of Capacity blocks: for any
\* interleaving of the two copies nothing is heard twice, out of order, in
\* pieces, or not at all once it was accepted, and a malformed block goes by
\* as silence without blocking those behind it.
ImplementsChannel == Channel!Spec
=============================================================================
