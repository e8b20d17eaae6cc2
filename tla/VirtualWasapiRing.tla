------------------------- MODULE VirtualWasapiRing --------------------------
(***************************************************************************)
(* The packet ring of the Virtual WASAPI transport, in memory a producer   *)
(* and the engine both map, and the source that reads it for the graph     *)
(* (virtual_wasapi_transport_ring.h, virtual_wasapi_ring_audio_source.h).  *)
(* A packet has up to a slot of frames, a graph block as many as it wants: *)
(* the source keeps the rest of a packet for the next block. Copies are    *)
(* made beside the other side's, so push() and pop() take two steps each.  *)
(*                                                                         *)
(* A sample is the packet it belongs to. Sequences are 64 bits wide and do *)
(* not wrap; the counters decide nothing and are left out, as are packets  *)
(* push() refuses for their arguments.                                     *)
(***************************************************************************)
EXTENDS Integers

CONSTANTS SlotCount, FramesPerSlot,   \* of the mapping's header
          BlockFrames,                \* of a destination
          MaxSequence                 \* bound on the packets pushed

RingConstants ==
  /\ {SlotCount, FramesPerSlot, BlockFrames} \subseteq Nat \ {0}
  /\ MaxSequence \in Nat

VARIABLES producer_sequence, consumer_sequence,
          slots,          \* headers and samples
          pushing,        \* frames and flag of the packet being copied in
          popping,        \* the slot header being copied out
          packet,         \* packet_, packet_frames_ : the last packet popped
          packet_offset,  \* packet_offset_
          wanted,         \* frames the destination still lacks
          heard           \* the last frame delivered

producerVars == <<producer_sequence, slots, pushing>>
consumerVars == <<consumer_sequence, popping, packet, packet_offset, wanted, heard>>
ringVars == <<producerVars, consumerVars>>

\* A mapping is zeroed; a slot that is being written is no better.
Unwritten == [sequence |-> 0, frames |-> 0, silent |-> FALSE, samples |-> 0]

NoPush == [frames |-> 0, silent |-> FALSE]

RingInit ==
  /\ producer_sequence = 0 /\ consumer_sequence = 0
  /\ slots = [index \in 0 .. SlotCount - 1 |-> Unwritten]
  /\ pushing = NoPush
  /\ popping = Unwritten
  /\ packet = [of |-> 0, frames |-> 0]
  /\ packet_offset = 0
  /\ wanted = 0
  /\ heard = [of |-> 0, frame |-> 0, frames |-> 0]

Slot(sequence) == sequence % SlotCount

Fill == producer_sequence - consumer_sequence

-----------------------------------------------------------------------------
(* The producer                                                            *)

\* push() up to the samples. A full ring refuses the packet: nothing changes.
BeginPush ==
  /\ pushing = NoPush
  /\ Fill < SlotCount
  /\ producer_sequence < MaxSequence
  /\ pushing' \in [frames : 1 .. FramesPerSlot, silent : BOOLEAN]
  /\ slots' = [slots EXCEPT ![Slot(producer_sequence)] = Unwritten]
  /\ UNCHANGED <<producer_sequence, consumerVars>>

\* The header is written, then the sequence. A silent packet has no samples.
FinishPush ==
  /\ pushing # NoPush
  /\ slots' = [slots EXCEPT ![Slot(producer_sequence)] =
                 [sequence |-> producer_sequence + 1,
                  frames   |-> pushing.frames,
                  silent   |-> pushing.silent,
                  samples  |-> IF pushing.silent THEN 0 ELSE producer_sequence + 1]]
  /\ producer_sequence' = producer_sequence + 1
  /\ pushing' = NoPush
  /\ UNCHANGED consumerVars

-----------------------------------------------------------------------------
(* The source                                                              *)

PacketIsUsed == packet_offset = packet.frames

\* read() is called for a block.
BeginRead ==
  /\ wanted = 0
  /\ wanted' = BlockFrames
  /\ UNCHANGED <<producerVars, consumer_sequence, popping, packet, packet_offset, heard>>

WellFormed(slot) ==
  /\ slot.sequence = consumer_sequence + 1
  /\ slot.frames \in 1 .. FramesPerSlot

\* pop() up to the samples of a packet it accepts.
BeginPop ==
  /\ wanted > 0 /\ PacketIsUsed /\ popping = Unwritten
  /\ Fill > 0
  /\ WellFormed(slots[Slot(consumer_sequence)])
  /\ popping' = slots[Slot(consumer_sequence)]
  /\ UNCHANGED <<producerVars, consumer_sequence, packet, packet_offset, wanted, heard>>

\* pop() skips a malformed slot, and the block ends short.
SkipMalformed ==
  /\ wanted > 0 /\ PacketIsUsed /\ popping = Unwritten
  /\ Fill > 0
  /\ ~WellFormed(slots[Slot(consumer_sequence)])
  /\ consumer_sequence' = consumer_sequence + 1
  /\ wanted' = 0
  /\ UNCHANGED <<producerVars, popping, packet, packet_offset, heard>>

\* The ring is empty: the block ends short, the rest of it silent.
ReadShort ==
  /\ wanted > 0 /\ PacketIsUsed /\ popping = Unwritten
  /\ Fill = 0
  /\ wanted' = 0
  /\ UNCHANGED <<producerVars, consumer_sequence, popping, packet, packet_offset, heard>>

\* The samples are copied, as they are now, and the slot is given back.
FinishPop ==
  /\ popping # Unwritten
  /\ packet' = [of     |-> IF popping.silent THEN popping.sequence
                           ELSE slots[Slot(consumer_sequence)].samples,
                frames |-> popping.frames]
  /\ packet_offset' = 0
  /\ consumer_sequence' = consumer_sequence + 1
  /\ popping' = Unwritten
  /\ UNCHANGED <<producerVars, wanted, heard>>

\* A frame of the packet goes into the destination.
CopyFrame ==
  /\ wanted > 0 /\ ~PacketIsUsed
  /\ packet_offset' = packet_offset + 1
  /\ wanted' = wanted - 1
  /\ heard' = [of |-> packet.of, frame |-> packet_offset + 1, frames |-> packet.frames]
  /\ UNCHANGED <<producerVars, consumer_sequence, popping, packet>>

RingNext == \/ BeginPush \/ FinishPush
            \/ BeginRead \/ BeginPop \/ SkipMalformed \/ FinishPop \/ CopyFrame \/ ReadShort

RingSpec == RingInit /\ [][RingNext]_ringVars

-----------------------------------------------------------------------------

\* Slots, sequences and the source's packet keep their types.
RingTypeOK ==
  /\ producer_sequence \in Nat /\ consumer_sequence \in Nat
  /\ slots \in [0 .. SlotCount - 1 ->
                  [sequence : Nat, frames : 0 .. FramesPerSlot, silent : BOOLEAN, samples : Nat]]
  /\ pushing = NoPush \/ pushing \in [frames : 1 .. FramesPerSlot, silent : BOOLEAN]
  /\ packet \in [of : Nat, frames : 0 .. FramesPerSlot]
  /\ packet_offset \in 0 .. packet.frames
  /\ wanted \in 0 .. BlockFrames
  /\ heard \in [of : Nat, frame : Nat, frames : Nat]

\* The slot of a published packet.
Holds(slot, sequence) ==
  /\ slot.sequence = sequence + 1
  /\ slot.frames > 0
  /\ slot.silent \/ slot.samples = sequence + 1

\* The two sides are never in one slot: every published packet is whole until it
\* is given back, so that none is ever skipped as malformed.
PacketsAreWhole ==
  /\ Fill \in 0 .. SlotCount
  /\ pushing # NoPush => Fill < SlotCount
  /\ \A sequence \in consumer_sequence .. producer_sequence - 1 :
       Holds(slots[Slot(sequence)], sequence)
  /\ popping # Unwritten =>
       Fill > 0 /\ PacketIsUsed /\ popping = slots[Slot(consumer_sequence)]

\* The cursor is at the frame after the last one heard.
CursorFollows ==
  /\ packet.of = consumer_sequence
  /\ packet.of > 0 => packet.frames > 0
  /\ IF packet_offset = 0 /\ packet.of > 0
     THEN heard.of = packet.of - 1 /\ heard.frame = heard.frames
     ELSE heard = [of |-> packet.of, frame |-> packet_offset, frames |-> packet.frames]

\* Whatever the sizes of packets and blocks, and wherever a block ended short, the
\* graph hears every frame of every accepted packet once and in order.
EveryFrameInOrder ==
  [][\/ heard' = heard
     \/ heard'.of = heard.of /\ heard'.frame = heard.frame + 1
     \/ heard.frame = heard.frames /\ heard'.of = heard.of + 1 /\ heard'.frame = 1]_ringVars
=============================================================================
