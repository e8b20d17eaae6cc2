------------------------- MODULE SharedMemoryLayout -------------------------
(***************************************************************************)
(* core/platform/virtual_asio_shared_memory_layout.cpp: where in a shared  *)
(* mapping the header, the control words and the block slots of the two    *)
(* queues are, which sizes are refused, and which header the other process *)
(* accepts.  A queue of a direction without channels is not there.         *)
(***************************************************************************)
EXTENDS Integers

CONSTANTS MaxChannels, MaxFrames, MaxCapacity, MaxBytes,  \* kVirtualAsioMax...
          MaxUint32, MaxUint64,
          Prefix       \* the fixed fields: magic, sizes, protocol, sample format

HeaderBytes == 256
ControlBytes == 128
BlockHeaderBytes == 64
SampleBytes == 4
Alignment == 64

Aligned(bytes) == ((bytes + Alignment - 1) \div Alignment) * Alignment

\* The largest queue there can be, and what comes before or after it.
LargestQueue ==
  ControlBytes
    + (BlockHeaderBytes + MaxChannels * MaxFrames * SampleBytes + Alignment) * MaxCapacity

ASSUME LayoutAssumption ==
  /\ MaxChannels \in Nat /\ MaxFrames \in Nat /\ MaxCapacity \in Nat
  /\ MaxBytes \in Nat /\ MaxUint32 \in Nat /\ MaxUint64 \in Nat
  /\ MaxChannels * MaxFrames <= MaxUint32
  /\ HeaderBytes + 2 * LargestQueue + Alignment <= MaxUint64

Directions == {"input", "output"}

Configs == [rate : Nat, frames : Nat, channels : [Directions -> Nat], capacity : Nat]

\* A pair of nonces that are both zero is 0.
Identities == [generation : Nat, owner : Nat, client : Nat, nonces : [{"server", "client"} -> Nat]]

ValidFormat(c) ==
  /\ c.rate > 0
  /\ c.frames \in 1 .. MaxFrames
  /\ \E d \in Directions : c.channels[d] > 0
  /\ \A d \in Directions : c.channels[d] <= MaxChannels

ValidIdentity(i) ==
  /\ i.generation > 0 /\ i.owner > 0 /\ i.client > 0
  /\ i.nonces["server"] > 0 /\ i.nonces["client"] > 0

-----------------------------------------------------------------------------
(* build_queue(): the control words, then the slots. *)

BlockBytes(c, d) == BlockHeaderBytes + c.channels[d] * c.frames * SampleBytes

Queue(c, d, start) ==
  IF c.channels[d] = 0
  THEN [control |-> 0, slots |-> 0, stride |-> 0, end |-> start]
  ELSE [control |-> start,
        slots   |-> start + ControlBytes,
        stride  |-> Aligned(BlockBytes(c, d)),
        end     |-> start + ControlBytes + Aligned(BlockBytes(c, d)) * c.capacity]

\* No step of its arithmetic leaves its width.
QueueFits(c, d, start) ==
  c.channels[d] > 0 =>
    /\ c.channels[d] * c.frames <= MaxUint32
    /\ BlockBytes(c, d) + Alignment - 1 <= MaxUint64
    /\ Aligned(BlockBytes(c, d)) * c.capacity <= MaxUint64
    /\ Queue(c, d, start).end <= MaxUint64

Start(c, d) ==
  IF d = "input" THEN HeaderBytes ELSE Queue(c, "input", HeaderBytes).end

QueueOf(c, d) == Queue(c, d, Start(c, d))

TotalBytes(c) == Aligned(QueueOf(c, "output").end)

-----------------------------------------------------------------------------
(* calculate_...() and validate_...() *)

Accepts(c, i) ==
  /\ ValidFormat(c)
  /\ c.capacity \in 1 .. MaxCapacity
  /\ ValidIdentity(i)
  /\ \A d \in Directions : QueueFits(c, d, Start(c, d))
  /\ QueueOf(c, "output").end + Alignment - 1 <= MaxUint64
  /\ TotalBytes(c) <= MaxBytes

Offsets(q) == [control |-> q.control, slots |-> q.slots, stride |-> q.stride]

\* What the engine writes at the start of the mapping, but for its state.
Header(c, i) ==
  [prefix |-> Prefix, config |-> c, identity |-> i,
   offsets |-> [d \in Directions |-> Offsets(QueueOf(c, d))],
   total |-> TotalBytes(c)]

\* The driver calculates it again from the fields, and compares.
Validates(h, mapped) ==
  /\ h.prefix = Prefix
  /\ Accepts(h.config, h.identity)
  /\ h = Header(h.config, h.identity)
  /\ h.total <= mapped

-----------------------------------------------------------------------------
(* What the parts of a mapping are: of each queue the control words and the *)
(* slots, of which slot() gives position p the one at p modulo the capacity.*)

Parts(c) ==
  {[of |-> "header", at |-> 0]}
    \union [of : {d \in Directions : c.channels[d] > 0}, at : 0 .. c.capacity]

SlotOffset(q, slot) == q.slots + slot * q.stride

From(c, part) ==
  IF part.of = "header" THEN 0
  ELSE IF part.at = 0 THEN QueueOf(c, part.of).control
  ELSE SlotOffset(QueueOf(c, part.of), part.at - 1)

To(c, part) ==
  From(c, part) + (IF part.of = "header" THEN HeaderBytes
                   ELSE IF part.at = 0 THEN ControlBytes
                   ELSE BlockBytes(c, part.of))

\* No byte belongs to two parts, and none is outside the mapping.
PartsAreApart(c) ==
  /\ \A p, q \in Parts(c) : p # q => To(c, p) <= From(c, q) \/ To(c, q) <= From(c, p)
  /\ \A p \in Parts(c) : To(c, p) <= TotalBytes(c)

\* The words both processes access with interlocked operations begin on a line
\* of their own.
PartsAreAligned(c) == \A p \in Parts(c) : From(c, p) % Alignment = 0
=============================================================================
