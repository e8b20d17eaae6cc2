------------------------ MODULE VirtualWasapiLayout -------------------------
(***************************************************************************)
(* virtual_wasapi_transport_layout.cpp: where in a mapping the header, the *)
(* state of the ring, the slot headers and the samples are, which formats  *)
(* are refused, and which header a side accepts that attaches to a mapping *)
(* the other has made. The widths of the arithmetic are left out: within   *)
(* the limits nothing comes near 64 bits.                                  *)
(***************************************************************************)
EXTENDS Integers

CONSTANTS MinSlots, MaxSlots, MaxChannels, MaxFrames, MaxBytes,  \* SAR_VWASAPI_TRANSPORT_...
          Magic        \* magic, version and header size

HeaderBytes == 128
RingBytes == 128
SlotBytes == 64
Alignment == 64

Aligned(bytes) == ((bytes + Alignment - 1) \div Alignment) * Alignment

Directions == {"render", "capture"}

\* A sample format is its name, the bits it occupies and those of them in use.
SupportedFormat(f) ==
  \/ f.name = "float" /\ f.bits = 32 /\ f.valid = 32
  \/ f.name = "pcm" /\ f.bits \in {16, 24, 32} /\ f.valid \in 1 .. f.bits

ValidRange(c) ==
  /\ c.rate \in 8000 .. 768000
  /\ c.channels \in 1 .. MaxChannels
  /\ c.frames \in 1 .. MaxFrames
  /\ c.slots \in MinSlots .. MaxSlots

-----------------------------------------------------------------------------
(* calculate_virtual_wasapi_transport_layout() *)

AudioSlotBytes(c) == Aligned(c.channels * c.frames * (c.format.bits \div 8))

SlotTable == Aligned(HeaderBytes + RingBytes)
AudioData(c) == Aligned(SlotTable + SlotBytes * c.slots)
TotalBytes(c) == Aligned(AudioData(c) + AudioSlotBytes(c) * c.slots)

Accepts(c) ==
  /\ c.direction \in Directions
  /\ SupportedFormat(c.format)
  /\ ValidRange(c)
  /\ TotalBytes(c) <= MaxBytes

Header(c) ==
  [magic |-> Magic, config |-> c, reserved |-> 0, total |-> TotalBytes(c),
   ring  |-> [at |-> HeaderBytes,  stride |-> RingBytes],
   table |-> [at |-> SlotTable,    stride |-> SlotBytes],
   audio |-> [at |-> AudioData(c), stride |-> AudioSlotBytes(c)]]

-----------------------------------------------------------------------------
(* validate_virtual_wasapi_transport_layout(), initialize(), attach() *)

\* The parts are in their order, and each ends before the next begins.
RegionsFollow(h) ==
  /\ HeaderBytes <= h.ring.at
  /\ h.ring.at + h.ring.stride <= h.table.at
  /\ h.table.at + h.table.stride * h.config.slots <= h.audio.at
  /\ h.audio.at + h.audio.stride * h.config.slots <= h.total

OffsetsAreAligned(h) ==
  \A bytes \in {h.ring.at, h.table.at, h.audio.at, h.table.stride, h.audio.stride} :
    bytes % Alignment = 0

\* What the header must be, for a side that expects one of these directions.
Validates(h, mapped, expected) ==
  /\ HeaderBytes <= mapped
  /\ h.magic = Magic
  /\ h.config.direction \in Directions \cap expected
  /\ SupportedFormat(h.config.format)
  /\ h.reserved = 0
  /\ h.total <= mapped /\ h.total <= MaxBytes /\ HeaderBytes <= h.total
  /\ Accepts(h.config)
  /\ OffsetsAreAligned(h)
  /\ h.ring.stride = RingBytes /\ h.table.stride = SlotBytes
  /\ RegionsFollow(h)
  /\ LET calculated == Header(h.config)
     IN  /\ h.total = calculated.total
         /\ h.ring.at = calculated.ring.at
         /\ h.table.at = calculated.table.at
         /\ h.audio = calculated.audio

\* A mapping at this address, of so many bytes, is made into a ring.
Initializes(address, bytes, h) ==
  address > 0 /\ address % Alignment = 0 /\ Validates(h, bytes, Directions)

Attaches(address, bytes, h, direction) ==
  address > 0 /\ address % Alignment = 0 /\ Validates(h, bytes, {direction})

\* open() of the engine's render source, whose samples are floats.
OpensRender(address, bytes, h) ==
  /\ Attaches(address, bytes, h, "render")
  /\ h.config.format.name = "float" /\ h.config.format.bits = 32

-----------------------------------------------------------------------------
(* What the sides then reach, through the offsets of the header they read:  *)
(* slot_at() and audio_at() of the slot at a sequence modulo the slots.      *)

Parts(h) ==
  {[of |-> "header", at |-> 0, bytes |-> HeaderBytes],
   [of |-> "ring", at |-> h.ring.at, bytes |-> RingBytes]}
  \union {[of |-> "slot", at |-> h.table.at + i * h.table.stride, bytes |-> SlotBytes]
            : i \in 0 .. h.config.slots - 1}
  \union {[of |-> "audio", at |-> h.audio.at + i * h.audio.stride,
           bytes |-> h.config.channels * h.config.frames * (h.config.format.bits \div 8)]
            : i \in 0 .. h.config.slots - 1}

\* No byte belongs to two parts, none is outside the mapping, and every part begins
\* on a line of its own.
PartsAreSound(h, mapped) ==
  /\ \A p, q \in Parts(h) : p # q => p.at + p.bytes <= q.at \/ q.at + q.bytes <= p.at
  /\ \A p \in Parts(h) : p.at + p.bytes <= mapped /\ p.at % Alignment = 0
=============================================================================
