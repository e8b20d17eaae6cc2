------------------------ MODULE VirtualAsioRenderBus ------------------------
(***************************************************************************)
(* VirtualAsioRenderBus: one audio thread mixes what the DAWs play. Every  *)
(* DAW's session has a slot with a ring of blocks, into which its own      *)
(* thread adapts the DAW's block size; the control thread claims slots for *)
(* new sessions and takes them back.                                       *)
(*                                                                         *)
(* A slot changes hands by a handshake without a lock: the audio thread    *)
(* announces itself and looks at the state again; the control thread       *)
(* changes the state and looks for the announcement. That works if neither *)
(* can look before its own change is visible. The control thread's change  *)
(* is an exchange, which is. The audio thread's is a release store, which  *)
(* waits in a store buffer while the thread goes on to its acquire load:   *)
(* the control thread can miss an announcement that has been made, and     *)
(* take the slot from under the audio thread. The history variable         *)
(* overtaken remembers of which slots that is true.                        *)
(*                                                                         *)
(* The other threads need no store buffer in the model: after a store they *)
(* load nothing that an older value would let them do, so that a late      *)
(* store is a late step. A frame of audio is the attachment it was pushed  *)
(* in and its number there; the arithmetic of mixing and the statistics    *)
(* are left out.                                                           *)
(***************************************************************************)
EXTENDS Integers, Sequences

CONSTANTS NumSlots,        \* maximum_producers
          Frames,          \* frames_ of the engine's blocks
          MaxBlockFrames,  \* kVirtualAsioMaxFramesPerBlock of a DAW
          QueueCapacity,   \* queue_capacity_blocks
          StoreBuffer,     \* how many stores of the audio thread can wait
          Torn,            \* a block that is being written
          MaxGeneration,   \* bound on attachments
          MaxAccepted      \* bound on the frames pushed in an attachment

ASSUME Dimensions ==
  /\ {NumSlots, Frames, MaxBlockFrames, QueueCapacity, StoreBuffer} \subseteq Nat \ {0}
  /\ Torn \notin Seq(Nat \X Nat)

ASSUME Bounds == {MaxGeneration, MaxAccepted} \subseteq Nat

Slots == 1 .. NumSlots
Indices == 0 .. QueueCapacity

VARIABLES state,             \* of each slot: "Idle", "Claiming" or "Active"
          generation,        \* of each slot's attachment
          next_generation,
          read_index, write_index,
          blocks,            \* each slot's ring
          pending,           \* each slot's FIFO of frames that fill no block yet
          consumer_reading,  \* the audio thread's announcement
          control,           \* where the control thread is ...
          claimed,           \* ... and on which slot
          overtaken,         \* slots last claimed past an announcement that waited
          audio,             \* where the audio thread is ...
          visited,           \* ... and on which slot,
          stores,            \* its stores that are not visible yet
          pump,              \* where each session's thread is,
          source,            \* the size of the block it pushes,
          adapted,           \* and the engine block it is copying into the ring
          accepted,          \* frames accepted in each slot's attachment
          heard              \* the block last mixed from each slot's present attachment

slotVars == <<state, generation, next_generation, accepted>>
controlVars == <<control, claimed, overtaken>>
sharedByAudio == <<read_index, consumer_reading>>
audioVars == <<audio, visited, stores, heard>>
pumpVars == <<pump, source, adapted>>
ringVars == <<write_index, blocks, pending>>
busVars == <<slotVars, controlVars, sharedByAudio, audioVars, pumpVars, ringVars>>

EachSlot(value) == [slot \in Slots |-> value]

BusInit ==
  /\ state = EachSlot("Idle")
  /\ generation = EachSlot(0) /\ next_generation = 1
  /\ read_index = EachSlot(0) /\ write_index = EachSlot(0)
  /\ blocks = EachSlot([index \in Indices |-> <<>>])
  /\ pending = EachSlot(<<>>)
  /\ consumer_reading = EachSlot(FALSE)
  /\ control = "free" /\ claimed = 1 /\ overtaken = EachSlot(FALSE)
  /\ audio = "visiting" /\ visited = 1 /\ stores = <<>>
  /\ pump = EachSlot("none") /\ source = EachSlot(0) /\ adapted = EachSlot(<<>>)
  /\ accepted = EachSlot(0) /\ heard = EachSlot(<<>>)

Increment(index) == (index + 1) % (QueueCapacity + 1)

Full(slot) == Increment(write_index[slot]) = read_index[slot]

-----------------------------------------------------------------------------
(* attach() and detach(), one at a time under attachment_mutex_ *)

Attach(slot) ==
  /\ control = "free" /\ next_generation <= MaxGeneration
  /\ state[slot] = "Idle"
  /\ \A other \in 1 .. slot - 1 : state[other] # "Idle"
  /\ state' = [state EXCEPT ![slot] = "Claiming"]
  /\ control' = "attaching" /\ claimed' = slot
  /\ UNCHANGED <<overtaken, generation, next_generation, accepted, sharedByAudio,
                 audioVars, pumpVars, ringVars>>

\* A session detaches when its thread has been joined.
Detach(slot) ==
  /\ control = "free"
  /\ state[slot] = "Active" /\ pump[slot] = "idle"
  /\ state' = [state EXCEPT ![slot] = "Claiming"]
  /\ control' = "detaching" /\ claimed' = slot
  /\ pump' = [pump EXCEPT ![slot] = "none"]
  /\ UNCHANGED <<overtaken, generation, next_generation, accepted, sharedByAudio,
                 audioVars, source, adapted, ringVars>>

\* The audio thread has announced itself on the slot, and nobody else can see it yet.
Unseen(slot) ==
  \E i \in 1 .. Len(stores) :
    stores[i].slot = slot /\ stores[i].field = "consumer_reading" /\ stores[i].value

Claimed ==
  /\ \/ control = "attaching" /\ control' = "opening"
     \/ control = "detaching" /\ control' = "closing"
  /\ overtaken' = [overtaken EXCEPT ![claimed] = Unseen(claimed)]
  /\ UNCHANGED <<slotVars, claimed, sharedByAudio, audioVars, pumpVars, ringVars>>

\* Fault: the slot is taken without regard to the audio thread.
FaultAwaitReader == Claimed

AwaitReader == ~consumer_reading[claimed] /\ Claimed

\* Fault: frames that filled no block are kept.
FaultClear ==
  /\ read_index' = [read_index EXCEPT ![claimed] = 0]
  /\ write_index' = [write_index EXCEPT ![claimed] = 0]
  /\ UNCHANGED pending

Clear ==
  /\ read_index' = [read_index EXCEPT ![claimed] = 0]
  /\ write_index' = [write_index EXCEPT ![claimed] = 0]
  /\ pending' = [pending EXCEPT ![claimed] = <<>>]

Open ==
  /\ control = "opening"
  /\ Clear
  /\ generation' = [generation EXCEPT ![claimed] = next_generation]
  /\ next_generation' = next_generation + 1
  /\ state' = [state EXCEPT ![claimed] = "Active"]
  /\ accepted' = [accepted EXCEPT ![claimed] = 0]
  /\ pump' = [pump EXCEPT ![claimed] = "idle"]
  /\ control' = "free"
  /\ heard' = [heard EXCEPT ![claimed] = <<>>]
  /\ UNCHANGED <<claimed, overtaken, blocks, consumer_reading, audio, visited, stores, source,
                 adapted>>

Close ==
  /\ control = "closing"
  /\ Clear
  /\ state' = [state EXCEPT ![claimed] = "Idle"]
  /\ control' = "free"
  /\ UNCHANGED <<generation, next_generation, accepted, claimed, overtaken, blocks,
                 consumer_reading, audioVars, pumpVars>>

-----------------------------------------------------------------------------
(* read(), for one slot after the other and again and again *)

\* A store of the audio thread; it becomes visible when it leaves the buffer.
Store(field, value) ==
  /\ Len(stores) < StoreBuffer
  /\ stores' = Append(stores, [slot |-> visited, field |-> field, value |-> value])

Commit ==
  /\ stores # <<>>
  /\ LET store == Head(stores)
     IN  \/ /\ store.field = "read_index"
            /\ read_index' = [read_index EXCEPT ![store.slot] = store.value]
            /\ UNCHANGED consumer_reading
         \/ /\ store.field = "consumer_reading"
            /\ consumer_reading' = [consumer_reading EXCEPT ![store.slot] = store.value]
            /\ UNCHANGED read_index
  /\ stores' = Tail(stores)
  /\ UNCHANGED <<slotVars, controlVars, audio, visited, heard, pumpVars, ringVars>>

\* The read_index that the audio thread loads: its own stores come first.
IndexStores(slot) ==
  {i \in 1 .. Len(stores) : stores[i].slot = slot /\ stores[i].field = "read_index"}

OwnReadIndex(slot) ==
  IF IndexStores(slot) = {} THEN read_index[slot]
  ELSE stores[CHOOSE i \in IndexStores(slot) : \A j \in IndexStores(slot) : j <= i].value

AudioTo(place) ==
  /\ audio' = place
  /\ UNCHANGED <<slotVars, controlVars, sharedByAudio, visited, pumpVars, ringVars>>

NextSlot ==
  /\ audio' = "visiting"
  /\ visited' = (visited % NumSlots) + 1
  /\ UNCHANGED <<slotVars, controlVars, sharedByAudio, heard, pumpVars, ringVars>>

Visit ==
  /\ audio = "visiting"
  /\ \/ state[visited] = "Active" /\ AudioTo("announcing") /\ UNCHANGED <<stores, heard>>
     \/ state[visited] # "Active" /\ NextSlot /\ UNCHANGED stores

Announce ==
  /\ audio = "announcing"
  /\ Store("consumer_reading", TRUE)
  /\ AudioTo("rechecking") /\ UNCHANGED heard

Recheck ==
  /\ audio = "rechecking"
  /\ \/ state[visited] = "Active" /\ AudioTo("reading") /\ UNCHANGED <<stores, heard>>
     \/ state[visited] # "Active" /\ NextSlot /\ Store("consumer_reading", FALSE)

\* Fault: the last block of a ring is left there.
FaultFindBlock ==
  /\ audio = "reading"
  /\ IF write_index[visited] \in {OwnReadIndex(visited), Increment(OwnReadIndex(visited))}
     THEN AudioTo("leaving") ELSE AudioTo("mixing")
  /\ UNCHANGED <<stores, heard>>

FindBlock ==
  /\ audio = "reading"
  /\ IF write_index[visited] = OwnReadIndex(visited)
     THEN AudioTo("leaving") ELSE AudioTo("mixing")
  /\ UNCHANGED <<stores, heard>>

Mix ==
  /\ audio = "mixing"
  /\ heard' = [heard EXCEPT ![visited] = blocks[visited][OwnReadIndex(visited)]]
  /\ Store("read_index", Increment(OwnReadIndex(visited)))
  /\ AudioTo("leaving")

Leave ==
  /\ audio = "leaving"
  /\ Store("consumer_reading", FALSE)
  /\ NextSlot

-----------------------------------------------------------------------------
(* push(), on the thread of the slot's session *)

PumpTo(slot, place) ==
  /\ pump' = [pump EXCEPT ![slot] = place]
  /\ UNCHANGED <<slotVars, controlVars, sharedByAudio, audioVars>>

Push(slot) ==
  /\ pump[slot] = "idle" /\ state[slot] = "Active"
  /\ \E frames \in 1 .. MaxBlockFrames :
       /\ accepted[slot] + frames <= MaxAccepted
       /\ source' = [source EXCEPT ![slot] = frames]
  /\ PumpTo(slot, "draining")
  /\ UNCHANGED <<adapted, ringVars>>

\* The loop of drain_pending(), before and after the new frames are taken.
CanDrain(slot) == Len(pending[slot]) >= Frames /\ ~Full(slot)

TakeFrames(slot) ==
  /\ pump[slot] \in {"draining", "flushing"} /\ adapted[slot] = <<>>
  /\ CanDrain(slot)
  /\ adapted' = [adapted EXCEPT ![slot] = SubSeq(pending[slot], 1, Frames)]
  /\ pending' = [pending EXCEPT ![slot] = SubSeq(@, Frames + 1, Len(@))]
  /\ blocks' = [blocks EXCEPT ![slot][write_index[slot]] = Torn]
  /\ UNCHANGED <<slotVars, controlVars, sharedByAudio, audioVars, pump, source, write_index>>

Enqueue(slot) ==
  /\ adapted[slot] # <<>>
  /\ blocks' = [blocks EXCEPT ![slot][write_index[slot]] = adapted[slot]]
  /\ write_index' = [write_index EXCEPT ![slot] = Increment(@)]
  /\ adapted' = [adapted EXCEPT ![slot] = <<>>]
  /\ UNCHANGED <<slotVars, controlVars, sharedByAudio, audioVars, pump, source, pending>>

StopDraining(slot) ==
  /\ pump[slot] \in {"draining", "flushing"} /\ adapted[slot] = <<>>
  /\ ~CanDrain(slot)
  /\ PumpTo(slot, IF pump[slot] = "draining" THEN "deciding" ELSE "idle")
  /\ UNCHANGED <<source, adapted, ringVars>>

NewFrames(slot) ==
  [i \in 1 .. source[slot] |-> <<generation[slot], accepted[slot] + i>>]

Refused(slot) ==
  \/ Full(slot) /\ Len(pending[slot]) + source[slot] >= Frames
  \/ Len(pending[slot]) + source[slot] > MaxBlockFrames + Frames

\* A block is taken whole or not at all.
Decide(slot) ==
  /\ pump[slot] = "deciding"
  /\ IF Refused(slot)
     THEN /\ pump' = [pump EXCEPT ![slot] = "idle"]
          /\ UNCHANGED <<pending, accepted>>
     ELSE /\ pump' = [pump EXCEPT ![slot] = "flushing"]
          /\ pending' = [pending EXCEPT ![slot] = @ \o NewFrames(slot)]
          /\ accepted' = [accepted EXCEPT ![slot] = @ + source[slot]]
  /\ UNCHANGED <<state, generation, next_generation, controlVars, sharedByAudio, audioVars,
                 source, adapted, write_index, blocks>>

-----------------------------------------------------------------------------

AudioStep ==
  \/ Visit
  \/ Announce
  \/ Recheck
  \/ FindBlock
  \/ Mix
  \/ Leave

ControlStep ==
  \/ AwaitReader
  \/ Open
  \/ Close

PumpStep(slot) ==
  \/ TakeFrames(slot)
  \/ Enqueue(slot)
  \/ StopDraining(slot)
  \/ Decide(slot)

BusNext ==
  \/ \E slot \in Slots : Attach(slot) \/ Detach(slot) \/ Push(slot) \/ PumpStep(slot)
  \/ ControlStep
  \/ AudioStep
  \/ Commit

\* The audio thread reads again and again, stores become visible, and a control
\* thread that spins is not stopped; DAWs owe nothing.
BusFairness ==
  /\ WF_busVars(AudioStep)
  /\ WF_busVars(Commit)
  /\ WF_busVars(ControlStep)

BusSpec == BusInit /\ [][BusNext]_busVars /\ BusFairness

-----------------------------------------------------------------------------

FrameSet == (1 .. MaxGeneration) \X (1 .. MaxAccepted)

BusTypeOK ==
  /\ state \in [Slots -> {"Idle", "Claiming", "Active"}]
  /\ generation \in [Slots -> 0 .. MaxGeneration]
  /\ next_generation \in 1 .. MaxGeneration + 1
  /\ read_index \in [Slots -> Indices] /\ write_index \in [Slots -> Indices]
  /\ \A slot \in Slots :
       /\ blocks[slot] \in [Indices -> Seq(FrameSet) \cup {Torn}]
       /\ pending[slot] \in Seq(FrameSet)
       /\ Len(pending[slot]) <= MaxBlockFrames + Frames
       /\ adapted[slot] = <<>> \/ blocks[slot][write_index[slot]] = Torn
  /\ consumer_reading \in [Slots -> BOOLEAN]
  /\ control \in {"free", "attaching", "detaching", "opening", "closing"}
  /\ claimed \in Slots /\ visited \in Slots /\ overtaken \in [Slots -> BOOLEAN]
  /\ audio \in {"visiting", "announcing", "rechecking", "reading", "mixing", "leaving"}
  /\ Len(stores) <= StoreBuffer
  /\ pump \in [Slots -> {"none", "idle", "draining", "deciding", "flushing"}]
  /\ accepted \in [Slots -> 0 .. MaxAccepted]

\* While the audio thread uses a slot, or its index is still to become visible, no
\* other thread clears that slot, unless it missed the announcement.
SlotIsHeld ==
  control \in {"opening", "closing"} /\ ~overtaken[claimed] =>
    /\ ~(visited = claimed /\ audio \in {"reading", "mixing"})
    /\ IndexStores(claimed) = {}

\* The audio thread mixes a block of a slot whose last claim saw what it was to see.
Mixes(slot) ==
  audio = "mixing" /\ audio' = "leaving" /\ visited = slot /\ ~overtaken[slot]

\* docs/architecture/virtual-asio-driver-abi.md: no stale audio crosses client
\* lifetimes. What is mixed from a slot was pushed in its present attachment, except
\* from a slot that was claimed past an announcement still in the store buffer.
StaleAudioStaysOut ==
  [][\A slot \in Slots : Mixes(slot) =>
       /\ heard'[slot] # Torn
       /\ \A i \in 1 .. Len(heard'[slot]) : heard'[slot][i][1] = generation[slot]]_busVars

Follows(block, last) ==
  /\ block # Torn /\ Len(block) = Frames
  /\ block[1][2] = IF last = <<>> THEN 1 ELSE last[Frames][2] + 1
  /\ \A i \in 2 .. Frames : block[i] = <<block[1][1], block[1][2] + i - 1>>

\* Whatever the block size of the DAW, and however full the ring, the accepted
\* frames of an attachment are heard from the first one on, each once, none left out,
\* unless the slot was claimed past an announcement.
StreamIsWhole ==
  [][\A slot \in Slots : Mixes(slot) => Follows(heard'[slot], heard[slot])]_busVars

HeardUpTo(slot) == IF heard[slot] \in {<<>>, Torn} THEN <<0, 0>> ELSE heard[slot][Frames]

\* A block in the ring of an attached session is heard, unless the slot was claimed
\* past an announcement.
PublishedIsHeard ==
  \A slot \in Slots, g \in 1 .. MaxGeneration, n \in 1 .. MaxAccepted \div Frames :
    (/\ generation[slot] = g /\ state[slot] = "Active" /\ ~overtaken[slot]
     /\ accepted[slot] - Len(pending[slot]) - Len(adapted[slot]) >= n * Frames)
    ~> \/ generation[slot] # g \/ state[slot] # "Active"
       \/ HeardUpTo(slot)[1] = g /\ HeardUpTo(slot)[2] >= n * Frames
=============================================================================
