------------------------- MODULE WasapiGraphRunner -------------------------
(***************************************************************************)
(* The realtime worker of a duplex loop and the graph runner it calls: one *)
(* cycle submits what is queued for the render device, drains the capture  *)
(* device, pulls graph blocks through the capture resampler until the      *)
(* render FIFO is filled, and renders labelled silence when it is not. The *)
(* devices run beside it at equal rates, each with its own phase, and a    *)
(* capture packet may carry a discontinuity.                               *)
(*                                                                         *)
(* A captured frame is the stretch the device captured it in: a new one    *)
(* begins with every gap, be it a lost packet, a glitch or a stop of the   *)
(* streams. A packet keeps its stretch in the client's buffer, in which it *)
(* outlives a stop. A rendered frame is counted only. The rate correction, *)
(* which moves the resampler's ratio by a quarter of a percent at most, is *)
(* left out.                                                               *)
(***************************************************************************)
EXTENDS Integers, Sequences, FiniteSets, SequencesExt

CONSTANTS Block,           \* graph_block_frames_
          Period,          \* frames of a device period, and of a capture packet
          CaptureBuffer, RenderBuffer,   \* buffer_frames of the two streams
          Lookahead,       \* frames the resampler holds back
          HasExternal,     \* a mapped external input
          MaxSkew,         \* periods one device may be ahead of the other
          MaxLate          \* periods the worker may need for a cycle

ASSUME Configuration ==
  /\ {Block, Period, CaptureBuffer, RenderBuffer, MaxSkew, MaxLate} \subseteq Nat \ {0}
  /\ Lookahead \in 0 .. 2 * Block
  /\ Period <= CaptureBuffer
  /\ HasExternal \in BOOLEAN

VARIABLES
  packets,      \* in the capture client's buffer, each with its stretch and its flag
  stretch,      \* the one the capture device is in
  gap,          \* before the next packet: "none", "dropped" or "resumed"
  padding,      \* frames of the render client still to play
  ahead,        \* periods captured less periods rendered
  late,         \* periods since the worker last ended a cycle
  pc,           \* where the worker is in process_buffered_once()
  cycle,        \* the stats of the cycle
  baseline,     \* capture_packet_baseline_established_
  capture_fifo, \* stretches of the captured frames queued
  adapter,      \* capture_rate_adapter_
  render_fifo,  \* frames queued
  recovery,     \* the worker's render recovery episode
  taken,        \* history: stretches of the packets taken since the last discontinuity or start
  leftover,     \* history: the client held packets when the streams were started
  graph_input   \* stretches of the frames in the last graph block

deviceVars == <<packets, stretch, gap, padding, ahead, late>>
runnerVars == <<cycle, baseline, capture_fifo, adapter, render_fifo>>
cycleVars == <<deviceVars, pc, runnerVars, recovery, taken, leftover, graph_input>>

\* Stretches are compared for equality with the last few only.
Stretches == 0 .. 2
NextStretch == (stretch + 1) % 3

Least(m, n) == IF m <= n THEN m ELSE n
Most(m, n)  == IF m >= n THEN m ELSE n

FifoCapacity == Block + 2 * Most(CaptureBuffer, RenderBuffer)

\* PlanarAudioFifo::push() takes what there is room for, consume() what there is.
Push(fifo, frames) ==
  fifo \o SubSeq(frames, 1, Least(Len(frames), FifoCapacity - Len(fifo)))
Consume(fifo, n) == SubSeq(fifo, n + 1, Len(fifo))

\* desired_render_fill_frames_: a packet and two periods or a block beside it.
RenderTarget ==
  RenderBuffer + Least(Most(Block, 2 * Period), FifoCapacity - RenderBuffer)

\* prime_render_fifo_with_silence(): the silence queued from fill on, a block at a time.
Primed[fill \in 0 .. FifoCapacity] ==
  LET queued == Least(Least(RenderTarget - fill, Block), FifoCapacity - fill)
  IN  IF fill >= RenderTarget \/ queued = 0 THEN fill ELSE Primed[fill + queued]

\* target_fill_frames, equal to a block at the nominal ratio of equal rates.
CaptureTarget == Block

\* The constructor refuses a FIFO that does not hold a block, or not a block and a packet.
ValidBuffers ==
  /\ FifoCapacity >= Block
  /\ CaptureTarget <= FifoCapacity /\ CaptureBuffer <= FifoCapacity - CaptureTarget

ASSUME CapacitiesAreValid == ValidBuffers

\* The priming loop ends, and with the fill the cycles then keep up.
ASSUME PrimingReachesTarget == Primed[0] = RenderTarget

MaxPacketsPerCycle == 8
GraphLimit == Least(64, (RenderTarget + Block - 1) \div Block)

IdleCycle == [queued |-> FALSE, packets |-> 0, blocks |-> 0, mixed |-> FALSE, reset |-> FALSE,
              silence |-> "none"]

NewAdapter == [resampler |-> <<>>, ready |-> <<>>, primed |-> FALSE,
               recovering |-> FALSE, preroll |-> FALSE, produced |-> FALSE]

\* Silent frames are counted up to here, well beyond every bound.
CountedSilence == 4 * (Block + RenderBuffer)

NoEpisode == [active |-> FALSE, frames |-> 0]

Packets == [stretch : Stretches, flagged : BOOLEAN]

RunnerTypeOK ==
  /\ packets \in Seq(Packets) /\ Len(packets) * Period <= CaptureBuffer
  /\ stretch \in Stretches /\ gap \in {"none", "dropped", "resumed"}
  /\ padding \in 0 .. RenderBuffer
  /\ ahead \in 0 .. MaxSkew
  /\ late \in 0 .. MaxLate
  /\ pc \in {"stopped", "wait", "capture", "graph", "render"}
  /\ capture_fifo \in Seq(Stretches) /\ Len(capture_fifo) <= FifoCapacity
  /\ render_fifo \in 0 .. FifoCapacity
  /\ adapter.resampler \in Seq(Stretches) /\ Len(adapter.resampler) <= Lookahead + 1
  /\ adapter.ready \in Seq(Stretches) /\ Len(adapter.ready) < Block
  /\ taken \subseteq Stretches /\ leftover \in BOOLEAN /\ graph_input \subseteq Stretches

RunnerInit ==
  /\ packets = <<>> /\ stretch = 0 /\ gap = "resumed" /\ padding = 0 /\ ahead = 0 /\ late = 0
  /\ pc = "stopped" /\ cycle = IdleCycle
  /\ baseline = FALSE /\ capture_fifo = <<>> /\ adapter = NewAdapter
  /\ render_fifo = Primed[0]
  /\ recovery = NoEpisode
  /\ taken = {} /\ leftover = FALSE /\ graph_input = {}

-----------------------------------------------------------------------------
(* The devices                                                             *)

\* A period has been captured. A packet the client has no room for is lost, and
\* the next one says so; a glitch of the device has it say so by itself. Whether the
\* first one after a stop does is up to the device.
CaptureDevice ==
  /\ pc # "stopped" /\ ahead < MaxSkew
  /\ ahead' = ahead + 1
  /\ IF (Len(packets) + 1) * Period > CaptureBuffer
     THEN gap' = "dropped" /\ UNCHANGED <<packets, stretch>>
     ELSE \E flagged \in IF gap = "dropped" THEN {TRUE} ELSE BOOLEAN :
            /\ stretch' = IF flagged \/ gap = "resumed" THEN NextStretch ELSE stretch
            /\ packets' = Append(packets, [stretch |-> stretch', flagged |-> flagged])
            /\ gap' = "none"
  /\ UNCHANGED <<padding, late, pc, runnerVars, recovery, taken, leftover, graph_input>>

\* A period has been played, or as much of it as there was.
RenderDevice ==
  /\ pc # "stopped" /\ ahead > 0 /\ late < MaxLate
  /\ ahead' = ahead - 1
  /\ late' = late + 1
  /\ padding' = Most(0, padding - Period)
  /\ UNCHANGED <<packets, stretch, gap, pc, runnerVars, recovery, taken, leftover, graph_input>>

-----------------------------------------------------------------------------
(* Starting and stopping the streams                                       *)

\* start_streams(): the runner keeps nothing of an earlier run. The clients are never
\* reset, and keep over a stop what they hold.
StartStreams ==
  /\ pc = "stopped"
  /\ pc' = "wait"
  /\ baseline' = FALSE
  /\ capture_fifo' = <<>>
  /\ render_fifo' = Primed[0]
  /\ adapter' = NewAdapter
  /\ recovery' = NoEpisode
  /\ cycle' = IdleCycle
  /\ gap' = "resumed"
  /\ taken' = {} /\ leftover' = (packets # <<>>)
  /\ graph_input' = {}
  /\ UNCHANGED <<packets, stretch, padding, ahead, late>>

\* The wait was cancelled: the worker stops the streams.
EndStreams ==
  /\ pc = "wait"
  /\ pc' = "stopped"
  /\ late' = 0 /\ ahead' = 0
  /\ UNCHANGED <<packets, stretch, gap, padding, runnerVars, recovery, taken, leftover,
                 graph_input>>

-----------------------------------------------------------------------------
(* A cycle                                                                 *)

\* Frames render_once() commits out of a packet of n: what the client has room for.
Committed(n) == Least(RenderBuffer - padding, Least(n, RenderBuffer))

\* submit_queued_render(): the FIFO gives up what was committed.
SubmitQueuedRender ==
  /\ padding' = padding + Committed(render_fifo)
  /\ render_fifo' = render_fifo - Committed(render_fifo)

\* The wait has returned: an event or the timeout, which differ in nothing that
\* follows. What is queued for the render device goes first.
BeginCycle ==
  /\ pc = "wait"
  /\ pc' = "capture"
  /\ cycle' = [IdleCycle EXCEPT !.queued = render_fifo > 0]
  /\ IF render_fifo > 0 THEN SubmitQueuedRender ELSE UNCHANGED <<padding, render_fifo>>
  /\ UNCHANGED <<packets, stretch, gap, ahead, late, baseline, capture_fifo, adapter, recovery,
                 taken, leftover, graph_input>>

\* capture_once() returns a packet; else it returns no frames at once.
PacketReady == packets # <<>>

RoomForPacket == FifoCapacity - Len(capture_fifo) >= CaptureBuffer

\* A discontinuity: the adapter starts over with the first frame after it.
ResetAdapter(a) ==
  [NewAdapter EXCEPT !.produced = a.produced, !.recovering = TRUE, !.preroll = TRUE]

\* Fault: the frames from before a discontinuity stay queued.
FaultKeptFrames(discontinuity) == capture_fifo

\* What stays queued when a packet comes.
KeptFrames(discontinuity) == IF discontinuity THEN <<>> ELSE capture_fifo

\* One capture_once() that returns a packet. The first packet of a run has nothing
\* before it to be discontinuous with.
CapturePacket ==
  /\ pc = "capture" /\ cycle.packets < MaxPacketsPerCycle
  /\ RoomForPacket /\ PacketReady
  /\ packets' = Tail(packets)
  /\ baseline' = TRUE
  /\ LET packet        == Head(packets)
         discontinuity == baseline /\ packet.flagged
     IN  /\ taken' = (IF discontinuity THEN {} ELSE taken) \union {packet.stretch}
         /\ adapter' = IF discontinuity THEN ResetAdapter(adapter) ELSE adapter
         /\ capture_fifo' = Push(KeptFrames(discontinuity),
                                  [i \in 1 .. Period |-> packet.stretch])
         /\ cycle' = [cycle EXCEPT !.packets = @ + 1, !.reset = @ \/ discontinuity]
  /\ UNCHANGED <<stretch, gap, padding, ahead, late, pc, render_fifo, recovery, leftover,
                 graph_input>>

EndCapture ==
  /\ pc = "capture"
  /\ \/ cycle.packets = MaxPacketsPerCycle
     \/ ~RoomForPacket
     \/ ~PacketReady
  /\ pc' = "graph"
  /\ UNCHANGED <<deviceVars, runnerVars, recovery, taken, leftover, graph_input>>

\* The resampler after the preroll: full of the first frame's edge.
Prerolled == [i \in 1 .. Lookahead |-> Head(capture_fifo)]

\* The resampler holds back its last Lookahead frames and takes from the FIFO as long
\* as the block lacks some: of each offer what it needs, or the frame more it was offered.
Resampled(a, surplus) ==
  LET held    == Len(a.resampler)
      source  == a.resampler \o capture_fifo
      missing == Block - Len(a.ready)
      out     == Least(missing, Most(0, Len(source) - Lookahead))
      needed  == IF out < missing THEN Len(capture_fifo)
                 ELSE Most(0, out + Lookahead - held)
      used    == Least(Len(capture_fifo), needed + surplus)
  IN  [used |-> used,
       ready |-> a.ready \o SubSeq(source, 1, out),
       resampler |-> SubSeq(source, out + 1, held + used)]

RenderHasSpace ==
  /\ FifoCapacity - render_fifo >= Block
  /\ render_fifo < RenderTarget

\* No capture is to be had: the external input may fill the block alone.
OnlyExternal ==
  /\ HasExternal
  /\ cycle.packets = 0
  /\ Len(capture_fifo) < Block /\ Len(adapter.ready) < Block

Unprimed == ~adapter.primed /\ Len(capture_fifo) < CaptureTarget

\* A block has been processed and is queued for the render device.
GraphBlock(input) ==
  /\ graph_input' = input
  /\ render_fifo' = render_fifo + Least(Block, FifoCapacity - render_fifo)

\* read() of the external input has failed, or there is none; once it has succeeded
\* in a cycle, a failed one mixes silence.
ExternalBlock ==
  /\ pc = "graph" /\ cycle.blocks < GraphLimit /\ RenderHasSpace /\ OnlyExternal
  /\ \E read \in BOOLEAN :
       IF read \/ cycle.mixed
       THEN /\ GraphBlock({})
            /\ cycle' = [cycle EXCEPT !.blocks = @ + 1, !.mixed = TRUE]
            /\ UNCHANGED pc
       ELSE /\ pc' = "render"
            /\ UNCHANGED <<cycle, render_fifo, graph_input>>
  /\ UNCHANGED <<deviceVars, baseline, capture_fifo, adapter, recovery, taken, leftover>>

\* A block out of the resampler; a partial one stays in the adapter for the next cycle.
CaptureBlock ==
  /\ pc = "graph" /\ cycle.blocks < GraphLimit /\ RenderHasSpace
  /\ ~OnlyExternal /\ ~Unprimed
  /\ \E surplus \in {0, 1}, mixed \in IF HasExternal THEN BOOLEAN ELSE {FALSE} :
       LET filled == IF adapter.preroll THEN [adapter EXCEPT !.resampler = Prerolled] ELSE adapter
           result == Resampled(filled, surplus)
           after  == [adapter EXCEPT !.primed = TRUE, !.preroll = FALSE,
                                     !.resampler = result.resampler, !.ready = result.ready]
       IN  /\ capture_fifo' = Consume(capture_fifo, result.used)
           /\ IF Len(result.ready) < Block
              THEN /\ adapter' = after
                   /\ pc' = "render"
                   /\ UNCHANGED <<cycle, render_fifo, graph_input>>
              ELSE /\ adapter' = [after EXCEPT !.ready = <<>>, !.produced = TRUE,
                                               !.recovering = FALSE]
                   /\ GraphBlock(ToSet(result.ready))
                   /\ cycle' = [cycle EXCEPT !.blocks = @ + 1, !.mixed = @ \/ mixed]
                   /\ UNCHANGED pc
  /\ UNCHANGED <<deviceVars, baseline, recovery, taken, leftover>>

EndGraph ==
  /\ pc = "graph"
  /\ \/ cycle.blocks = GraphLimit
     \/ ~RenderHasSpace
     \/ ~OnlyExternal /\ Unprimed
  /\ pc' = "render"
  /\ UNCHANGED <<deviceVars, runnerVars, recovery, taken, leftover, graph_input>>

\* The label of the silence a cycle renders.
SilenceLabel == IF adapter.recovering THEN "recovery"
                ELSE IF adapter.produced THEN "starvation" ELSE "startup"

\* Fault: a discontinuity during a recovery does not start the measure anew.
FaultEpisode(silence, frames) ==
  LET begun == IF cycle.reset /\ ~recovery.active THEN [active |-> TRUE, frames |-> 0]
               ELSE recovery
      heard == IF begun.active /\ silence = "recovery"
               THEN [begun EXCEPT !.frames = Least(@ + frames, CountedSilence)] ELSE begun
  IN  IF adapter.recovering THEN heard ELSE NoEpisode

\* The recovery episode at the end of a cycle with that label and that many silent
\* frames: every reset starts its measure anew, the first block ends it (run()).
Episode(silence, frames) ==
  LET begun == IF cycle.reset THEN [active |-> TRUE, frames |-> 0] ELSE recovery
      heard == IF begun.active /\ silence = "recovery"
               THEN [begun EXCEPT !.frames = Least(@ + frames, CountedSilence)] ELSE begun
  IN  IF adapter.recovering THEN heard ELSE NoEpisode

\* What was not queued on entry is submitted now; silence, if there is nothing.
EndCycle ==
  /\ pc = "render"
  /\ pc' = "wait"
  /\ late' = 0
  /\ LET silent == IF cycle.queued \/ render_fifo > 0 THEN 0 ELSE Committed(RenderBuffer)
         label  == IF silent > 0 THEN SilenceLabel ELSE "none"
     IN  /\ IF cycle.queued THEN UNCHANGED <<padding, render_fifo>>
            ELSE IF render_fifo > 0 THEN SubmitQueuedRender
            ELSE padding' = padding + silent /\ UNCHANGED render_fifo
         /\ recovery' = Episode(label, silent)
         /\ cycle' = [IdleCycle EXCEPT !.silence = label]
  /\ graph_input' = {}
  /\ UNCHANGED <<packets, stretch, gap, ahead, baseline, capture_fifo, adapter, taken, leftover>>

-----------------------------------------------------------------------------

WorkerCycle == BeginCycle \/ CapturePacket \/ EndCapture \/ ExternalBlock \/ CaptureBlock
          \/ EndGraph \/ EndCycle

RunnerNext == CaptureDevice \/ RenderDevice \/ StartStreams \/ EndStreams \/ WorkerCycle

RunnerSpec == RunnerInit /\ [][RunnerNext]_cycleVars

-----------------------------------------------------------------------------

\* What reaches the graph was taken from the client after the last discontinuity, and
\* captured in no other stretch than what has been taken since (roadmap.md:121-123: "no
\* pre-discontinuity samples reach the graph"), and after the last start of the streams:
\* no frame from before is left in the FIFO, in the resampler or in a partial block. All
\* frames of a block are of one stretch, with no gap between them, unless the run began
\* with packets in the client's buffer: those are from before the stop.
NoStaleInput ==
  /\ graph_input \subseteq taken
  /\ ~leftover => \A g, h \in graph_input : g = h

\* After a discontinuity graph output resumes within target_fill_frames +
\* render_buffer_frames of labelled recovery silence, and the period in which the
\* cycle notices (roadmap.md:123-125, current-system.md:503-505).
RecoveryIsBounded == recovery.frames <= CaptureTarget + RenderBuffer + Period

=============================================================================
