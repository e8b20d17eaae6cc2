------------------------ MODULE VirtualAsioTransport ------------------------
(***************************************************************************)
(* One admitted connection at work: the callback thread of the driver, in  *)
(* the DAW's process, and the pump thread of the transport session, in the *)
(* engine, joined by two shared queues, an auto-reset input event and a    *)
(* manual-reset shutdown event.                                            *)
(*                                                                         *)
(* Each timer tick the driver takes everything from the output queue, lets *)
(* the host hear the newest block, and pushes the block the host produced. *)
(* The session wakes on the event, takes blocks up to a limit, passes each *)
(* through its graph and pushes the result under the same sequence number. *)
(* What the graph does to samples is not modelled; a block is the run of   *)
(* the driver (ASIOStart to ASIOStop) and its sequence number. The output  *)
(* event is left out: the driver polls it and ignores it.                  *)
(*                                                                         *)
(* The queue of SharedQueue is the input queue, from the driver to the     *)
(* session; Out is another one, in the same mapping, the other way.        *)
(***************************************************************************)
EXTENDS SharedQueue

CONSTANTS MaxPerWake,   \* kMaximumBlocksPerWake
          MaxRuns,      \* bound: times the DAW starts the driver
          MaxSequence   \* bound: blocks of one run

\* What one wake may take is all that a queue can hold.
ASSUME AWakeEmptiesTheQueue == MaxPerWake \in Nat /\ Capacity <= MaxPerWake

\* The blocks of a driver, all of its connection's generation.
DriverBlocks == [run : 1 .. MaxRuns, sequence : 0 .. MaxSequence - 1]

ASSUME BoundsAreNumbers == {MaxRuns, MaxSequence, MaxPosition} \subseteq Nat

ASSUME BlocksAreTheDrivers ==
  Blocks = DriverBlocks /\ WellFormed = Blocks /\ MaxPosition >= MaxRuns * MaxSequence

VARIABLES out_write, out_slots, out_writing, out_read, out_reading, out_block,
          input_event,     \* auto-reset
          shutdown_event,  \* manual-reset, set by the host's stop
          driver,          \* where the callback thread is
          run, sequence,   \* which start this is, the next sequence number
          drained,         \* blocks taken from the output queue in this cycle
          heard,           \* the last block the DAW was given
          session,         \* where the pump thread is
          taken,           \* blocks popped in this wake
          host             \* where the host is in stopping the session

inVars == <<producerVars, consumerVars>>
outVars == <<out_write, out_slots, out_writing, out_read, out_reading, out_block>>
driverVars == <<driver, run, sequence, drained, heard>>
sessionVars == <<session, taken>>
transportVars == <<ready, inVars, outVars, input_event, shutdown_event,
                   driverVars, sessionVars, host>>

Out == INSTANCE SharedQueue
         WITH write_position <- out_write, slots <- out_slots,
              writing <- out_writing, read_position <- out_read,
              reading <- out_reading, destination <- out_block

TransportInit ==
  /\ QueueInit /\ Out!QueueInit
  /\ input_event = FALSE /\ shutdown_event = FALSE
  /\ driver = "stopped" /\ run = 0 /\ sequence = 0 /\ drained = 0
  /\ heard = Silence
  /\ session = "waiting" /\ taken = 0
  /\ host = "serving"

-----------------------------------------------------------------------------
(* The driver's callback thread: WindowsVirtualAsioRuntime *)

Working == {"waiting", "draining", "pushing", "copying", "signalling"}

\* start(): the worker of an earlier run has been joined.
StartRuntime ==
  /\ driver = "stopped" /\ run < MaxRuns
  /\ driver' = "waiting" /\ run' = run + 1 /\ sequence' = 0
  /\ UNCHANGED <<ready, inVars, outVars, input_event, shutdown_event, drained,
                 heard, sessionVars, host>>

DriverTo(place) ==
  driver' = place /\ UNCHANGED <<run, sequence, drained, heard>>

\* stop(): the worker leaves at its next wait, where the stop event comes first.
StopRuntime ==
  /\ driver = "waiting"
  /\ DriverTo("stopped")
  /\ UNCHANGED <<ready, inVars, outVars, input_event, shutdown_event,
                 sessionVars, host>>

\* The timer is due: process_cycle() looks for the shutdown event first.
BeginCycle ==
  /\ driver = "waiting"
  /\ IF shutdown_event THEN DriverTo("stopped")
     ELSE /\ sequence < MaxSequence
          /\ driver' = "draining" /\ drained' = 0
          /\ UNCHANGED <<run, sequence, heard>>
  /\ UNCHANGED <<ready, inVars, outVars, input_event, shutdown_event,
                 sessionVars, host>>

FindOutput ==
  /\ driver = "draining" /\ drained < Capacity
  /\ Out!BeginPop
  /\ UNCHANGED <<inVars, input_event, shutdown_event, driverVars, sessionVars, host>>

TakeOutput ==
  /\ driver = "draining"
  /\ Out!FinishPop
  /\ drained' = drained + 1
  /\ UNCHANGED <<inVars, input_event, shutdown_event, driver, run, sequence,
                 heard, sessionVars, host>>

\* Nothing is left, or the queue's capacity has been taken: the host's callback
\* runs, and hears the last of the blocks. A queue that is not ready ends the
\* worker instead.
Callback ==
  /\ driver = "draining" /\ out_reading = NoBlock
  /\ \/ drained = Capacity /\ UNCHANGED <<ready, outVars>>
     \/ drained < Capacity /\ Out!PopNothing
  /\ IF ready \/ drained = Capacity
     THEN /\ heard' = IF drained = 0 THEN heard ELSE out_block
          /\ driver' = "pushing"
          /\ UNCHANGED <<run, sequence, drained>>
     ELSE DriverTo("stopped")
  /\ UNCHANGED <<inVars, input_event, shutdown_event, sessionVars, host>>

\* The block the host has produced; a full queue drops it and the sequence goes
\* on, a queue that is not ready ends the worker.
PushInput ==
  /\ driver = "pushing"
  /\ \/ /\ BeginPush([run |-> run, sequence |-> sequence])
        /\ DriverTo("copying")
     \/ /\ PushIsFull
        /\ driver' = "waiting" /\ sequence' = sequence + 1
        /\ UNCHANGED <<ready, inVars, run, drained, heard>>
     \/ /\ ~ready
        /\ DriverTo("stopped")
        /\ UNCHANGED <<ready, inVars>>
  /\ UNCHANGED <<outVars, input_event, shutdown_event, sessionVars, host>>

PublishInput ==
  /\ driver = "copying"
  /\ FinishPush
  /\ DriverTo("signalling")
  /\ UNCHANGED <<outVars, input_event, shutdown_event, sessionVars, host>>

\* Fault: only the first block of a queue is announced.
FaultSignalWhenEmpty ==
  /\ driver = "signalling"
  /\ input_event' = (input_event \/ Fill <= 1)
  /\ driver' = "waiting" /\ sequence' = sequence + 1
  /\ UNCHANGED <<ready, inVars, outVars, shutdown_event, run, drained, heard,
                 sessionVars, host>>

SignalInput ==
  /\ driver = "signalling"
  /\ input_event' = TRUE
  /\ driver' = "waiting" /\ sequence' = sequence + 1
  /\ UNCHANGED <<ready, inVars, outVars, shutdown_event, run, drained, heard,
                 sessionVars, host>>

\* The DAW's process ends, wherever its thread is.
DriverDies ==
  /\ driver # "dead"
  /\ DriverTo("dead")
  /\ UNCHANGED <<ready, inVars, outVars, input_event, shutdown_event,
                 sessionVars, host>>

-----------------------------------------------------------------------------
(* The session's pump thread: WindowsVirtualAsioTransportSession::run() *)

SessionTo(place) == session' = place /\ UNCHANGED taken

\* The wait prefers the shutdown event to the input event, and resets the latter.
Wake ==
  /\ session = "waiting"
  /\ IF shutdown_event
     THEN SessionTo("ended") /\ UNCHANGED input_event
     ELSE /\ input_event
          /\ input_event' = FALSE
          /\ session' = "popping" /\ taken' = 0
  /\ UNCHANGED <<ready, inVars, outVars, shutdown_event, driverVars, host>>

\* Before it waits, also after a timeout, the thread looks whether the DAW has gone.
ClientExited ==
  /\ session = "waiting" /\ driver = "dead"
  /\ ready' = FALSE
  /\ SessionTo("ended")
  /\ UNCHANGED <<inVars, outVars, input_event, shutdown_event, driverVars, host>>

FindInput ==
  /\ session = "popping" /\ taken < MaxPerWake
  /\ BeginPop
  /\ SessionTo("reading")
  /\ UNCHANGED <<outVars, input_event, shutdown_event, driverVars, host>>

TakeInput ==
  /\ session = "reading"
  /\ FinishPop
  /\ session' = "pushing" /\ taken' = taken + 1
  /\ UNCHANGED <<outVars, input_event, shutdown_event, driverVars, host>>

\* Empty or not ready, or enough for one wake.
StopPopping ==
  /\ session = "popping"
  /\ \/ taken = MaxPerWake /\ UNCHANGED <<ready, inVars>>
     \/ taken < MaxPerWake /\ PopNothing
  /\ SessionTo("waiting")
  /\ UNCHANGED <<outVars, input_event, shutdown_event, driverVars, host>>

\* The processed block goes out under the number it came with. It is dropped
\* when the queue is full or not ready.
PushOutput ==
  /\ session = "pushing"
  /\ \/ Out!BeginPush(destination) /\ SessionTo("copying")
     \/ /\ Out!PushIsFull \/ ~ready
        /\ SessionTo("popping")
        /\ UNCHANGED <<ready, outVars>>
  /\ UNCHANGED <<inVars, input_event, shutdown_event, driverVars, host>>

PublishOutput ==
  /\ session = "copying"
  /\ Out!FinishPush
  /\ SessionTo("popping")
  /\ UNCHANGED <<inVars, input_event, shutdown_event, driverVars, host>>

-----------------------------------------------------------------------------
(* The host stops the session: a disconnection, a reaping or a shutdown *)

HostTo(place) ==
  host' = place /\ UNCHANGED <<inVars, outVars, input_event, driverVars, sessionVars>>

BeginStop ==
  host = "serving" /\ ready' = FALSE /\ HostTo("stopping") /\ UNCHANGED shutdown_event

\* Fault: the state word alone is to stop the threads.
FaultNoShutdownSignal ==
  host = "stopping" /\ HostTo("joining") /\ UNCHANGED <<ready, shutdown_event>>

SignalShutdown ==
  host = "stopping" /\ shutdown_event' = TRUE /\ HostTo("joining") /\ UNCHANGED ready

Join ==
  /\ host = "joining" /\ session = "ended"
  /\ HostTo("stopped") /\ UNCHANGED <<ready, shutdown_event>>

-----------------------------------------------------------------------------

DriverStep ==
  \/ BeginCycle
  \/ FindOutput
  \/ TakeOutput
  \/ Callback
  \/ PushInput
  \/ PublishInput
  \/ SignalInput

SessionStep ==
  \/ Wake
  \/ ClientExited
  \/ FindInput
  \/ TakeInput
  \/ StopPopping
  \/ PushOutput
  \/ PublishOutput

TransportNext ==
  \/ StartRuntime
  \/ StopRuntime
  \/ DriverStep
  \/ DriverDies
  \/ SessionStep
  \/ BeginStop
  \/ SignalShutdown
  \/ Join

\* Threads that run keep running, and a stop that has begun goes on; DAWs and
\* the user owe nothing.
Fairness ==
  /\ WF_transportVars(DriverStep)
  /\ WF_transportVars(SessionStep)
  /\ WF_transportVars(SignalShutdown)
  /\ WF_transportVars(Join)

TransportSpec == TransportInit /\ [][TransportNext]_transportVars /\ Fairness

-----------------------------------------------------------------------------

TransportTypeOK ==
  /\ QueueTypeOK /\ Out!QueueTypeOK
  /\ {input_event, shutdown_event} \subseteq BOOLEAN
  /\ driver \in Working \cup {"stopped", "dead"}
  /\ run \in 0 .. MaxRuns /\ sequence \in 0 .. MaxSequence
  /\ drained \in 0 .. Capacity
  /\ heard \in Blocks \cup {Silence}
  /\ session \in {"waiting", "popping", "reading", "pushing", "copying", "ended"}
  /\ taken \in 0 .. MaxPerWake
  /\ host \in {"serving", "stopping", "joining", "stopped"}

\* The session never sleeps on accepted input: whatever the order of publishing,
\* signalling, the reset of the event and the limit of a wake, a queue with blocks
\* has an event set, or a thread that is about to see to it.
NoLostWakeup ==
  (/\ session = "waiting" /\ ready
   /\ driver \notin {"signalling", "dead"}
   /\ Fill > 0)
  => input_event

Later(b, c) ==
  b # Silence => \/ c.run > b.run
                 \/ c.run = b.run /\ c.sequence > b.sequence

\* What the DAW hears only moves forward, also when blocks are dropped on both
\* ways, and when the driver is stopped and started with the blocks of its earlier
\* run, and their sequence numbers, still under way.
HeardInOrder == [][heard' # heard => Later(heard, heard')]_heard

\* A block the driver published is taken, unless the connection ends.
EveryBlockIsTaken ==
  \A position \in 0 .. MaxPosition - 1 :
    (write_position > position) ~> (read_position > position \/ ~ready \/ driver = "dead")

\* stop() of a session returns: the pump thread leaves in time whatever it is at,
\* and the callback thread notices that its connection is gone.
StopEndsBothThreads ==
  (host = "joining") ~> (host = "stopped" /\ driver \in {"stopped", "dead"})
=============================================================================
