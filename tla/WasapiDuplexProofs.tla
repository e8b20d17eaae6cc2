------------------------- MODULE WasapiDuplexProofs -------------------------
(***************************************************************************)
(* Proofs about the two halves of a duplex loop, and about the Virtual     *)
(* WASAPI ring its runner may take further input from.                     *)
(*                                                                         *)
(* WasapiDuplexLoop, for any number of starts: the invariant Inv says what *)
(* the owner may rely on at each place of a call: whether the worker's     *)
(* thread and the observer's can still run, and, while no call is about to *)
(* end the loop, that whatever ends it leaves an error.                    *)
(*                                                                         *)
(* WasapiGraphRunner, for blocks, packets, buffers and a resampler of any  *)
(* size: RunnerInv says that every frame queued anywhere between the       *)
(* capture client and the graph was taken since the last discontinuity or  *)
(* start, and that what the client holds has a mark at every gap but the   *)
(* one of a start that found packets in it.                                *)
(*                                                                         *)
(* VirtualWasapiRing, for every number of slots and all sizes of packets   *)
(* and blocks: the types of the ring, PacketsAreWhole and CursorFollows    *)
(* are inductive together (RingInv). The producer writes the slot of its   *)
(* own sequence, which no published packet shares, and the cursor moves    *)
(* only within the packet last taken from the ring.                        *)
(***************************************************************************)
EXTENDS WasapiDuplexLoop, WasapiGraphRunner, VirtualWasapiRing, SequenceTheorems, TLAPS

\* A call is at the places of its own code only.
CallShape ==
  /\ call.at \in {"startup", "rollback"} => call.of = "start"
  /\ call.at = "worker" => call.of \in {"stop", "destroy"}
  /\ call = Idle \/ call.at # "idle"
  /\ At("start", "observer") => session < MaxSessions

\* running_ is what the worker's thread says, and its streams are started
\* between the end of its startup and the end of its cleanup only.
WorkerRuns ==
  /\ running <=> worker \in {"starting", "loop", "stopping", "stopped"}
  /\ worker \notin {"loop", "stopping"} => \A s \in Sides : streams[s] # "Started"

\* A thread that is about to be waited for, or has been, is there or gone.
Joins ==
  /\ call.at \in {"startup", "rollback", "worker"} => observer = "none"
  /\ At("start", "startup") => worker # "none"
  /\ worker = "starting" => At("start", "startup") /\ startup = "pending" /\ ~stop_requested
  /\ call = Idle /\ returned = "started" => worker # "none"
  /\ streams = All("Closed") => call = Idle /\ worker = "none" /\ observer = "none"

\* Somebody ends the loop, or an error has.
Cause == errors \/ call.at \in {"worker", "rollback"}

EndHasCause ==
  /\ worker = "loop" /\ (stop_requested \/ \E s \in Sides : stop_events[s]) => Cause
  /\ worker \in {"stopping", "stopped", "exited"} => Cause

Inv ==
  /\ TypeOK /\ CallShape /\ WorkerRuns /\ Joins /\ EndHasCause
  /\ StoppedMeansQuiet /\ FeedForwardIsOfThisSession

-----------------------------------------------------------------------------

\* The initial states satisfy it.
LEMMA InitInv == Init => Inv
<1> SUFFICES ASSUME Init PROVE Inv
  OBVIOUS
<1> USE DuplexLoopAssumption DEF Init, Idle, Sides, All
<1>1. TypeOK
  <2>1. {running, stop_requested, errors, observer_stop, valid} \subseteq BOOLEAN
    OBVIOUS
  <2>2. tracker \in [invalid : 0 .. MaxInvalid, disabled : BOOLEAN]
    BY DEF ResetTracker
  <2>3. stop_events \in [Sides -> BOOLEAN] /\ streams \in [Sides -> {"Closed", "Open", "Started"}]
    OBVIOUS
  <2> QED
    BY <2>1, <2>2, <2>3 DEF TypeOK, Calls
<1>2. CallShape /\ WorkerRuns
  BY DEF CallShape, WorkerRuns, At
<1>3. Joins /\ EndHasCause
  BY DEF Joins, EndHasCause, Cause, At
<1>4. StoppedMeansQuiet /\ FeedForwardIsOfThisSession
  BY DEF StoppedMeansQuiet, FeedForwardIsOfThisSession
<1> QED
  BY <1>1, <1>2, <1>3, <1>4 DEF Inv

\* A configuration opened again finds no thread and leaves none.
LEMMA OpenStep ==
  ASSUME Inv, Open
  PROVE  Inv'
<1> USE DuplexLoopAssumption DEF Open, workerVars, clockVars, Idle, Sides, All, At
<1>1. TypeOK'
  BY DEF Inv, TypeOK, CallShape, Calls
<1>2. CallShape'
  BY DEF Inv, TypeOK, CallShape, Calls
<1>3. WorkerRuns'
  BY DEF Inv, TypeOK, WorkerRuns, Joins
<1>4. Joins'
  BY DEF Inv, TypeOK, CallShape, WorkerRuns, Joins, Calls
<1>5. EndHasCause'
  BY DEF Inv, TypeOK, CallShape, WorkerRuns, Joins, EndHasCause, Cause, Calls
<1>6. StoppedMeansQuiet'
  BY DEF Inv, TypeOK, CallShape, WorkerRuns, Joins, StoppedMeansQuiet, Calls
<1>7. FeedForwardIsOfThisSession'
  BY DEF Inv, TypeOK, CallShape, FeedForwardIsOfThisSession
<1> QED
  BY <1>1, <1>2, <1>3, <1>4, <1>5, <1>6, <1>7 DEF Inv

\* An open that fails finds no thread and leaves none.
LEMMA OpenFailsStep ==
  ASSUME Inv, OpenFails
  PROVE  Inv'
<1> USE DuplexLoopAssumption DEF OpenFails, workerVars, clockVars, Idle, Sides, All, At
<1>1. TypeOK'
  BY DEF Inv, TypeOK, CallShape, Calls
<1>2. CallShape'
  BY DEF Inv, TypeOK, CallShape, Calls
<1>3. WorkerRuns'
  BY DEF Inv, TypeOK, WorkerRuns, Joins
<1>4. Joins'
  BY DEF Inv, TypeOK, CallShape, WorkerRuns, Joins, Calls
<1>5. EndHasCause'
  BY DEF Inv, TypeOK, CallShape, WorkerRuns, Joins, EndHasCause, Cause, Calls
<1>6. StoppedMeansQuiet'
  BY DEF Inv, TypeOK, CallShape, WorkerRuns, Joins, StoppedMeansQuiet, Calls
<1>7. FeedForwardIsOfThisSession'
  BY DEF Inv, TypeOK, CallShape, FeedForwardIsOfThisSession
<1> QED
  BY <1>1, <1>2, <1>3, <1>4, <1>5, <1>6, <1>7 DEF Inv

\* A call can begin only when no call is under way.
LEMMA CallStep ==
  ASSUME NEW of \in Calls, Inv, Call(of)
  PROVE  Inv'
<1> USE DuplexLoopAssumption DEF Call, workerVars, clockVars, Idle, Sides, All, At
<1>1. TypeOK'
  BY DEF Inv, TypeOK, CallShape, Calls
<1>2. CallShape'
  BY DEF Inv, TypeOK, CallShape, Calls
<1>3. WorkerRuns'
  BY DEF Inv, TypeOK, WorkerRuns, Joins
<1>4. Joins'
  BY DEF Inv, TypeOK, CallShape, WorkerRuns, Joins, Calls
<1>5. EndHasCause'
  BY DEF Inv, TypeOK, CallShape, WorkerRuns, Joins, EndHasCause, Cause, Calls
<1>6. StoppedMeansQuiet'
  BY DEF Inv, TypeOK, CallShape, WorkerRuns, Joins, StoppedMeansQuiet, Calls
<1>7. FeedForwardIsOfThisSession'
  BY DEF Inv, TypeOK, CallShape, FeedForwardIsOfThisSession
<1> QED
  BY <1>1, <1>2, <1>3, <1>4, <1>5, <1>6, <1>7 DEF Inv

\* The worker starts with the errors and flags of earlier sessions cleared.
LEMMA StartWorkerStep ==
  ASSUME Inv, StartWorker
  PROVE  Inv'
<1> USE DuplexLoopAssumption DEF StartWorker, ObserverJoined, WorkerJoined, Returns, ResetTracker, workerVars, clockVars, Idle, Sides, All, At
<1>1. TypeOK'
  <2>1. tracker' \in [invalid : 0 .. MaxInvalid, disabled : BOOLEAN]
    OBVIOUS
  <2>2. session' \in 0 .. MaxSessions /\ feed_forward' \in 0 .. MaxSessions
    BY DEF Inv, TypeOK, CallShape
  <2>3. call' \in {Idle} \union [of : Calls, at : {"observer", "startup", "rollback", "worker"}]
    BY DEF Inv, TypeOK, CallShape, Calls
  <2>4. {running, stop_requested, errors, observer_stop, valid}' \subseteq BOOLEAN
    BY DEF Inv, TypeOK
  <2> QED
    BY <2>1, <2>2, <2>3, <2>4 DEF Inv, TypeOK
<1>2. CallShape'
  BY DEF Inv, TypeOK, CallShape, Calls
<1>3. WorkerRuns'
  BY DEF Inv, TypeOK, WorkerRuns, Joins
<1>4. Joins'
  BY DEF Inv, TypeOK, CallShape, WorkerRuns, Joins, Calls
<1>5. EndHasCause'
  BY DEF Inv, TypeOK, CallShape, WorkerRuns, Joins, EndHasCause, Cause, Calls
<1>6. StoppedMeansQuiet'
  BY DEF Inv, TypeOK, CallShape, WorkerRuns, Joins, StoppedMeansQuiet, Calls
<1>7. FeedForwardIsOfThisSession'
  BY DEF Inv, TypeOK, CallShape, FeedForwardIsOfThisSession
<1> QED
  BY <1>1, <1>2, <1>3, <1>4, <1>5, <1>6, <1>7 DEF Inv

\* A startup that failed has left no stream started.
LEMMA StartupFailedStep ==
  ASSUME Inv, StartupFailed
  PROVE  Inv'
<1> USE DuplexLoopAssumption DEF StartupFailed, WorkerJoined, Returns, workerVars, clockVars, Idle, Sides, All, At
<1>1. TypeOK'
  BY DEF Inv, TypeOK, CallShape, Calls
<1>2. CallShape'
  BY DEF Inv, TypeOK, CallShape, Calls
<1>3. WorkerRuns'
  BY DEF Inv, TypeOK, WorkerRuns, Joins
<1>4. Joins'
  BY DEF Inv, TypeOK, CallShape, WorkerRuns, Joins, Calls
<1>5. EndHasCause'
  BY DEF Inv, TypeOK, CallShape, WorkerRuns, Joins, EndHasCause, Cause, Calls
<1>6. StoppedMeansQuiet'
  BY DEF Inv, TypeOK, CallShape, WorkerRuns, Joins, StoppedMeansQuiet, Calls
<1>7. FeedForwardIsOfThisSession'
  BY DEF Inv, TypeOK, CallShape, FeedForwardIsOfThisSession
<1> QED
  BY <1>1, <1>2, <1>3, <1>4, <1>5, <1>6, <1>7 DEF Inv

\* The observer starts only behind a worker that runs.
LEMMA StartObserverStep ==
  ASSUME Inv, StartObserver
  PROVE  Inv'
<1> USE DuplexLoopAssumption DEF StartObserver, StopWorker, Returns, workerVars, clockVars, Idle, Sides, All, At
<1>1. TypeOK'
  <2>1. TypeOK
    BY DEF Inv
  <2>2. call' \in {Idle} \union [of : Calls, at : {"observer", "startup", "rollback", "worker"}]
    BY <2>1 DEF TypeOK
  <2>3. /\ stop_events' \in [Sides -> BOOLEAN]
        /\ stop_requested' \in BOOLEAN /\ observer_stop' \in BOOLEAN
        /\ observer' \in {observer, "starting"}
    BY <2>1 DEF TypeOK
  <2>4. UNCHANGED <<streams, worker, running, startup, errors, feed_forward, valid, tracker, session>>
    OBVIOUS
  <2> HIDE DEF StartObserver, StopWorker, Returns, All, At, Idle, Sides
  <2> QED
    BY <2>1, <2>2, <2>3, <2>4 DEF TypeOK
<1>2. CallShape'
  BY DEF Inv, TypeOK, CallShape, Calls
<1>3. WorkerRuns'
  BY DEF Inv, TypeOK, WorkerRuns, Joins
<1>4. Joins'
  BY DEF Inv, TypeOK, CallShape, WorkerRuns, Joins, Calls
<1>5. EndHasCause'
  BY DEF Inv, TypeOK, CallShape, WorkerRuns, Joins, EndHasCause, Cause, Calls
<1>6. StoppedMeansQuiet'
  BY DEF Inv, TypeOK, CallShape, WorkerRuns, Joins, StoppedMeansQuiet, Calls
<1>7. FeedForwardIsOfThisSession'
  BY DEF Inv, TypeOK, CallShape, FeedForwardIsOfThisSession
<1> QED
  BY <1>1, <1>2, <1>3, <1>4, <1>5, <1>6, <1>7 DEF Inv

\* The observer is gone before the worker is told to stop.
LEMMA StopObserverThenWorkerStep ==
  ASSUME Inv, StopObserverThenWorker
  PROVE  Inv'
<1> USE DuplexLoopAssumption DEF StopObserverThenWorker, StopWorker, ObserverJoined, workerVars, clockVars, Idle, Sides, All, At
<1>1. TypeOK'
  BY DEF Inv, TypeOK, CallShape, Calls
<1>2. CallShape'
  BY DEF Inv, TypeOK, CallShape, Calls
<1>3. WorkerRuns'
  BY DEF Inv, TypeOK, WorkerRuns, Joins
<1>4. Joins'
  BY DEF Inv, TypeOK, CallShape, WorkerRuns, Joins, Calls
<1>5. EndHasCause'
  BY DEF Inv, TypeOK, CallShape, WorkerRuns, Joins, EndHasCause, Cause, Calls
<1>6. StoppedMeansQuiet'
  BY DEF Inv, TypeOK, CallShape, WorkerRuns, Joins, StoppedMeansQuiet, Calls
<1>7. FeedForwardIsOfThisSession'
  BY DEF Inv, TypeOK, CallShape, FeedForwardIsOfThisSession
<1> QED
  BY <1>1, <1>2, <1>3, <1>4, <1>5, <1>6, <1>7 DEF Inv

\* The worker that is joined has left its streams stopped.
LEMMA JoinWorkerStep ==
  ASSUME Inv, JoinWorker
  PROVE  Inv'
<1> USE DuplexLoopAssumption DEF JoinWorker, WorkerJoined, Returns, workerVars, clockVars, Idle, Sides, All, At
<1>1. TypeOK'
  <2>1. TypeOK
    BY DEF Inv
  <2>2. streams' \in [Sides -> {"Closed", "Open", "Started"}]
    BY <2>1 DEF TypeOK
  <2>3. call' \in {Idle} /\ worker' = "none"
    OBVIOUS
  <2>4. UNCHANGED <<stop_events, observer, observer_stop, running, stop_requested, startup, errors,
                    feed_forward, valid, tracker, session>>
    OBVIOUS
  <2> HIDE DEF JoinWorker, WorkerJoined, Returns, All, At, Idle, Sides
  <2> QED
    BY <2>1, <2>2, <2>3, <2>4 DEF TypeOK
<1>2. CallShape'
  BY DEF Inv, TypeOK, CallShape, Calls
<1>3. WorkerRuns'
  BY DEF Inv, TypeOK, WorkerRuns, Joins
<1>4. Joins'
  BY DEF Inv, TypeOK, CallShape, WorkerRuns, Joins, Calls
<1>5. EndHasCause'
  BY DEF Inv, TypeOK, CallShape, WorkerRuns, Joins, EndHasCause, Cause, Calls
<1>6. StoppedMeansQuiet'
  BY DEF Inv, TypeOK, CallShape, WorkerRuns, Joins, StoppedMeansQuiet, Calls
<1>7. FeedForwardIsOfThisSession'
  BY DEF Inv, TypeOK, CallShape, FeedForwardIsOfThisSession
<1> QED
  BY <1>1, <1>2, <1>3, <1>4, <1>5, <1>6, <1>7 DEF Inv

\* Streams are started only by a worker that then says it is running.
LEMMA RunStartupStep ==
  ASSUME Inv, RunStartup
  PROVE  Inv'
<1> USE DuplexLoopAssumption DEF RunStartup, StartupFails, workerVars, clockVars, Idle, Sides, All, At
<1>1. TypeOK'
  <2>1. TypeOK
    BY DEF Inv
  <2>2. streams' \in [Sides -> {"Closed", "Open", "Started"}] /\ stop_events' \in [Sides -> BOOLEAN]
    <3>1. /\ streams' = All("Open") \/ streams' = All("Started")
          /\ stop_events' = All(FALSE) \/ \E begun :
               stop_events' = [s \in Sides |-> s \notin begun /\ stop_events[s]]
      OBVIOUS
    <3> HIDE DEF RunStartup, StartupFails, Sides
    <3>2. stop_events \in [Sides -> BOOLEAN]
      BY <2>1 DEF TypeOK
    <3> QED BY <3>1, <3>2
  <2>3. /\ running' \in BOOLEAN /\ errors' \in BOOLEAN
        /\ startup' \in {"failed", "succeeded"} /\ worker' \in {"exited", "loop"}
    BY <2>1 DEF TypeOK
  <2>4. UNCHANGED <<call, observer, observer_stop, stop_requested, feed_forward, valid, tracker, session>>
    OBVIOUS
  <2> HIDE DEF RunStartup, StartupFails, All, At, Idle, Sides
  <2> QED
    BY <2>1, <2>2, <2>3, <2>4 DEF TypeOK
<1>2. CallShape'
  BY DEF Inv, TypeOK, CallShape, Calls
<1>3. WorkerRuns'
  BY DEF Inv, TypeOK, WorkerRuns, Joins
<1>4. Joins'
  BY DEF Inv, TypeOK, CallShape, WorkerRuns, Joins, Calls
<1>5. EndHasCause'
  BY DEF Inv, TypeOK, CallShape, WorkerRuns, Joins, EndHasCause, Cause, Calls
<1>6. StoppedMeansQuiet'
  BY DEF Inv, TypeOK, CallShape, WorkerRuns, Joins, StoppedMeansQuiet, Calls
<1>7. FeedForwardIsOfThisSession'
  BY DEF Inv, TypeOK, CallShape, FeedForwardIsOfThisSession
<1> QED
  BY <1>1, <1>2, <1>3, <1>4, <1>5, <1>6, <1>7 DEF Inv

\* The worker leaves its loop only on a stop or an error.
LEMMA LeaveLoopStep ==
  ASSUME Inv, LeaveLoop
  PROVE  Inv'
<1> USE DuplexLoopAssumption DEF LeaveLoop, workerVars, clockVars, Idle, Sides, All, At
<1>1. TypeOK'
  BY DEF Inv, TypeOK, CallShape, Calls
<1>2. CallShape'
  BY DEF Inv, TypeOK, CallShape, Calls
<1>3. WorkerRuns'
  BY DEF Inv, TypeOK, WorkerRuns, Joins
<1>4. Joins'
  BY DEF Inv, TypeOK, CallShape, WorkerRuns, Joins, Calls
<1>5. EndHasCause'
  BY DEF Inv, TypeOK, CallShape, WorkerRuns, Joins, EndHasCause, Cause, Calls
<1>6. StoppedMeansQuiet'
  BY DEF Inv, TypeOK, CallShape, WorkerRuns, Joins, StoppedMeansQuiet, Calls
<1>7. FeedForwardIsOfThisSession'
  BY DEF Inv, TypeOK, CallShape, FeedForwardIsOfThisSession
<1> QED
  BY <1>1, <1>2, <1>3, <1>4, <1>5, <1>6, <1>7 DEF Inv

\* A block that fails leaves its error.
LEMMA ProcessFailsStep ==
  ASSUME Inv, ProcessFails
  PROVE  Inv'
<1> USE DuplexLoopAssumption DEF ProcessFails, workerVars, clockVars, Idle, Sides, All, At
<1>1. TypeOK'
  BY DEF Inv, TypeOK, CallShape, Calls
<1>2. CallShape'
  BY DEF Inv, TypeOK, CallShape, Calls
<1>3. WorkerRuns'
  BY DEF Inv, TypeOK, WorkerRuns, Joins
<1>4. Joins'
  BY DEF Inv, TypeOK, CallShape, WorkerRuns, Joins, Calls
<1>5. EndHasCause'
  BY DEF Inv, TypeOK, CallShape, WorkerRuns, Joins, EndHasCause, Cause, Calls
<1>6. StoppedMeansQuiet'
  BY DEF Inv, TypeOK, CallShape, WorkerRuns, Joins, StoppedMeansQuiet, Calls
<1>7. FeedForwardIsOfThisSession'
  BY DEF Inv, TypeOK, CallShape, FeedForwardIsOfThisSession
<1> QED
  BY <1>1, <1>2, <1>3, <1>4, <1>5, <1>6, <1>7 DEF Inv

\* Cleanup stops whatever startup has started.
LEMMA StopStreamsStep ==
  ASSUME Inv, StopStreams
  PROVE  Inv'
<1> USE DuplexLoopAssumption DEF StopStreams, workerVars, clockVars, Idle, Sides, All, At
<1>1. TypeOK'
  BY DEF Inv, TypeOK, CallShape, Calls
<1>2. CallShape'
  BY DEF Inv, TypeOK, CallShape, Calls
<1>3. WorkerRuns'
  BY DEF Inv, TypeOK, WorkerRuns, Joins
<1>4. Joins'
  BY DEF Inv, TypeOK, CallShape, WorkerRuns, Joins, Calls
<1>5. EndHasCause'
  BY DEF Inv, TypeOK, CallShape, WorkerRuns, Joins, EndHasCause, Cause, Calls
<1>6. StoppedMeansQuiet'
  BY DEF Inv, TypeOK, CallShape, WorkerRuns, Joins, StoppedMeansQuiet, Calls
<1>7. FeedForwardIsOfThisSession'
  BY DEF Inv, TypeOK, CallShape, FeedForwardIsOfThisSession
<1> QED
  BY <1>1, <1>2, <1>3, <1>4, <1>5, <1>6, <1>7 DEF Inv

\* The worker says it has stopped only after cleanup.
LEMMA EndWorkerStep ==
  ASSUME Inv, EndWorker
  PROVE  Inv'
<1> USE DuplexLoopAssumption DEF EndWorker, workerVars, clockVars, Idle, Sides, All, At
<1>1. TypeOK'
  BY DEF Inv, TypeOK, CallShape, Calls
<1>2. CallShape'
  BY DEF Inv, TypeOK, CallShape, Calls
<1>3. WorkerRuns'
  BY DEF Inv, TypeOK, WorkerRuns, Joins
<1>4. Joins'
  BY DEF Inv, TypeOK, CallShape, WorkerRuns, Joins, Calls
<1>5. EndHasCause'
  BY DEF Inv, TypeOK, CallShape, WorkerRuns, Joins, EndHasCause, Cause, Calls
<1>6. StoppedMeansQuiet'
  BY DEF Inv, TypeOK, CallShape, WorkerRuns, Joins, StoppedMeansQuiet, Calls
<1>7. FeedForwardIsOfThisSession'
  BY DEF Inv, TypeOK, CallShape, FeedForwardIsOfThisSession
<1> QED
  BY <1>1, <1>2, <1>3, <1>4, <1>5, <1>6, <1>7 DEF Inv

\* The observer begins without a correction of an earlier session.
LEMMA ObserverStartsStep ==
  ASSUME Inv, ObserverStarts
  PROVE  Inv'
<1> USE DuplexLoopAssumption DEF ObserverStarts, SetFeedForward, workerVars, clockVars, Idle, Sides, All, At
<1>1. TypeOK'
  <2>1. valid' \in BOOLEAN
    BY DEF Inv, TypeOK
  <2>2. tracker' \in [invalid : 0 .. MaxInvalid, disabled : BOOLEAN]
    BY DEF Inv, TypeOK
  <2> QED
    BY <2>1, <2>2 DEF Inv, TypeOK
<1>2. CallShape'
  BY DEF Inv, TypeOK, CallShape, Calls
<1>3. WorkerRuns'
  BY DEF Inv, TypeOK, WorkerRuns, Joins
<1>4. Joins'
  BY DEF Inv, TypeOK, CallShape, WorkerRuns, Joins, Calls
<1>5. EndHasCause'
  BY DEF Inv, TypeOK, CallShape, WorkerRuns, Joins, EndHasCause, Cause, Calls
<1>6. StoppedMeansQuiet'
  BY DEF Inv, TypeOK, CallShape, WorkerRuns, Joins, StoppedMeansQuiet, Calls
<1>7. FeedForwardIsOfThisSession'
  <2>1. CASE UNCHANGED <<feed_forward, valid>>
    BY <2>1 DEF Inv, FeedForwardIsOfThisSession
  <2>2. CASE SetFeedForward(0)
    BY <2>2 DEF FeedForwardIsOfThisSession
  <2> QED
    BY <2>1, <2>2
<1> QED
  BY <1>1, <1>2, <1>3, <1>4, <1>5, <1>6, <1>7 DEF Inv

\* Waking up changes only where the observer is.
LEMMA ObserverWakesStep ==
  ASSUME Inv, ObserverWakes
  PROVE  Inv'
<1> USE DuplexLoopAssumption DEF ObserverWakes, workerVars, clockVars, Idle, Sides, All, At
<1>1. TypeOK'
  BY DEF Inv, TypeOK, CallShape, Calls
<1>2. CallShape'
  BY DEF Inv, TypeOK, CallShape, Calls
<1>3. WorkerRuns'
  BY DEF Inv, TypeOK, WorkerRuns, Joins
<1>4. Joins'
  BY DEF Inv, TypeOK, CallShape, WorkerRuns, Joins, Calls
<1>5. EndHasCause'
  BY DEF Inv, TypeOK, CallShape, WorkerRuns, Joins, EndHasCause, Cause, Calls
<1>6. StoppedMeansQuiet'
  BY DEF Inv, TypeOK, CallShape, WorkerRuns, Joins, StoppedMeansQuiet, Calls
<1>7. FeedForwardIsOfThisSession'
  BY DEF Inv, TypeOK, CallShape, FeedForwardIsOfThisSession
<1> QED
  BY <1>1, <1>2, <1>3, <1>4, <1>5, <1>6, <1>7 DEF Inv

\* What the observer measures belongs to the present session.
LEMMA ObserveStep ==
  ASSUME Inv, Observe
  PROVE  Inv'
<1> USE DuplexLoopAssumption DEF Observe, SetFeedForward, Record, workerVars, clockVars, Idle, Sides, All, At
<1>1. TypeOK'
  <2>1. valid' \in BOOLEAN
    BY DEF Inv, TypeOK
  <2>2. tracker' \in [invalid : 0 .. MaxInvalid, disabled : BOOLEAN]
    <3>1. CASE UNCHANGED tracker
      BY <3>1 DEF Inv, TypeOK
    <3>2. CASE tracker' = [invalid |-> 0, disabled |-> FALSE]
      BY <3>2
    <3>3. CASE /\ tracker.invalid + 1 < MaxInvalid
               /\ tracker' = [invalid |-> tracker.invalid + 1, disabled |-> FALSE]
      BY <3>3 DEF Inv, TypeOK
    <3>4. CASE tracker' = [invalid |-> MaxInvalid, disabled |-> TRUE]
      BY <3>4
    <3> QED
      BY <3>1, <3>2, <3>3, <3>4
  <2> QED
    BY <2>1, <2>2 DEF Inv, TypeOK
<1>2. CallShape'
  BY DEF Inv, TypeOK, CallShape, Calls
<1>3. WorkerRuns'
  BY DEF Inv, TypeOK, WorkerRuns, Joins
<1>4. Joins'
  BY DEF Inv, TypeOK, CallShape, WorkerRuns, Joins, Calls
<1>5. EndHasCause'
  BY DEF Inv, TypeOK, CallShape, WorkerRuns, Joins, EndHasCause, Cause, Calls
<1>6. StoppedMeansQuiet'
  BY DEF Inv, TypeOK, CallShape, WorkerRuns, Joins, StoppedMeansQuiet, Calls
<1>7. FeedForwardIsOfThisSession'
  BY DEF Inv, TypeOK, CallShape, FeedForwardIsOfThisSession
<1> QED
  BY <1>1, <1>2, <1>3, <1>4, <1>5, <1>6, <1>7 DEF Inv

-----------------------------------------------------------------------------

\* The invariant holds of every behaviour.
THEOREM InvHolds == Spec => []Inv
<1>1. Inv /\ [Next]_vars => Inv'
  <2> SUFFICES ASSUME Inv, [Next]_vars PROVE Inv'
    OBVIOUS
  <2>1. CASE Open \/ OpenFails
    BY <2>1, OpenStep, OpenFailsStep
  <2>2. CASE \E of \in Calls : Call(of)
    BY <2>2, CallStep
  <2>3. CASE Owner
    BY <2>3, StartWorkerStep, StartupFailedStep, StartObserverStep, StopObserverThenWorkerStep,
       JoinWorkerStep DEF Owner
  <2>4. CASE Worker
    BY <2>4, RunStartupStep, LeaveLoopStep, StopStreamsStep, EndWorkerStep DEF Worker
  <2>5. CASE ProcessFails
    BY <2>5, ProcessFailsStep
  <2>6. CASE Observer
    BY <2>6, ObserverStartsStep, ObserverWakesStep, ObserveStep DEF Observer
  <2>7. CASE UNCHANGED vars
    <3> USE <2>7 DEF vars, workerVars, clockVars
    <3>1. TypeOK' /\ CallShape' /\ WorkerRuns'
      BY DEF Inv, TypeOK, CallShape, WorkerRuns, At
    <3>2. Joins' /\ EndHasCause'
      BY DEF Inv, Joins, EndHasCause, Cause, At
    <3>3. StoppedMeansQuiet' /\ FeedForwardIsOfThisSession'
      BY DEF Inv, StoppedMeansQuiet, FeedForwardIsOfThisSession
    <3> QED
      BY <3>1, <3>2, <3>3 DEF Inv
  <2> QED
    BY <2>1, <2>2, <2>3, <2>4, <2>5, <2>6, <2>7 DEF Next
<1> QED
  BY <1>1, InitInv, PTL DEF Spec

\* Every variable of the loop keeps its type.
THEOREM TypeCorrect == Spec => []TypeOK
<1>1. Inv => TypeOK
  BY DEF Inv
<1> QED
  BY <1>1, InvHolds, PTL

\* However many starts there are, and whichever of their steps fails, no stream
\* is left started when the loop does not run.
THEOREM DevicesReleased == Spec => []DevicesAreReleased
<1>1. Inv => DevicesAreReleased
  BY DEF Inv, WorkerRuns, DevicesAreReleased
<1> QED
  BY <1>1, InvHolds, PTL

\* When a stop, a destruction or a start that failed has returned, neither thread
\* of the loop is left.
THEOREM StoppedIsQuiet == Spec => []StoppedMeansQuiet
<1>1. Inv => StoppedMeansQuiet
  BY DEF Inv
<1> QED
  BY <1>1, InvHolds, PTL

\* A loop that has ended by itself has an error for the supervisor to classify:
\* no event or flag of a stop before outlives the start after it.
THEOREM DeathHasReason == Spec => []DeadLoopHasReason
<1>1. Inv => DeadLoopHasReason
  BY DEF Inv, TypeOK, WorkerRuns, Joins, EndHasCause, Cause, Idle, DeadLoopHasReason
<1> QED
  BY <1>1, InvHolds, PTL

\* The rate correction in force was measured in the present session.
THEOREM FeedForwardIsFresh == Spec => []FeedForwardIsOfThisSession
<1>1. Inv => FeedForwardIsOfThisSession
  BY DEF Inv
<1> QED
  BY <1>1, InvHolds, PTL

-----------------------------------------------------------------------------
(* The cycles of the worker.                                               *)

\* An adapter that holds frames of the stretches S only.
Adapters(S) ==
  [resampler : Seq(S), ready : Seq(S), primed : BOOLEAN, recovering : BOOLEAN,
   preroll : BOOLEAN, produced : BOOLEAN]

\* Whatever is queued between the capture client and the graph has been taken since
\* the last discontinuity: in the FIFO, in the resampler, in the block begun, and in
\* the last block, of which nothing is left between the cycles. The preroll comes
\* before the first block.
FramesAreTaken ==
  /\ capture_fifo \in Seq(taken)
  /\ adapter \in Adapters(taken)
  /\ adapter.preroll => ~adapter.primed
  /\ graph_input \subseteq taken
  /\ pc \in {"stopped", "wait", "capture"} => graph_input = {}

FramesInv == RunnerTypeOK /\ FramesAreTaken

\* The flag of a packet is on the first of its stretch.
IsMarked(p, before) == p.flagged \/ before \subseteq {p.stretch}

\* A run that began with an empty client has taken frames of one stretch since the
\* last discontinuity, and the next gap in what the client holds, or in what comes
\* after it, will be marked.
GapsAreMarked ==
  /\ ~baseline => taken = {}
  /\ ~leftover =>
       /\ \A g, h \in taken : g = h
       /\ gap = "resumed" => packets = <<>> /\ taken = {}
       /\ packets = <<>> /\ gap = "none" => taken \subseteq {stretch}
       /\ packets # <<>> => IsMarked(packets[1], taken)
       /\ \A i \in 2 .. Len(packets) : IsMarked(packets[i], {packets[i - 1].stretch})
       /\ packets # <<>> /\ gap = "none" => packets[Len(packets)].stretch = stretch

RunnerInv == FramesInv /\ GapsAreMarked

-----------------------------------------------------------------------------

LEMMA Capacities ==
  /\ {Block, Period, CaptureBuffer, RenderBuffer, MaxSkew, MaxLate} \subseteq Nat \ {0}
  /\ Lookahead \in Nat
  /\ FifoCapacity \in Nat \ {0}
  /\ RenderTarget \in 0 .. FifoCapacity
  /\ Block <= FifoCapacity
BY Configuration DEF FifoCapacity, RenderTarget, Most, Least

\* Frames of some stretches are frames of more.
LEMMA MoreStretches ==
  ASSUME NEW S, NEW T, S \subseteq T
  PROVE  Seq(S) \subseteq Seq(T)
<1>1. ASSUME NEW s \in Seq(S)
      PROVE  s \in Seq(T)
  <2>1. \A i \in 1 .. Len(s) : s[i] \in T
    BY <1>1
  <2>2. QED
    BY <1>1, <2>1
<1>2. QED
  BY <1>1

\* A part of a sequence.
LEMMA PartType ==
  ASSUME NEW S, NEW s \in Seq(S), NEW m \in Nat \ {0}, NEW n \in Int, n <= Len(s)
  PROVE  /\ SubSeq(s, m, n) \in Seq(S)
         /\ Len(SubSeq(s, m, n)) = IF m <= n THEN n - m + 1 ELSE 0
<1>1. \A i \in m .. n : s[i] \in S
  OBVIOUS
<1>2. QED
  BY <1>1, SubSeqProperties

LEMMA PushType ==
  ASSUME NEW S, NEW fifo \in Seq(S), NEW frames \in Seq(S), Len(fifo) <= FifoCapacity
  PROVE  Push(fifo, frames) \in Seq(S) /\ Len(Push(fifo, frames)) <= FifoCapacity
<1> DEFINE n    == Least(Len(frames), FifoCapacity - Len(fifo))
           part == SubSeq(frames, 1, n)
<1>1. n \in Int /\ n <= Len(frames) /\ n <= FifoCapacity - Len(fifo) /\ 0 <= n
  BY Capacities DEF Least
<1> HIDE DEF n
<1>2. part \in Seq(S) /\ Len(part) = IF 1 <= n THEN n ELSE 0
  BY <1>1, PartType
<1> HIDE DEF part
<1>3. fifo \o part \in Seq(S) /\ Len(fifo \o part) = Len(fifo) + Len(part)
  BY <1>2, ConcatProperties
<1>4. Push(fifo, frames) = fifo \o part
  BY DEF Push, part, n
<1>5. QED
  BY <1>1, <1>2, <1>3, <1>4, Capacities

LEMMA ConsumeType ==
  ASSUME NEW S, NEW fifo \in Seq(S), NEW n \in Nat, Len(fifo) <= FifoCapacity
  PROVE  Consume(fifo, n) \in Seq(S) /\ Len(Consume(fifo, n)) <= FifoCapacity
<1>1. n + 1 \in Nat \ {0} /\ Len(fifo) \in Nat
  OBVIOUS
<1>2. QED
  BY <1>1, PartType, Capacities DEF Consume

\* A block, or a part of one, holds frames of the FIFO and of the resampler and
\* no others, and the resampler keeps a frame more than its lookahead at most.
LEMMA ResampledType ==
  ASSUME NEW S, NEW a \in Adapters(S), NEW surplus \in {0, 1},
         capture_fifo \in Seq(S), Len(capture_fifo) <= FifoCapacity,
         Len(a.ready) < Block, Len(a.resampler) <= Lookahead + 1
  PROVE  /\ Resampled(a, surplus).used \in Nat
         /\ Resampled(a, surplus).ready \in Seq(S)
         /\ Len(Resampled(a, surplus).ready) <= Block
         /\ Resampled(a, surplus).resampler \in Seq(S)
         /\ Len(Resampled(a, surplus).resampler) <= Lookahead + 1
<1> DEFINE held    == Len(a.resampler)
           total   == Len(capture_fifo)
           source  == a.resampler \o capture_fifo
           missing == Block - Len(a.ready)
           out     == Least(missing, Most(0, Len(source) - Lookahead))
           needed  == IF out < missing THEN total ELSE Most(0, out + Lookahead - held)
           used    == Least(total, needed + surplus)
<1>1. a.resampler \in Seq(S) /\ a.ready \in Seq(S)
  BY DEF Adapters
<1>2. held \in Nat /\ total \in Nat /\ missing \in Nat \ {0} /\ held <= Lookahead + 1
  <2>1. held \in Nat /\ total \in Nat
    BY <1>1, LenProperties
  <2>2. Len(a.ready) \in Nat
    BY <1>1, LenProperties
  <2>3. missing \in Nat \ {0}
    <3>1. Block \in Nat /\ Len(a.ready) < Block /\ missing = Block - Len(a.ready)
      BY Capacities
    <3> HIDE DEF missing
    <3> QED BY <2>2, <3>1
  <2> QED BY <2>1, <2>3
<1>3. source \in Seq(S) /\ Len(source) = held + total
  BY <1>1, ConcatProperties
<1>4. Resampled(a, surplus) =
        [used |-> used, ready |-> a.ready \o SubSeq(source, 1, out),
         resampler |-> SubSeq(source, out + 1, held + used)]
  BY DEF Resampled
<1> HIDE DEF held, total, source, missing
<1>5. out \in Nat /\ out <= missing /\ out <= held + total
  BY <1>2, <1>3, Capacities DEF Least, Most
<1>6. needed \in Nat /\ used \in Nat /\ used <= total
  <2>1. out + Lookahead - held \in Int
    <3>1. out \in Int /\ Lookahead \in Int /\ held \in Int
      BY <1>2, <1>5, Capacities
    <3> HIDE DEF out
    <3> QED BY <3>1
  <2>2. needed \in Nat
    <3> HIDE DEF out
    <3> QED BY <1>2, <2>1 DEF Most
  <2> HIDE DEF needed
  <2> QED BY <1>2, <2>2 DEF Least
<1>7. held + used - out <= Lookahead + 1
  <2>1. CASE out < missing
    <3>1. out = Most(0, held + total - Lookahead)
      BY <1>2, <1>3, <2>1, Capacities DEF Least, Most
    <3> HIDE DEF out, needed, used
    <3>2. out >= held + total - Lookahead
      BY <1>2, <3>1, Capacities DEF Most
    <3>3. QED
      BY <1>2, <1>5, <1>6, <3>2, Capacities
  <2>2. CASE out = missing
    <3>1. needed = Most(0, out + Lookahead - held)
      BY <1>2, <2>2
    <3> HIDE DEF out, needed
    <3>2. used <= needed + surplus
      BY <1>2, <1>6 DEF Least
    <3> HIDE DEF used
    <3>3. QED
      BY <1>2, <1>5, <1>6, <2>2, <3>1, <3>2, Capacities DEF Most
  <2>3. QED
    BY <1>2, <1>5, <2>1, <2>2
<1> HIDE DEF out, needed, used
<1> DEFINE part  == SubSeq(source, 1, out)
           first == out + 1
           last  == held + used
           rest  == SubSeq(source, first, last)
<1>8. part \in Seq(S) /\ Len(part) = IF 1 <= out THEN out ELSE 0
  BY <1>2, <1>3, <1>5, PartType
<1> HIDE DEF part
<1>9. a.ready \o part \in Seq(S) /\ Len(a.ready \o part) = Len(a.ready) + out
  <2>1. Len(part) = out
    BY <1>5, <1>8
  <2>2. a.ready \o part \in Seq(S) /\ Len(a.ready \o part) = Len(a.ready) + Len(part)
    BY <1>1, <1>8, ConcatProperties
  <2>3. QED
    BY <2>1, <2>2
<1>10. rest \in Seq(S) /\ Len(rest) <= Lookahead + 1
  <2>1. first \in Nat \ {0} /\ last \in Int /\ last <= Len(source) /\ last - first + 1 <= Lookahead + 1
    BY <1>2, <1>3, <1>5, <1>6, <1>7, Capacities
  <2> HIDE DEF first, last
  <2>2. rest \in Seq(S) /\ Len(rest) = IF first <= last THEN last - first + 1 ELSE 0
    BY <1>3, <2>1, PartType
  <2>3. QED
    BY <2>1, <2>2, Capacities
<1>11. Len(a.ready) + out <= Block
  BY <1>1, <1>5, Capacities DEF missing
<1>12. Resampled(a, surplus) = [used |-> used, ready |-> a.ready \o part, resampler |-> rest]
  BY <1>4 DEF part
<1> HIDE DEF rest
<1>13. QED
  BY <1>6, <1>9, <1>10, <1>11, <1>12

-----------------------------------------------------------------------------

LEMMA RunnerInitFrames == RunnerInit => FramesInv
<1> SUFFICES ASSUME RunnerInit PROVE FramesInv
  OBVIOUS
<1>1. Primed[0] \in 0 .. FifoCapacity
  BY Capacities, PrimingReachesTarget
<1>2. NewAdapter \in Adapters({}) /\ ~NewAdapter.preroll
  BY DEF NewAdapter, Adapters
<1>3. RunnerTypeOK
  <2>1. packets \in Seq(Packets) /\ Len(packets) * Period <= CaptureBuffer
    BY Capacities DEF RunnerInit
  <2>2. /\ capture_fifo \in Seq(Stretches) /\ Len(capture_fifo) <= FifoCapacity
        /\ adapter.resampler \in Seq(Stretches) /\ Len(adapter.resampler) <= Lookahead + 1
        /\ adapter.ready \in Seq(Stretches) /\ Len(adapter.ready) < Block
    BY Capacities DEF RunnerInit, NewAdapter
  <2>3. /\ padding \in 0 .. RenderBuffer /\ ahead \in 0 .. MaxSkew /\ late \in 0 .. MaxLate
        /\ render_fifo \in 0 .. FifoCapacity
    BY <1>1, Capacities DEF RunnerInit
  <2>4. stretch \in Stretches /\ taken \subseteq Stretches /\ graph_input \subseteq Stretches
    BY DEF RunnerInit, Stretches
  <2>5. QED
    BY <2>1, <2>2, <2>3, <2>4 DEF RunnerInit, RunnerTypeOK
<1>4. FramesAreTaken
  BY <1>2 DEF RunnerInit, FramesAreTaken
<1>5. QED
  BY <1>3, <1>4 DEF FramesInv

LEMMA CaptureDeviceFrames == FramesInv /\ CaptureDevice => FramesInv'
<1> SUFFICES ASSUME FramesInv, CaptureDevice PROVE FramesInv'
  OBVIOUS
<1>1. /\ UNCHANGED <<padding, late, pc, capture_fifo, adapter, render_fifo>>
      /\ UNCHANGED <<taken, leftover, graph_input>>
  BY DEF CaptureDevice, runnerVars
<1>2. ahead' \in 0 .. MaxSkew
  BY Capacities DEF CaptureDevice, FramesInv, RunnerTypeOK
<1>3. /\ packets' \in Seq(Packets) /\ Len(packets') * Period <= CaptureBuffer
      /\ stretch' \in Stretches /\ gap' \in {"none", "dropped", "resumed"}
  <2>1. packets \in Seq(Packets) /\ Len(packets) * Period <= CaptureBuffer /\ stretch \in Stretches
    BY DEF FramesInv, RunnerTypeOK
  <2>2. CASE (Len(packets) + 1) * Period > CaptureBuffer
    BY <2>1, <2>2 DEF CaptureDevice
  <2>3. CASE ~((Len(packets) + 1) * Period > CaptureBuffer)
    <3>1. PICK flagged \in BOOLEAN :
            /\ stretch' = IF flagged \/ gap = "resumed" THEN NextStretch ELSE stretch
            /\ packets' = Append(packets, [stretch |-> stretch', flagged |-> flagged])
            /\ gap' = "none"
      BY <2>3 DEF CaptureDevice
    <3>2. stretch' \in Stretches
      BY <2>1, <3>1 DEF Stretches, NextStretch
    <3>3. [stretch |-> stretch', flagged |-> flagged] \in Packets
      BY <3>2 DEF Packets
    <3>4. packets' \in Seq(Packets) /\ Len(packets') = Len(packets) + 1
      BY <2>1, <3>1, <3>3, AppendProperties
    <3>5. (Len(packets) + 1) * Period <= CaptureBuffer
      BY <2>1, <2>3, Capacities
    <3>6. QED
      BY <3>1, <3>2, <3>4, <3>5
  <2>4. QED
    BY <2>2, <2>3
<1>4. RunnerTypeOK' /\ FramesAreTaken'
  BY <1>1, <1>2, <1>3 DEF FramesInv, RunnerTypeOK, FramesAreTaken
<1>5. QED
  BY <1>4 DEF FramesInv

LEMMA RenderDeviceFrames == FramesInv /\ RenderDevice => FramesInv'
<1> SUFFICES ASSUME FramesInv, RenderDevice PROVE FramesInv'
  OBVIOUS
<1>1. UNCHANGED <<packets, stretch, gap, pc, capture_fifo, adapter, render_fifo, taken, leftover, graph_input>>
  BY DEF RenderDevice, runnerVars
<1>2. ahead' \in 0 .. MaxSkew /\ late' \in 0 .. MaxLate /\ padding' \in 0 .. RenderBuffer
  <2>1. ahead \in 0 .. MaxSkew /\ late \in 0 .. MaxLate /\ padding \in 0 .. RenderBuffer
    BY DEF FramesInv, RunnerTypeOK
  <2>2. ahead' \in 0 .. MaxSkew
    BY <2>1, Capacities DEF RenderDevice
  <2>3. late' \in 0 .. MaxLate
    BY <2>1, Capacities DEF RenderDevice
  <2>4. padding' = IF 0 >= padding - Period THEN 0 ELSE padding - Period
    BY DEF RenderDevice, Most
  <2>5. padding' \in 0 .. RenderBuffer
    BY <2>1, <2>4, Capacities
  <2> QED BY <2>2, <2>3, <2>5
<1>3. RunnerTypeOK' /\ FramesAreTaken'
  BY <1>1, <1>2 DEF FramesInv, RunnerTypeOK, FramesAreTaken
<1>4. QED
  BY <1>3 DEF FramesInv

LEMMA StartStreamsFrames == FramesInv /\ StartStreams => FramesInv'
<1> SUFFICES ASSUME FramesInv, StartStreams PROVE FramesInv'
  OBVIOUS
<1>1. /\ adapter' \in Adapters(taken') /\ ~adapter'.preroll
      /\ capture_fifo' \in Seq(taken')
  BY DEF StartStreams, NewAdapter, Adapters
<1>2. Primed[0] \in 0 .. FifoCapacity
  BY Capacities, PrimingReachesTarget
<1>3. FramesAreTaken'
  BY <1>1 DEF StartStreams, FramesAreTaken
<1>4. RunnerTypeOK'
  BY <1>2, Capacities DEF StartStreams, FramesInv, RunnerTypeOK, NewAdapter
<1>5. QED
  BY <1>3, <1>4 DEF FramesInv

LEMMA EndStreamsFrames == FramesInv /\ EndStreams => FramesInv'
<1> SUFFICES ASSUME FramesInv, EndStreams PROVE FramesInv'
  OBVIOUS
<1>1. /\ pc = "wait" /\ pc' = "stopped" /\ late' = 0 /\ ahead' = 0
      /\ UNCHANGED <<packets, stretch, gap, padding, capture_fifo, adapter, render_fifo>>
      /\ UNCHANGED <<taken, leftover, graph_input>>
  BY DEF EndStreams, runnerVars
<1>2. RunnerTypeOK'
  BY <1>1, Capacities DEF FramesInv, RunnerTypeOK
<1>3. FramesAreTaken'
  BY <1>1 DEF FramesInv, FramesAreTaken
<1>4. QED
  BY <1>2, <1>3 DEF FramesInv

\* What the render client is given fits it, and what is left stays queued.
LEMMA SubmittedType ==
  ASSUME RunnerTypeOK
  PROVE  /\ padding + Committed(render_fifo) \in 0 .. RenderBuffer
         /\ render_fifo - Committed(render_fifo) \in 0 .. FifoCapacity
         /\ padding + Committed(RenderBuffer) \in 0 .. RenderBuffer
<1>1. padding \in 0 .. RenderBuffer /\ render_fifo \in 0 .. FifoCapacity
  BY DEF RunnerTypeOK
<1>2. ASSUME NEW n \in Nat
      PROVE  /\ Committed(n) \in Nat
             /\ Committed(n) <= n
             /\ Committed(n) <= RenderBuffer - padding
  BY <1>1, Capacities DEF Committed, Least
<1>3. QED
  BY <1>1, <1>2, Capacities

LEMMA BeginCycleFrames == FramesInv /\ BeginCycle => FramesInv'
<1> SUFFICES ASSUME FramesInv, BeginCycle PROVE FramesInv'
  OBVIOUS
<1>1. padding' \in 0 .. RenderBuffer /\ render_fifo' \in 0 .. FifoCapacity
  BY SubmittedType DEF FramesInv, RunnerTypeOK, BeginCycle, SubmitQueuedRender
<1>2. RunnerTypeOK' /\ FramesAreTaken'
  BY <1>1 DEF FramesInv, RunnerTypeOK, FramesAreTaken, BeginCycle
<1>3. QED
  BY <1>2 DEF FramesInv

LEMMA CapturePacketFrames == FramesInv /\ CapturePacket => FramesInv'
<1> SUFFICES ASSUME FramesInv, CapturePacket PROVE FramesInv'
  OBVIOUS
<1> DEFINE p == Head(packets)
           discontinuity == baseline /\ p.flagged
           frames == [i \in 1 .. Period |-> p.stretch]
<1>1. /\ taken' = (IF discontinuity THEN {} ELSE taken) \union {p.stretch}
      /\ adapter' = IF discontinuity THEN ResetAdapter(adapter) ELSE adapter
      /\ capture_fifo' = Push(KeptFrames(discontinuity), frames)
      /\ packets # <<>> /\ packets' = Tail(packets)
      /\ pc = "capture"
      /\ UNCHANGED <<stretch, gap, padding, ahead, late, pc, render_fifo, leftover, graph_input>>
  BY DEF CapturePacket, PacketReady
<1> HIDE DEF discontinuity
<1>2. p.stretch \in taken' /\ p.stretch \in Stretches /\ taken' \subseteq Stretches
  <2>1. packets \in Seq(Packets) /\ Len(packets) \in Nat \ {0} /\ taken \subseteq Stretches
    BY <1>1 DEF FramesInv, RunnerTypeOK
  <2>2. p \in Packets
    BY <1>1, <2>1, HeadTailProperties
  <2>3. p.stretch \in Stretches
    BY <2>2 DEF Packets
  <2>4. QED
    BY <1>1, <2>1, <2>3
<1> HIDE DEF p
<1>3. frames \in Seq(taken')
  BY <1>2, Capacities
<1>4. KeptFrames(discontinuity) \in Seq(taken') /\ Len(KeptFrames(discontinuity)) <= FifoCapacity
  <2>1. CASE discontinuity
    <3>1. KeptFrames(discontinuity) = <<>>
      BY <2>1 DEF KeptFrames
    <3>2. Len(KeptFrames(discontinuity)) = 0 /\ <<>> \in Seq(taken')
      BY <3>1, EmptySeq
    <3> QED BY <3>1, <3>2, Capacities
  <2>2. CASE ~discontinuity
    <3>1. taken \subseteq taken'
      BY <1>1, <2>2
    <3>2. QED
      BY <2>2, <3>1, MoreStretches DEF FramesInv, RunnerTypeOK, FramesAreTaken, KeptFrames
  <2> QED BY <2>1, <2>2
<1>5. capture_fifo' \in Seq(taken') /\ Len(capture_fifo') <= FifoCapacity
  <2> HIDE DEF frames
  <2>1. QED
    BY <1>1, <1>3, <1>4, PushType
<1>6. adapter' \in Adapters(taken') /\ (adapter'.preroll => ~adapter'.primed)
  <2>1. CASE discontinuity
    <3>1. adapter.produced \in BOOLEAN
      BY DEF FramesInv, FramesAreTaken, Adapters
    <3>2. adapter' = [resampler |-> <<>>, ready |-> <<>>, primed |-> FALSE, recovering |-> TRUE,
                      preroll |-> TRUE, produced |-> adapter.produced]
      BY <1>1, <2>1 DEF ResetAdapter, NewAdapter
    <3>3. QED
      BY <3>1, <3>2 DEF Adapters
  <2>2. CASE ~discontinuity
    <3>1. taken \subseteq taken' /\ adapter' = adapter
      BY <1>1, <2>2
    <3>2. adapter \in Adapters(taken) /\ (adapter.preroll => ~adapter.primed)
      BY DEF FramesInv, FramesAreTaken
    <3>3. Seq(taken) \subseteq Seq(taken')
      BY <3>1, MoreStretches
    <3>4. adapter \in Adapters(taken')
      BY <3>2, <3>3 DEF Adapters
    <3>5. QED
      BY <3>1, <3>2, <3>4
  <2>3. QED
    BY <2>1, <2>2
<1>7. Len(adapter'.resampler) <= Lookahead + 1 /\ Len(adapter'.ready) < Block
  <2>1. CASE discontinuity
    <3>1. adapter'.resampler = <<>> /\ adapter'.ready = <<>>
      BY <1>1, <2>1 DEF ResetAdapter, NewAdapter
    <3>2. Len(adapter'.resampler) = 0 /\ Len(adapter'.ready) = 0
      BY <3>1, EmptySeq
    <3> QED BY <3>2, Capacities
  <2>2. CASE ~discontinuity
    BY <1>1, <2>2 DEF FramesInv, RunnerTypeOK
  <2> QED BY <2>1, <2>2
<1>8. packets' \in Seq(Packets) /\ Len(packets') * Period <= CaptureBuffer
  <2>1. packets \in Seq(Packets) /\ Len(packets) * Period <= CaptureBuffer
    BY DEF FramesInv, RunnerTypeOK
  <2>2. packets' \in Seq(Packets) /\ Len(packets') = Len(packets) - 1
    BY <1>1, <2>1, HeadTailProperties
  <2>3. \A n \in Nat : (n - 1) * Period = n * Period - Period
    BY Capacities
  <2>4. (Len(packets) - 1) * Period = Len(packets) * Period - Period
    BY <2>1, <2>3
  <2>5. Len(packets) * Period \in Int /\ Len(packets) \in Nat
    BY <2>1, Capacities
  <2>6. Len(packets') * Period = Len(packets) * Period - Period
    BY <2>2, <2>4
  <2>7. Period \in Nat /\ CaptureBuffer \in Nat
    BY Capacities
  <2>8. QED
    BY <2>1, <2>2, <2>5, <2>6, <2>7
<1>9. graph_input = {}
  BY <1>1 DEF FramesInv, FramesAreTaken
<1>10. FramesAreTaken'
  BY <1>1, <1>2, <1>5, <1>6, <1>9 DEF FramesAreTaken
<1>11. RunnerTypeOK'
  BY <1>1, <1>2, <1>5, <1>6, <1>7, <1>8, <1>9, MoreStretches DEF FramesInv, RunnerTypeOK, Adapters
<1>12. QED
  BY <1>10, <1>11 DEF FramesInv

LEMMA EndCaptureFrames == FramesInv /\ (EndCapture \/ EndGraph) => FramesInv'
<1> SUFFICES ASSUME FramesInv, EndCapture \/ EndGraph PROVE FramesInv'
  OBVIOUS
<1>1. /\ pc' \in {"graph", "render"}
      /\ UNCHANGED <<packets, stretch, gap, padding, ahead, late, capture_fifo, adapter>>
      /\ UNCHANGED <<render_fifo, taken, leftover, graph_input>>
  BY DEF EndCapture, EndGraph, deviceVars, runnerVars
<1>2. RunnerTypeOK'
  BY <1>1 DEF FramesInv, RunnerTypeOK
<1>3. FramesAreTaken'
  BY <1>1 DEF FramesInv, FramesAreTaken
<1>4. QED
  BY <1>2, <1>3 DEF FramesInv

LEMMA GraphBlockType ==
  ASSUME RunnerTypeOK, NEW input, GraphBlock(input)
  PROVE  render_fifo' \in 0 .. FifoCapacity /\ graph_input' = input
<1>1. render_fifo \in 0 .. FifoCapacity /\ FifoCapacity \in Nat /\ Block \in Nat
  BY Capacities DEF RunnerTypeOK
<1>2. /\ graph_input' = input
      /\ render_fifo' = render_fifo + IF Block <= FifoCapacity - render_fifo
                                      THEN Block ELSE FifoCapacity - render_fifo
  BY DEF GraphBlock, Least
<1> QED BY <1>1, <1>2

LEMMA ExternalBlockFrames == FramesInv /\ ExternalBlock => FramesInv'
<1> SUFFICES ASSUME FramesInv, ExternalBlock PROVE FramesInv'
  OBVIOUS
<1>1. UNCHANGED <<packets, stretch, gap, padding, ahead, late, capture_fifo, adapter, taken, leftover>>
  BY DEF ExternalBlock, deviceVars
<1>2. /\ pc' \in {"graph", "render"}
      /\ render_fifo' \in 0 .. FifoCapacity
      /\ graph_input' \in {{}, graph_input}
  <2>1. CASE GraphBlock({}) /\ UNCHANGED pc
    BY <2>1, GraphBlockType DEF FramesInv, ExternalBlock
  <2>2. CASE pc' = "render" /\ UNCHANGED <<cycle, render_fifo, graph_input>>
    BY <2>2 DEF FramesInv, RunnerTypeOK
  <2>3. QED
    BY <2>1, <2>2 DEF ExternalBlock
<1>3. RunnerTypeOK' /\ FramesAreTaken'
  BY <1>1, <1>2 DEF FramesInv, RunnerTypeOK, FramesAreTaken
<1>4. QED
  BY <1>3 DEF FramesInv

\* The preroll repeats the first frame after the discontinuity.
LEMMA CaptureBlockFrames == FramesInv /\ CaptureBlock => FramesInv'
<1> SUFFICES ASSUME FramesInv, CaptureBlock PROVE FramesInv'
  OBVIOUS
<1> DEFINE filled == IF adapter.preroll THEN [adapter EXCEPT !.resampler = Prerolled] ELSE adapter
           result(surplus) == Resampled(filled, surplus)
           after(surplus)  == [adapter EXCEPT !.primed = TRUE, !.preroll = FALSE,
                                 !.resampler = result(surplus).resampler,
                                 !.ready = result(surplus).ready]
<1>1. PICK surplus \in {0, 1} :
        /\ capture_fifo' = Consume(capture_fifo, result(surplus).used)
        /\ \/ /\ Len(result(surplus).ready) < Block
              /\ adapter' = after(surplus)
              /\ pc' = "render"
              /\ UNCHANGED <<cycle, render_fifo, graph_input>>
           \/ /\ adapter' = [after(surplus) EXCEPT !.ready = <<>>, !.produced = TRUE,
                                                    !.recovering = FALSE]
              /\ GraphBlock(ToSet(result(surplus).ready))
              /\ UNCHANGED pc
  <2>1. PICK surplus \in {0, 1}, mixed \in IF HasExternal THEN BOOLEAN ELSE {FALSE} :
          /\ capture_fifo' = Consume(capture_fifo, result(surplus).used)
          /\ IF Len(result(surplus).ready) < Block
             THEN /\ adapter' = after(surplus)
                  /\ pc' = "render"
                  /\ UNCHANGED <<cycle, render_fifo, graph_input>>
             ELSE /\ adapter' = [after(surplus) EXCEPT !.ready = <<>>, !.produced = TRUE,
                                                       !.recovering = FALSE]
                  /\ GraphBlock(ToSet(result(surplus).ready))
                  /\ cycle' = [cycle EXCEPT !.blocks = @ + 1, !.mixed = @ \/ mixed]
                  /\ UNCHANGED pc
    BY Zenon DEF CaptureBlock
  <2> HIDE DEF after, result
  <2> QED BY <2>1
<1>2. /\ UNCHANGED <<packets, stretch, gap, padding, ahead, late, taken, leftover>>
      /\ pc = "graph" /\ ~Unprimed
  BY DEF CaptureBlock, deviceVars
<1>3. /\ capture_fifo \in Seq(taken) /\ Len(capture_fifo) <= FifoCapacity
      /\ adapter \in Adapters(taken)
      /\ Len(adapter.resampler) <= Lookahead + 1 /\ Len(adapter.ready) < Block
      /\ taken \subseteq Stretches
  BY DEF FramesInv, RunnerTypeOK, FramesAreTaken
<1>4. /\ filled \in Adapters(taken)
      /\ Len(filled.resampler) <= Lookahead + 1 /\ Len(filled.ready) < Block
  <2>1. CASE adapter.preroll
    <3>1. Len(capture_fifo) >= Block
      BY <1>2, <1>3, <2>1, Capacities DEF FramesInv, FramesAreTaken, Unprimed, CaptureTarget
    <3>2. Head(capture_fifo) \in taken
      BY <1>3, <3>1, Capacities
    <3>3. Prerolled \in Seq(taken) /\ Len(Prerolled) = Lookahead
      BY <3>2, Capacities DEF Prerolled
    <3>4. filled \in Adapters(taken) /\ filled.resampler = Prerolled /\ filled.ready = adapter.ready
      <4> HIDE DEF Prerolled
      <4>1. QED
        BY <1>3, <2>1, <3>3 DEF Adapters
    <3>5. QED
      BY <1>3, <3>3, <3>4, Capacities
  <2>2. CASE ~adapter.preroll
    BY <1>3, <2>2
  <2>3. QED
    BY <2>1, <2>2
<1> HIDE DEF filled
<1>5. /\ result(surplus).used \in Nat
      /\ result(surplus).ready \in Seq(taken)
      /\ Len(result(surplus).ready) <= Block
      /\ result(surplus).resampler \in Seq(taken)
      /\ Len(result(surplus).resampler) <= Lookahead + 1
  BY <1>3, <1>4, ResampledType
<1> HIDE DEF result
<1>6. capture_fifo' \in Seq(taken) /\ Len(capture_fifo') <= FifoCapacity
  BY <1>1, <1>3, <1>5, ConsumeType
<1>7. /\ after(surplus) \in Adapters(taken)
      /\ after(surplus).resampler = result(surplus).resampler
      /\ after(surplus).ready = result(surplus).ready
      /\ ~after(surplus).preroll
  BY <1>3, <1>5 DEF Adapters
<1> HIDE DEF after
<1>8. /\ adapter' \in Adapters(taken) /\ ~adapter'.preroll
      /\ Len(adapter'.resampler) <= Lookahead + 1 /\ Len(adapter'.ready) < Block
      /\ render_fifo' \in 0 .. FifoCapacity
      /\ graph_input' \subseteq taken
      /\ pc' \in {"graph", "render"}
  <2>1. CASE /\ Len(result(surplus).ready) < Block
             /\ adapter' = after(surplus)
             /\ pc' = "render"
             /\ UNCHANGED <<cycle, render_fifo, graph_input>>
    BY <1>5, <1>7, <2>1 DEF FramesInv, RunnerTypeOK, FramesAreTaken
  <2>2. CASE /\ adapter' = [after(surplus) EXCEPT !.ready = <<>>, !.produced = TRUE,
                                                   !.recovering = FALSE]
             /\ GraphBlock(ToSet(result(surplus).ready))
             /\ UNCHANGED pc
    <3>1. /\ adapter' \in Adapters(taken) /\ ~adapter'.preroll
          /\ adapter'.resampler = result(surplus).resampler /\ adapter'.ready = <<>>
      <4>1. adapter' = [resampler |-> after(surplus).resampler, ready |-> <<>>,
                        primed |-> after(surplus).primed, recovering |-> FALSE,
                        preroll |-> after(surplus).preroll, produced |-> TRUE]
        BY <1>7, <2>2 DEF Adapters
      <4>2. /\ after(surplus).resampler \in Seq(taken)
            /\ after(surplus).primed \in BOOLEAN /\ after(surplus).preroll \in BOOLEAN
        BY <1>7 DEF Adapters
      <4>3. <<>> \in Seq(taken)
        OBVIOUS
      <4>4. QED
        BY <1>7, <4>1, <4>2, <4>3 DEF Adapters
    <3>2. render_fifo' \in 0 .. FifoCapacity /\ graph_input' = ToSet(result(surplus).ready)
      BY <2>2, GraphBlockType DEF FramesInv
    <3>3. ToSet(result(surplus).ready) \subseteq taken
      BY <1>5 DEF ToSet
    <3>4. Len(adapter'.resampler) <= Lookahead + 1
      BY <1>5, <3>1
    <3>5. Len(adapter'.ready) < Block
      <4>1. Len(adapter'.ready) = 0
        BY <3>1, EmptySeq
      <4>2. QED
        BY <4>1, Capacities
    <3>6. pc' \in {"graph", "render"}
      BY <1>2, <2>2
    <3>7. QED
      BY <3>1, <3>2, <3>3, <3>4, <3>5, <3>6
  <2>3. QED
    BY <1>1, <2>1, <2>2
<1>9. FramesAreTaken'
  BY <1>2, <1>3, <1>6, <1>8 DEF FramesAreTaken
<1>10. RunnerTypeOK'
  BY <1>2, <1>3, <1>6, <1>8, MoreStretches DEF FramesInv, RunnerTypeOK, Adapters
<1>11. QED
  BY <1>9, <1>10 DEF FramesInv

LEMMA EndCycleFrames == FramesInv /\ EndCycle => FramesInv'
<1> SUFFICES ASSUME FramesInv, EndCycle PROVE FramesInv'
  OBVIOUS
<1>1. /\ UNCHANGED <<packets, stretch, gap, ahead, capture_fifo, adapter, taken, leftover>>
      /\ pc' = "wait" /\ late' = 0 /\ graph_input' = {}
  BY DEF EndCycle
<1>2. padding' \in 0 .. RenderBuffer /\ render_fifo' \in 0 .. FifoCapacity
  <2> DEFINE silent == IF cycle.queued \/ render_fifo > 0 THEN 0 ELSE Committed(RenderBuffer)
  <2>1. \/ UNCHANGED <<padding, render_fifo>>
        \/ SubmitQueuedRender
        \/ padding' = padding + silent /\ UNCHANGED render_fifo
    BY DEF EndCycle
  <2>2. RunnerTypeOK
    BY DEF FramesInv
  <2>3. padding + silent \in 0 .. RenderBuffer
    BY <2>2, SubmittedType DEF RunnerTypeOK
  <2> HIDE DEF silent
  <2>4. QED
    BY <2>1, <2>2, <2>3, SubmittedType DEF SubmitQueuedRender, RunnerTypeOK
<1>3. RunnerTypeOK'
  BY <1>1, <1>2, Capacities DEF FramesInv, RunnerTypeOK
<1>4. FramesAreTaken'
  BY <1>1 DEF FramesInv, FramesAreTaken
<1>5. QED
  BY <1>3, <1>4 DEF FramesInv

-----------------------------------------------------------------------------
(* Gaps and their marks.                                                   *)

LEMMA InitGaps == RunnerInit => GapsAreMarked
<1> SUFFICES ASSUME RunnerInit PROVE GapsAreMarked
  OBVIOUS
<1>1. packets = <<>> /\ Len(packets) = 0 /\ taken = {} /\ gap = "resumed"
  BY DEF RunnerInit
<1>2. QED
  BY <1>1 DEF GapsAreMarked

\* A lost packet has the next one marked; the first after a start follows nothing.
LEMMA CaptureDeviceGaps ==
  ASSUME RunnerTypeOK, GapsAreMarked, CaptureDevice
  PROVE  GapsAreMarked'
<1>1. UNCHANGED <<baseline, taken, leftover>>
  BY DEF CaptureDevice, runnerVars
<1>2. packets \in Seq(Packets) /\ Len(packets) \in Nat
  BY DEF RunnerTypeOK
<1>3. CASE (Len(packets) + 1) * Period > CaptureBuffer
  <2>1. gap' = "dropped" /\ UNCHANGED <<packets, stretch>>
    BY <1>3 DEF CaptureDevice
  <2>2. QED
    BY <1>1, <2>1 DEF GapsAreMarked, IsMarked
<1>4. CASE ~((Len(packets) + 1) * Period > CaptureBuffer)
  <2>1. PICK flagged \in BOOLEAN :
          /\ gap = "dropped" => flagged
          /\ stretch' = IF flagged \/ gap = "resumed" THEN NextStretch ELSE stretch
          /\ packets' = Append(packets, [stretch |-> stretch', flagged |-> flagged])
          /\ gap' = "none"
    BY <1>4 DEF CaptureDevice
  <2> DEFINE n == Len(packets)
             p == [stretch |-> stretch', flagged |-> flagged]
  <2>2. p.stretch = stretch' /\ p.flagged = flagged /\ packets' = Append(packets, p)
    BY <2>1
  <2> HIDE DEF p
  <2>3. /\ Len(packets') = n + 1 /\ packets' # <<>>
        /\ packets'[n + 1] = p
        /\ \A i \in 1 .. n : packets'[i] = packets[i]
    BY <1>2, <2>2
  <2>4. gap \in {"none", "dropped", "resumed"}
    BY DEF RunnerTypeOK
  <2>5. SUFFICES ASSUME ~leftover
                 PROVE  /\ IsMarked(packets'[1], taken)
                        /\ \A i \in 2 .. n + 1 : IsMarked(packets'[i], {packets'[i - 1].stretch})
                        /\ packets'[n + 1].stretch = stretch'
    BY <1>1, <2>1, <2>3 DEF GapsAreMarked, IsMarked
  <2>6. flagged \/ stretch' = stretch \/ gap = "resumed"
    BY <2>1
  <2>7. n = 0 => IsMarked(p, taken)
    <3>1. n = 0 => packets = <<>>
      BY <1>2
    <3>2. QED
      BY <2>2, <2>4, <2>5, <2>6, <3>1, <2>1 DEF GapsAreMarked, IsMarked
  <2>8. n > 0 => IsMarked(p, {packets[n].stretch})
    <3>1. n > 0 => packets # <<>>
      BY <1>2
    <3>2. QED
      BY <2>2, <2>4, <2>5, <2>6, <3>1, <2>1 DEF GapsAreMarked, IsMarked
  <2>9. IsMarked(packets'[1], taken)
    <3>1. CASE n = 0
      BY <2>3, <2>7, <3>1
    <3>2. CASE n > 0
      <4>1. packets # <<>> /\ packets'[1] = packets[1]
        BY <1>2, <2>3, <3>2
      <4>2. QED
        BY <2>5, <4>1 DEF GapsAreMarked
    <3>3. QED
      BY <1>2, <3>1, <3>2
  <2>10. ASSUME NEW i \in 2 .. n + 1
         PROVE  IsMarked(packets'[i], {packets'[i - 1].stretch})
    <3>1. i - 1 \in 1 .. n
      BY <1>2
    <3>2. CASE i = n + 1
      <4>1. n > 0 /\ n \in 1 .. n /\ (n + 1) - 1 = n
        BY <1>2, <3>1
      <4>2. packets'[n + 1] = p /\ packets'[n] = packets[n]
        BY <2>3, <4>1
      <4>3. IsMarked(packets'[n + 1], {packets'[(n + 1) - 1].stretch})
        BY <2>8, <4>1, <4>2
      <4>4. QED
        BY <3>2, <4>3
    <3>3. CASE i # n + 1
      <4>1. i \in 2 .. n /\ packets'[i] = packets[i] /\ packets'[i - 1] = packets[i - 1]
        BY <1>2, <2>3, <3>1, <3>3
      <4>2. IsMarked(packets[i], {packets[i - 1].stretch})
        BY <2>5, <4>1 DEF GapsAreMarked
      <4>3. QED
        BY <4>1, <4>2
    <3>4. QED
      BY <3>2, <3>3
  <2>11. QED
    BY <2>2, <2>3, <2>9, <2>10
<1>5. QED
  BY <1>3, <1>4

\* The packet taken is of the stretch of those before it, unless the runner starts
\* over with it or has taken none.
LEMMA CapturePacketGaps ==
  ASSUME RunnerTypeOK, GapsAreMarked, CapturePacket
  PROVE  GapsAreMarked'
<1> DEFINE p == packets[1]
           n == Len(packets)
<1>1. /\ baseline' = TRUE
      /\ taken' = (IF baseline /\ p.flagged THEN {} ELSE taken) \union {p.stretch}
      /\ packets # <<>> /\ packets' = Tail(packets)
      /\ UNCHANGED <<stretch, gap, leftover>>
  BY DEF CapturePacket, PacketReady, Head
<1>2. packets \in Seq(Packets) /\ n \in Nat \ {0}
  BY <1>1 DEF RunnerTypeOK
<1>3. /\ Len(packets') = n - 1
      /\ \A i \in 1 .. n - 1 : packets'[i] = packets[i + 1]
      /\ packets' = <<>> => n = 1
  <2>1. Len(packets') = n - 1 /\ \A i \in 1 .. n - 1 : packets'[i] = packets[i + 1]
    BY <1>1, <1>2, HeadTailProperties
  <2>2. packets' = <<>> => Len(packets') = 0
    OBVIOUS
  <2>3. QED
    BY <1>2, <2>1, <2>2
<1> SUFFICES ASSUME ~leftover
             PROVE  /\ \A g, h \in taken' : g = h
                    /\ gap # "resumed"
                    /\ packets' = <<>> /\ gap = "none" => taken' \subseteq {stretch}
                    /\ packets' # <<>> => IsMarked(packets'[1], taken')
                    /\ \A i \in 2 .. n - 1 : IsMarked(packets'[i], {packets'[i - 1].stretch})
                    /\ packets' # <<>> /\ gap = "none" => packets'[n - 1].stretch = stretch
  BY <1>1, <1>3 DEF GapsAreMarked, IsMarked
<1>4. taken' = {p.stretch}
  BY <1>1 DEF GapsAreMarked, IsMarked
<1>5. gap # "resumed"
  BY <1>1 DEF GapsAreMarked
<1>6. /\ \A i \in 2 .. n : IsMarked(packets[i], {packets[i - 1].stretch})
      /\ gap = "none" => packets[n].stretch = stretch
  BY <1>1 DEF GapsAreMarked
<1>7. packets' = <<>> /\ gap = "none" => taken' \subseteq {stretch}
  BY <1>3, <1>4, <1>6
<1>8. packets' # <<>> => n - 1 \in 1 .. n - 1 /\ 2 \in 2 .. n
  BY <1>1, <1>2, <1>3
<1>9. packets' # <<>> => IsMarked(packets'[1], taken')
  <2>1. ASSUME packets' # <<>>
        PROVE  packets'[1] = packets[2] /\ IsMarked(packets[2], {packets[1].stretch})
    <3>1. 1 \in 1 .. n - 1 /\ 2 \in 2 .. n /\ 1 + 1 = 2 /\ 2 - 1 = 1
      BY <1>2, <1>8, <2>1
    <3>2. packets'[1] = packets[1 + 1] /\ IsMarked(packets[2], {packets[2 - 1].stretch})
      BY <1>3, <1>6, <3>1
    <3>3. QED
      BY <3>1, <3>2
  <2>2. QED
    BY <1>4, <2>1
<1>10. ASSUME NEW i \in 2 .. n - 1
       PROVE  IsMarked(packets'[i], {packets'[i - 1].stretch})
  <2>1. i \in 1 .. n - 1 /\ i - 1 \in 1 .. n - 1 /\ i + 1 \in 2 .. n /\ (i + 1) - 1 = i /\ (i - 1) + 1 = i
    BY <1>2
  <2>2. packets'[i] = packets[i + 1] /\ packets'[i - 1] = packets[i]
    BY <1>3, <2>1
  <2>3. IsMarked(packets[i + 1], {packets[(i + 1) - 1].stretch})
    BY <1>6, <2>1
  <2>4. QED
    BY <2>1, <2>2, <2>3
<1>11. packets' # <<>> /\ gap = "none" => packets'[n - 1].stretch = stretch
  BY <1>2, <1>3, <1>6, <1>8
<1>12. QED
  BY <1>4, <1>5, <1>7, <1>9, <1>10, <1>11

LEMMA StartStreamsGaps ==
  ASSUME StartStreams
  PROVE  GapsAreMarked'
<1>1. /\ ~baseline' /\ taken' = {} /\ gap' = "resumed"
      /\ leftover' = (packets # <<>>) /\ packets' = packets
  BY DEF StartStreams
<1>2. ~leftover' => packets' = <<>> /\ Len(packets') = 0
  BY <1>1
<1>3. QED
  BY <1>1, <1>2 DEF GapsAreMarked

LEMMA GapsStep ==
  ASSUME RunnerTypeOK, GapsAreMarked, [RunnerNext]_cycleVars
  PROVE  GapsAreMarked'
<1>1. CASE UNCHANGED <<packets, stretch, gap, baseline, taken, leftover>>
  BY <1>1 DEF GapsAreMarked, IsMarked
<1>2. \/ CaptureDevice \/ CapturePacket \/ StartStreams
      \/ UNCHANGED <<packets, stretch, gap, baseline, taken, leftover>>
  BY DEF RunnerNext, WorkerCycle, RenderDevice, EndStreams, BeginCycle, EndCapture, ExternalBlock,
         CaptureBlock, EndGraph, EndCycle, cycleVars, deviceVars, runnerVars
<1>3. QED
  BY <1>1, <1>2, CaptureDeviceGaps, CapturePacketGaps, StartStreamsGaps

\* The invariant of the cycles holds in every reachable state.
THEOREM RunnerInvariant == RunnerSpec => []RunnerInv
<1>1. FramesInv /\ UNCHANGED cycleVars => FramesInv'
  BY DEF FramesInv, RunnerTypeOK, FramesAreTaken, cycleVars, deviceVars, runnerVars
<1>2. FramesInv /\ [RunnerNext]_cycleVars => FramesInv'
  BY <1>1, CaptureDeviceFrames, RenderDeviceFrames, StartStreamsFrames, EndStreamsFrames,
     BeginCycleFrames, CapturePacketFrames, EndCaptureFrames, ExternalBlockFrames,
     CaptureBlockFrames, EndCycleFrames
     DEF RunnerNext, WorkerCycle
<1>3. RunnerInv /\ [RunnerNext]_cycleVars => GapsAreMarked'
  BY GapsStep DEF RunnerInv, FramesInv
<1>4. RunnerInit => RunnerInv
  BY RunnerInitFrames, InitGaps DEF RunnerInv
<1>5. RunnerInv /\ [RunnerNext]_cycleVars => RunnerInv'
  BY <1>2, <1>3 DEF RunnerInv
<1>6. QED
  BY <1>4, <1>5, PTL DEF RunnerSpec

\* Every variable of a cycle keeps its type; no FIFO, no client and no resampler
\* holds more than it has room for.
THEOREM RunnerTypes == RunnerSpec => []RunnerTypeOK
<1>1. RunnerInv => RunnerTypeOK
  BY DEF RunnerInv, FramesInv
<1>2. QED
  BY <1>1, RunnerInvariant, PTL

\* No frame taken before a discontinuity or before the last start of the streams
\* reaches the graph, and none captured before a gap reaches it with one from after, unless
\* the run began with packets in the client, for blocks, packets, buffers and a
\* resampler of any size.
THEOREM InputIsNeverStale == RunnerSpec => []NoStaleInput
<1>1. RunnerInv => NoStaleInput
  BY DEF RunnerInv, FramesInv, FramesAreTaken, GapsAreMarked, NoStaleInput
<1>2. QED
  BY <1>1, RunnerInvariant, PTL

-----------------------------------------------------------------------------
(* The Virtual WASAPI ring and its source                                    *)

RingInv == RingTypeOK /\ PacketsAreWhole /\ CursorFollows

LEMMA SlotRange ==
  ASSUME RingConstants, NEW p \in Nat
  PROVE  /\ Slot(p) \in 0 .. SlotCount - 1
         /\ p \div SlotCount \in Nat
         /\ p = SlotCount * (p \div SlotCount) + Slot(p)
  BY DEF Slot, RingConstants

\* Two sequences less than SlotCount apart never share a slot.
LEMMA SlotsAreApart ==
  ASSUME RingConstants, NEW p \in Nat, NEW q \in Nat, p < q, q - p < SlotCount
  PROVE  Slot(p) # Slot(q)
<1> DEFINE a == p \div SlotCount
           b == q \div SlotCount
<1>0. SlotCount \in Nat \ {0}
  BY DEF RingConstants
<1>1. a \in Nat /\ p = SlotCount * a + Slot(p) /\ Slot(p) \in 0 .. SlotCount - 1
  BY SlotRange
<1>2. b \in Nat /\ q = SlotCount * b + Slot(q) /\ Slot(q) \in 0 .. SlotCount - 1
  BY SlotRange
<1> HIDE DEF a, b
<1> SUFFICES ASSUME Slot(p) = Slot(q) PROVE FALSE
  OBVIOUS
<1>3. q - p = SlotCount * (b - a)
  BY <1>0, <1>1, <1>2
<1>4. CASE b <= a
  <2>1. SlotCount * (b - a) <= 0
    BY <1>0, <1>1, <1>2, <1>4
  <2> QED BY <1>0, <1>1, <1>2, <1>3, <2>1
<1>5. CASE b >= a + 1
  <2>1. SlotCount * (b - a) >= SlotCount
    BY <1>0, <1>1, <1>2, <1>5
  <2> QED BY <1>0, <1>1, <1>2, <1>3, <2>1
<1> QED BY <1>1, <1>2, <1>4, <1>5

\* Writing the producer's slot leaves the published packets alone.
LEMMA PublishedStay ==
  ASSUME RingConstants, RingTypeOK, Fill \in 0 .. SlotCount - 1,
         NEW content, slots' = [slots EXCEPT ![Slot(producer_sequence)] = content],
         NEW sequence \in consumer_sequence .. producer_sequence - 1
  PROVE  slots'[Slot(sequence)] = slots[Slot(sequence)]
<1>1. sequence \in Nat /\ sequence < producer_sequence
      /\ producer_sequence - sequence < SlotCount /\ producer_sequence \in Nat
  BY DEF RingTypeOK, Fill, RingConstants
<1>2. Slot(sequence) # Slot(producer_sequence)
  BY <1>1, SlotsAreApart
<1>3. Slot(sequence) \in 0 .. SlotCount - 1
  BY <1>1, SlotRange
<1> QED BY <1>2, <1>3 DEF RingTypeOK

\* A step that keeps the sequences and the published slots keeps them whole.
LEMMA WholeStays ==
  ASSUME PacketsAreWhole, RingTypeOK, RingConstants,
         UNCHANGED <<producer_sequence, consumer_sequence, popping, packet, packet_offset>>,
         \A sequence \in consumer_sequence .. producer_sequence - 1 :
           slots'[Slot(sequence)] = slots[Slot(sequence)],
         pushing' # NoPush => Fill < SlotCount
  PROVE  PacketsAreWhole'
<1>1. Fill' = Fill /\ \A s : Slot(s)' = Slot(s)
  BY DEF Fill, Slot
<1>2. \A sequence \in consumer_sequence' .. producer_sequence' - 1 :
        Holds(slots'[Slot(sequence)], sequence)
  BY DEF PacketsAreWhole
<1>3. Fill > 0 => slots'[Slot(consumer_sequence)] = slots[Slot(consumer_sequence)]
  BY DEF Fill, RingTypeOK
<1> QED BY <1>1, <1>2, <1>3 DEF PacketsAreWhole, Holds, PacketIsUsed, Fill, Slot

LEMMA RingInitInv == RingConstants /\ RingInit => RingInv
<1> SUFFICES ASSUME RingConstants, RingInit PROVE RingInv
  OBVIOUS
<1>1. RingTypeOK
  BY DEF RingConstants, RingInit, RingTypeOK, Unwritten, NoPush
<1>2. PacketsAreWhole
  BY DEF RingConstants, RingInit, PacketsAreWhole, Fill
<1>3. CursorFollows
  BY DEF RingInit, CursorFollows
<1> QED BY <1>1, <1>2, <1>3 DEF RingInv

LEMMA RingNextInv == RingConstants /\ RingInv /\ [RingNext]_ringVars => RingInv'
<1> SUFFICES ASSUME RingConstants, RingInv, [RingNext]_ringVars PROVE RingInv'
  OBVIOUS
<1>0. RingTypeOK /\ PacketsAreWhole /\ CursorFollows
  BY DEF RingInv
<1>w. /\ Slot(producer_sequence) \in 0 .. SlotCount - 1
      /\ Slot(consumer_sequence) \in 0 .. SlotCount - 1
  BY <1>0, SlotRange DEF RingTypeOK
<1>f. Fill = producer_sequence - consumer_sequence
  BY DEF Fill
<1>1. CASE BeginPush
  <2>0. Fill \in 0 .. SlotCount - 1
    BY <1>0, <1>1 DEF PacketsAreWhole, BeginPush, RingConstants
  <2>1. RingTypeOK'
    <3>1. Unwritten \in [sequence : Nat, frames : 0 .. FramesPerSlot, silent : BOOLEAN,
                         samples : Nat]
      BY DEF Unwritten, RingConstants
    <3>2. slots' \in [0 .. SlotCount - 1 ->
                       [sequence : Nat, frames : 0 .. FramesPerSlot, silent : BOOLEAN,
                        samples : Nat]]
      BY <1>0, <1>1, <1>w, <3>1 DEF RingTypeOK, BeginPush
    <3>3. /\ pushing' \in [frames : 1 .. FramesPerSlot, silent : BOOLEAN]
          /\ UNCHANGED <<producer_sequence, consumer_sequence, packet, packet_offset, wanted, heard>>
      BY <1>1 DEF BeginPush, consumerVars
    <3> QED BY <1>0, <3>2, <3>3 DEF RingTypeOK
  <2>2. \A sequence \in consumer_sequence .. producer_sequence - 1 :
          slots'[Slot(sequence)] = slots[Slot(sequence)]
    BY <1>0, <1>1, <2>0, PublishedStay DEF BeginPush
  <2>3. PacketsAreWhole'
    BY <1>0, <1>1, <2>2, WholeStays DEF BeginPush, consumerVars
  <2>4. CursorFollows'
    BY <1>0, <1>1 DEF CursorFollows, BeginPush, consumerVars
  <2> QED BY <2>1, <2>3, <2>4 DEF RingInv
<1>2. CASE FinishPush
  <2>0. Fill \in 0 .. SlotCount - 1 /\ Fill' = Fill + 1
    BY <1>0, <1>2 DEF RingTypeOK, PacketsAreWhole, FinishPush, consumerVars, Fill, RingConstants
  <2>p. pushing \in [frames : 1 .. FramesPerSlot, silent : BOOLEAN]
    BY <1>0, <1>2 DEF RingTypeOK, FinishPush
  <2>1. RingTypeOK'
    <3>1. slots' \in [0 .. SlotCount - 1 ->
                       [sequence : Nat, frames : 0 .. FramesPerSlot, silent : BOOLEAN,
                        samples : Nat]]
      <4>1. [sequence |-> producer_sequence + 1, frames |-> pushing.frames,
             silent |-> pushing.silent,
             samples |-> IF pushing.silent THEN 0 ELSE producer_sequence + 1]
              \in [sequence : Nat, frames : 0 .. FramesPerSlot, silent : BOOLEAN, samples : Nat]
        BY <1>0, <2>p DEF RingTypeOK
      <4> QED BY <1>0, <1>2, <1>w, <4>1 DEF RingTypeOK, FinishPush
    <3>2. /\ producer_sequence' = producer_sequence + 1 /\ pushing' = NoPush
          /\ UNCHANGED <<consumer_sequence, packet, packet_offset, wanted, heard>>
      BY <1>2 DEF FinishPush, consumerVars
    <3> QED BY <1>0, <3>1, <3>2 DEF RingTypeOK
  <2>2. \A sequence \in consumer_sequence .. producer_sequence - 1 :
          slots'[Slot(sequence)] = slots[Slot(sequence)]
    BY <1>0, <1>2, <2>0, PublishedStay DEF FinishPush
  <2>3. Holds(slots'[Slot(producer_sequence)], producer_sequence)
    BY <1>0, <1>2, <1>w, <2>p DEF RingTypeOK, FinishPush, Holds
  <2>4. /\ producer_sequence' = producer_sequence + 1
        /\ UNCHANGED <<consumer_sequence, popping, packet, packet_offset>>
    BY <1>2 DEF FinishPush, consumerVars
  <2>5. \A sequence \in consumer_sequence' .. producer_sequence' - 1 :
          Holds(slots'[Slot(sequence)], sequence)
    <3> SUFFICES ASSUME NEW sequence \in consumer_sequence .. producer_sequence
                 PROVE  Holds(slots'[Slot(sequence)], sequence)
      BY <1>0, <2>4 DEF RingTypeOK
    <3>1. CASE sequence = producer_sequence
      BY <2>3, <3>1
    <3>2. CASE sequence # producer_sequence
      <4>1. sequence \in consumer_sequence .. producer_sequence - 1
        BY <1>0, <3>2 DEF RingTypeOK
      <4> QED BY <1>0, <2>2, <4>1 DEF PacketsAreWhole
    <3> QED BY <3>1, <3>2
  <2>6. popping' # Unwritten =>
          Fill' > 0 /\ PacketIsUsed' /\ popping' = slots'[Slot(consumer_sequence')]
    <3>1. Fill > 0 => slots'[Slot(consumer_sequence)] = slots[Slot(consumer_sequence)]
      BY <1>0, <1>f, <2>2 DEF RingTypeOK
    <3> QED BY <1>0, <2>0, <2>4, <3>1 DEF PacketsAreWhole, PacketIsUsed
  <2>7. PacketsAreWhole'
    <3>1. Fill' \in 0 .. SlotCount /\ pushing' = NoPush
      BY <1>2, <2>0 DEF FinishPush, RingConstants
    <3> QED BY <2>5, <2>6, <3>1 DEF PacketsAreWhole, Holds, Slot
  <2>8. CursorFollows'
    BY <1>0, <2>4, <1>2 DEF CursorFollows, FinishPush, consumerVars
  <2> QED BY <2>1, <2>7, <2>8 DEF RingInv
<1>3. CASE BeginRead
  <2>1. RingTypeOK'
    BY <1>0, <1>3 DEF RingTypeOK, BeginRead, producerVars, RingConstants
  <2>2. PacketsAreWhole'
    BY <1>0, <1>3, WholeStays DEF BeginRead, producerVars, PacketsAreWhole
  <2>3. CursorFollows'
    BY <1>0, <1>3 DEF CursorFollows, BeginRead
  <2> QED BY <2>1, <2>2, <2>3 DEF RingInv
<1>4. CASE BeginPop
  <2>1. RingTypeOK'
    BY <1>0, <1>4 DEF RingTypeOK, BeginPop, producerVars
  <2>2. PacketsAreWhole'
    BY <1>0, <1>4 DEF PacketsAreWhole, BeginPop, producerVars, Fill, PacketIsUsed, Slot, Holds
  <2>3. CursorFollows'
    BY <1>0, <1>4 DEF CursorFollows, BeginPop
  <2> QED BY <2>1, <2>2, <2>3 DEF RingInv
<1>5. CASE SkipMalformed
  <2>1. consumer_sequence \in consumer_sequence .. producer_sequence - 1
    BY <1>0, <1>5, <1>f DEF RingTypeOK, SkipMalformed
  <2>2. Holds(slots[Slot(consumer_sequence)], consumer_sequence)
    BY <1>0, <2>1 DEF PacketsAreWhole
  <2>3. slots[Slot(consumer_sequence)].frames \in 0 .. FramesPerSlot
    BY <1>0, <1>w DEF RingTypeOK
  <2>4. WellFormed(slots[Slot(consumer_sequence)])
    BY <2>2, <2>3 DEF Holds, WellFormed, RingConstants
  <2> QED BY <1>5, <2>4 DEF SkipMalformed
<1>6. CASE FinishPop
  <2>0. /\ Fill > 0 /\ PacketIsUsed
        /\ popping = slots[Slot(consumer_sequence)]
        /\ Fill \in 0 .. SlotCount
        /\ consumer_sequence \in consumer_sequence .. producer_sequence - 1
    BY <1>0, <1>6, <1>f DEF RingTypeOK, PacketsAreWhole, FinishPop
  <2>1. Holds(popping, consumer_sequence)
    BY <1>0, <2>0 DEF PacketsAreWhole
  <2>2. popping \in [sequence : Nat, frames : 0 .. FramesPerSlot, silent : BOOLEAN,
                     samples : Nat]
    BY <1>0, <1>w, <2>0 DEF RingTypeOK
  <2>3. packet' = [of |-> consumer_sequence + 1, frames |-> popping.frames]
    BY <1>6, <2>0, <2>1 DEF FinishPop, Holds
  <2>4. /\ consumer_sequence' = consumer_sequence + 1 /\ packet_offset' = 0
        /\ popping' = Unwritten
        /\ UNCHANGED <<producer_sequence, slots, pushing, wanted, heard>>
    BY <1>6 DEF FinishPop, producerVars
  <2>5. RingTypeOK'
    BY <1>0, <2>2, <2>3, <2>4 DEF RingTypeOK
  <2>6. Fill' = Fill - 1
    BY <1>0, <2>4 DEF RingTypeOK, Fill
  <2>7. PacketsAreWhole'
    <3>1. \A sequence \in consumer_sequence' .. producer_sequence' - 1 :
            Holds(slots'[Slot(sequence)], sequence)
      BY <1>0, <2>4 DEF PacketsAreWhole, RingTypeOK
    <3>2. Fill' \in 0 .. SlotCount /\ Fill' < SlotCount
      BY <2>0, <2>6 DEF RingConstants
    <3> QED BY <2>4, <3>1, <3>2 DEF PacketsAreWhole, Holds, Slot
  <2>8. CursorFollows'
    <3>1. packet.of = consumer_sequence /\ packet_offset = packet.frames
      BY <1>0, <2>0 DEF CursorFollows, PacketIsUsed
    <3>2. heard.of = consumer_sequence /\ heard.frame = heard.frames
      <4>1. ~(packet_offset = 0 /\ packet.of > 0)
        BY <1>0, <3>1 DEF CursorFollows, RingTypeOK
      <4> QED BY <1>0, <3>1, <4>1 DEF CursorFollows
    <3>3. packet'.of = consumer_sequence + 1 /\ packet'.frames > 0
      BY <2>1, <2>3 DEF Holds
    <3> QED BY <1>0, <2>4, <3>2, <3>3 DEF CursorFollows, RingTypeOK
  <2> QED BY <2>5, <2>7, <2>8 DEF RingInv
<1>7. CASE CopyFrame
  <2>0. popping = Unwritten
    BY <1>0, <1>7 DEF PacketsAreWhole, CopyFrame
  <2>1. packet_offset + 1 \in 0 .. packet.frames
    BY <1>0, <1>7 DEF RingTypeOK, CopyFrame, PacketIsUsed
  <2>2. RingTypeOK'
    BY <1>0, <1>7, <2>1 DEF RingTypeOK, CopyFrame, producerVars, RingConstants
  <2>3. PacketsAreWhole'
    BY <1>0, <1>7, <2>0 DEF PacketsAreWhole, CopyFrame, producerVars, Fill, Slot, Holds
  <2>4. CursorFollows'
    BY <1>0, <1>7, <2>1 DEF CursorFollows, CopyFrame, RingTypeOK
  <2> QED BY <2>2, <2>3, <2>4 DEF RingInv
<1>8. CASE ReadShort
  <2>1. RingTypeOK'
    BY <1>0, <1>8 DEF RingTypeOK, ReadShort, producerVars, RingConstants
  <2>2. PacketsAreWhole'
    BY <1>0, <1>8, WholeStays DEF ReadShort, producerVars, PacketsAreWhole
  <2>3. CursorFollows'
    BY <1>0, <1>8 DEF CursorFollows, ReadShort
  <2> QED BY <2>1, <2>2, <2>3 DEF RingInv
<1>9. CASE UNCHANGED ringVars
  BY <1>0, <1>9 DEF RingInv, RingTypeOK, PacketsAreWhole, CursorFollows, ringVars, producerVars,
    consumerVars, Fill, Slot, Holds, PacketIsUsed
<1> QED BY <1>1, <1>2, <1>3, <1>4, <1>5, <1>6, <1>7, <1>8, <1>9 DEF RingNext

LEMMA AlwaysInv == RingConstants => (RingSpec => []RingInv)
<1> SUFFICES ASSUME RingConstants PROVE RingSpec => []RingInv
  OBVIOUS
<1>1. RingInit => RingInv
  BY RingInitInv
<1>2. RingInv /\ [RingNext]_ringVars => RingInv'
  BY RingNextInv
<1> QED BY <1>1, <1>2, PTL DEF RingSpec

\* Slots, sequences and the source's packet stay in their types.
THEOREM RingTypes == ASSUME RingConstants PROVE RingSpec => []RingTypeOK
<1>1. RingInv => RingTypeOK
  BY DEF RingInv
<1>2. RingSpec => []RingInv
  BY AlwaysInv
<1> QED BY <1>1, <1>2, PTL

\* The producer and the engine are never in one slot of the mapping, and no packet
\* of a producer that follows the protocol is skipped as malformed (ring.h: 68-131).
THEOREM PacketsStayWhole == ASSUME RingConstants PROVE RingSpec => []PacketsAreWhole
<1>1. RingInv => PacketsAreWhole
  BY DEF RingInv
<1>2. RingSpec => []RingInv
  BY AlwaysInv
<1> QED BY <1>1, <1>2, PTL

LEMMA StepHearsNext ==
  ASSUME RingInv, [RingNext]_ringVars
  PROVE  \/ heard' = heard
         \/ heard'.of = heard.of /\ heard'.frame = heard.frame + 1
         \/ heard.frame = heard.frames /\ heard'.of = heard.of + 1 /\ heard'.frame = 1
<1>1. CASE CopyFrame
  <2>1. heard' = [of |-> packet.of, frame |-> packet_offset + 1, frames |-> packet.frames]
    BY <1>1 DEF CopyFrame
  <2>2. CASE packet_offset = 0 /\ packet.of > 0
    BY <2>1, <2>2 DEF RingInv, CursorFollows, RingTypeOK
  <2>3. CASE ~(packet_offset = 0 /\ packet.of > 0)
    BY <2>1, <2>3 DEF RingInv, CursorFollows
  <2> QED BY <2>2, <2>3
<1>2. CASE ~CopyFrame
  BY <1>2 DEF RingNext, ringVars, consumerVars, BeginPush, FinishPush, BeginRead, BeginPop,
    SkipMalformed, FinishPop, ReadShort
<1> QED BY <1>1, <1>2

\* Every frame of every accepted packet is heard once and in order, however packets
\* and blocks divide (ring_audio_source.h: 46-101).
THEOREM FramesComeInOrder == ASSUME RingConstants PROVE RingSpec => EveryFrameInOrder
<1>1. RingSpec => []RingInv
  BY AlwaysInv
<1>2. RingInv /\ [RingNext]_ringVars =>
        [\/ heard' = heard
         \/ heard'.of = heard.of /\ heard'.frame = heard.frame + 1
         \/ heard.frame = heard.frames /\ heard'.of = heard.of + 1 /\ heard'.frame = 1]_ringVars
  BY StepHearsNext
<1> QED BY <1>1, <1>2, PTL DEF RingSpec, EveryFrameInOrder
=============================================================================
