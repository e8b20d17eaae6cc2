-------------------------- MODULE WasapiDuplexLoop --------------------------
(***************************************************************************)
(* core/platform/windows_wasapi_duplex_loop.cpp with its realtime worker   *)
(* (windows_wasapi_realtime_worker.cpp), its two streams                   *)
(* (windows_wasapi_stream.cpp) and its clock observer: how they are opened,*)
(* started, stopped and destroyed, and how they end by themselves.         *)
(*                                                                         *)
(* Three threads: the owner's, which makes one call at a time (start, stop,*)
(* the destructor); the worker's, which starts the streams, processes and  *)
(* stops them; and the observer's, which sets the feed-forward of the rate *)
(* adapter from the clocks of the two devices.  What the worker does in a  *)
(* cycle is in WasapiGraphRunner.                                          *)
(***************************************************************************)
EXTENDS Naturals

CONSTANTS
  MaxSessions,  \* bound: successful and failed starts of the worker
  MaxInvalid    \* kInvalidSamplesBeforeDisable

ASSUME DuplexLoopAssumption == MaxSessions \in Nat /\ MaxInvalid \in Nat \ {0}

VARIABLES
  call,            \* the owner's call and where it is, or "idle"
  returned,        \* the call that returned last
  streams,         \* state_ of capture_stream_ and render_stream_
  stop_events,     \* their stop_requested_event
  worker,          \* worker_: where its thread is; "none" when it is not joinable
  running,         \* running_
  stop_requested,  \* stop_requested_
  startup,         \* startup_complete_ and startup_succeeded_
  errors,          \* last_errors() is not empty
  observer,        \* clock_observer_thread_
  observer_stop,   \* clock_observer_stop_requested_
  feed_forward,    \* the session of the clocks it comes from, 0 for none
  valid,           \* capture_clock_feed_forward_valid_
  tracker,         \* consecutive_invalid_samples_ and disabled_
  session          \* starts of the worker so far

workerVars == <<streams, stop_events, worker, running, stop_requested, startup, errors>>
clockVars  == <<observer, observer_stop, feed_forward, valid, tracker>>
vars == <<call, returned, workerVars, clockVars, session>>

Sides == {"capture", "render"}
Calls == {"start", "stop", "destroy"}
Idle  == [of |-> "none", at |-> "idle"]

All(x) == [s \in Sides |-> x]
At(of, at) == call = [of |-> of, at |-> at]
Returns(result) == call' = Idle /\ returned' = result

ResetTracker == [invalid |-> 0, disabled |-> FALSE]

-----------------------------------------------------------------------------
(* open(): the capture stream, then the render stream.                     *)

Open ==
  /\ call = Idle /\ streams = All("Closed")
  /\ streams' = All("Open") /\ stop_events' = All(FALSE)
  /\ returned' = "opened"
  /\ UNCHANGED <<call, worker, running, stop_requested, startup, errors, clockVars, session>>

\* Whatever fails on the way, the clients acquired before are released.
OpenFails ==
  /\ call = Idle /\ streams = All("Closed")
  /\ returned' = "failed"
  /\ UNCHANGED <<call, workerVars, clockVars, session>>

-----------------------------------------------------------------------------
(* The owner's calls.  Each begins with stop_clock_observer().             *)

Call(of) ==
  /\ call = Idle /\ streams # All("Closed")
  /\ of = "start" => session < MaxSessions
  /\ call' = [of |-> of, at |-> "observer"]
  /\ observer_stop' = TRUE
  /\ UNCHANGED <<returned, workerVars, observer, feed_forward, valid, tracker, session>>

ObserverJoined == observer \in {"none", "exited"}
WorkerJoined   == worker \in {"none", "exited"}

\* Fault: the observer is told to stop and not waited for.
StartWorkerWithoutJoin ==
  /\ At("start", "observer") /\ ~running /\ WorkerJoined
  /\ feed_forward' = 0 /\ valid' = FALSE /\ tracker' = ResetTracker
  /\ session' = session + 1
  /\ stop_requested' = FALSE /\ startup' = "pending" /\ errors' = FALSE
  /\ running' = TRUE /\ worker' = "starting"
  /\ call' = [call EXCEPT !.at = "startup"]
  /\ UNCHANGED <<returned, streams, stop_events, observer, observer_stop>>

\* worker_.start() joins a worker that has ended by itself.  A start of a
\* running loop has already ended its observer when it is refused.
StartWorker ==
  /\ At("start", "observer") /\ ObserverJoined
  /\ observer' = "none"
  /\ feed_forward' = 0 /\ valid' = FALSE /\ tracker' = ResetTracker
  /\ session' = session + 1
  /\ \/ /\ running
        /\ Returns("already_running")
        /\ UNCHANGED workerVars
     \/ /\ ~running /\ WorkerJoined
        /\ stop_requested' = FALSE /\ startup' = "pending"
        /\ \/ /\ running' = TRUE /\ worker' = "starting" /\ errors' = FALSE
              /\ call' = [call EXCEPT !.at = "startup"]
              /\ UNCHANGED returned
           \/ /\ worker' = "none" /\ errors' = TRUE    \* worker_thread_start_failed
              /\ Returns("failed")
              /\ UNCHANGED running
        /\ UNCHANGED <<streams, stop_events>>
  /\ UNCHANGED observer_stop

StartupFailed ==
  /\ At("start", "startup") /\ startup = "failed" /\ WorkerJoined
  /\ worker' = "none"
  /\ Returns("failed")
  /\ UNCHANGED <<streams, stop_events, running, stop_requested, startup, errors, clockVars, session>>

\* worker_.stop(): the flag, the events of both streams, then the join.
StopWorker(at) ==
  /\ stop_requested' = TRUE /\ stop_events' = All(TRUE)
  /\ call' = [call EXCEPT !.at = at]
  /\ UNCHANGED <<streams, worker, running, startup, errors, returned>>

\* The baselines of both clocks, or not by the deadline; with them, the observer.
StartObserver ==
  /\ At("start", "startup") /\ startup = "succeeded"
  /\ \/ /\ running
        /\ observer' = "starting" /\ observer_stop' = FALSE
        /\ Returns("started")
        /\ UNCHANGED workerVars
     \/ /\ Returns("started")
        /\ UNCHANGED <<workerVars, observer, observer_stop>>
     \/ /\ running
        /\ observer_stop' = FALSE      \* clock_observer_thread_start_failed
        /\ StopWorker("rollback")
        /\ UNCHANGED observer
  /\ UNCHANGED <<feed_forward, valid, tracker, session>>

StopObserverThenWorker ==
  /\ call.of \in {"stop", "destroy"} /\ call.at = "observer" /\ ObserverJoined
  /\ observer' = "none"
  /\ StopWorker("worker")
  /\ UNCHANGED <<observer_stop, feed_forward, valid, tracker, session>>

JoinWorker ==
  /\ call.at \in {"worker", "rollback"} /\ WorkerJoined
  /\ worker' = "none"
  /\ streams' = IF call.of = "destroy" THEN All("Closed") ELSE streams
  /\ Returns(IF call.at = "rollback" THEN "failed" ELSE "stopped")
  /\ UNCHANGED <<stop_events, running, stop_requested, startup, errors, clockVars, session>>

-----------------------------------------------------------------------------
(* The worker's thread.                                                    *)

\* An end before the loop: no stream stays started, and start() gets the reason.
StartupFails ==
  /\ running' = FALSE /\ startup' = "failed" /\ errors' = TRUE /\ worker' = "exited"
  /\ streams' = All("Open")

\* Fault: start_streams() does not stop the capture stream when the render
\* stream does not start.
RunStartupWithoutRollback ==
  /\ worker = "starting"
  /\ running' = FALSE /\ startup' = "failed" /\ errors' = TRUE /\ worker' = "exited"
  /\ streams' = [streams EXCEPT !["capture"] = "Started"]
  /\ stop_events' = [stop_events EXCEPT !["capture"] = FALSE]
  /\ UNCHANGED <<call, returned, stop_requested, clockVars, session>>

\* COM, the capture stream, the render stream, the thread's priority.  A
\* stream that starts resets its stop event.
RunStartup ==
  /\ worker = "starting"
  /\ \/ /\ StartupFails
        /\ \E begun \in {{}, {"capture"}, Sides} :
             stop_events' = [s \in Sides |-> s \notin begun /\ stop_events[s]]
     \/ /\ streams' = All("Started") /\ stop_events' = All(FALSE)
        /\ startup' = "succeeded" /\ worker' = "loop"
        /\ UNCHANGED <<running, errors>>
  /\ UNCHANGED <<call, returned, stop_requested, clockVars, session>>

\* The loop ends: the flag at its head, a stop event during its waits
\* (cancelled), or an error of process_once().
LeaveLoop ==
  /\ worker = "loop"
  /\ stop_requested \/ \E s \in Sides : stop_events[s]
  /\ worker' = "stopping"
  /\ UNCHANGED <<call, returned, streams, stop_events, running, stop_requested, startup, errors,
                 clockVars, session>>

ProcessFails ==
  /\ worker = "loop"
  /\ errors' = TRUE /\ stop_requested' = TRUE
  /\ worker' = "stopping"
  /\ UNCHANGED <<call, returned, streams, stop_events, running, startup, clockVars, session>>

\* A stream whose client does not stop counts as stopped, with an error.
StopStreams ==
  /\ worker = "stopping"
  /\ streams' = All("Open")
  /\ errors' \in {errors, TRUE}
  /\ worker' = "stopped"
  /\ UNCHANGED <<call, returned, stop_events, running, stop_requested, startup, clockVars, session>>

EndWorker ==
  /\ worker = "stopped"
  /\ running' = FALSE /\ worker' = "exited"
  /\ UNCHANGED <<call, returned, streams, stop_events, stop_requested, startup, errors, clockVars,
                 session>>

-----------------------------------------------------------------------------
(* The observer's thread.                                                  *)

Record(invalid, disabled) == tracker' = [invalid |-> invalid, disabled |-> disabled]

SetFeedForward(of) == feed_forward' = of /\ valid' = (of # 0)

ObserverStarts ==
  /\ observer = "starting"
  /\ \/ observer' = "waiting" /\ UNCHANGED <<feed_forward, valid>>
     \/ observer' = "exited" /\ SetFeedForward(0)     \* no COM
  /\ UNCHANGED <<call, returned, workerVars, observer_stop, tracker, session>>

\* Fault: the observer only looks whether the loop is running.
ObserverWakesForTheLoop ==
  /\ observer = "waiting"
  /\ observer' = IF ~running THEN "exited" ELSE "reading"
  /\ UNCHANGED <<call, returned, workerVars, observer_stop, feed_forward, valid, tracker, session>>

ObserverWakes ==
  /\ observer = "waiting"
  /\ observer' = IF observer_stop \/ ~running THEN "exited" ELSE "reading"
  /\ UNCHANGED <<call, returned, workerVars, observer_stop, feed_forward, valid, tracker, session>>

\* read_clock() twice, observe(), record(): a ready sample applies, one that
\* warms up changes nothing, the third invalid one in a row disables.
Observe ==
  /\ observer = "reading"
  /\ \/ SetFeedForward(session) /\ Record(0, FALSE)
     \/ UNCHANGED <<feed_forward, valid, tracker>>
     \/ /\ ~tracker.disabled /\ tracker.invalid + 1 < MaxInvalid
        /\ Record(tracker.invalid + 1, FALSE)
        /\ UNCHANGED <<feed_forward, valid>>
     \/ /\ ~tracker.disabled /\ tracker.invalid + 1 = MaxInvalid
        /\ Record(MaxInvalid, TRUE)
        /\ SetFeedForward(0)
  /\ observer' = "waiting"
  /\ UNCHANGED <<call, returned, workerVars, observer_stop, session>>

-----------------------------------------------------------------------------
Init ==
  /\ call = Idle /\ returned = "none"
  /\ streams = All("Closed") /\ stop_events = All(FALSE)
  /\ worker = "none" /\ running = FALSE /\ stop_requested = FALSE
  /\ startup = "pending" /\ errors = FALSE
  /\ observer = "none" /\ observer_stop = FALSE
  /\ feed_forward = 0 /\ valid = FALSE /\ tracker = ResetTracker
  /\ session = 0

Owner == StartWorker \/ StartupFailed \/ StartObserver \/ StopObserverThenWorker \/ JoinWorker
Worker == RunStartup \/ LeaveLoop \/ StopStreams \/ EndWorker
Observer == ObserverStarts \/ ObserverWakes \/ Observe

Next ==
  \/ Open \/ OpenFails \/ (\E of \in Calls : Call(of))
  \/ Owner \/ Worker \/ ProcessFails \/ Observer

\* The three threads run; process_once() returns because its waits time out.
\* Nothing makes the owner call again, or a cycle fail.
Spec == Init /\ [][Next]_vars /\ WF_vars(Owner) /\ WF_vars(Worker) /\ WF_vars(Observer)

-----------------------------------------------------------------------------
TypeOK ==
  /\ call \in {Idle} \union
       [of : Calls, at : {"observer", "startup", "rollback", "worker"}]
  /\ streams \in [Sides -> {"Closed", "Open", "Started"}] /\ stop_events \in [Sides -> BOOLEAN]
  /\ worker \in {"none", "starting", "loop", "stopping", "stopped", "exited"}
  /\ observer \in {"none", "starting", "waiting", "reading", "exited"}
  /\ {running, stop_requested, errors, observer_stop, valid} \subseteq BOOLEAN
  /\ startup \in {"pending", "failed", "succeeded"}
  /\ feed_forward \in 0 .. MaxSessions /\ session \in 0 .. MaxSessions
  /\ tracker \in [invalid : 0 .. MaxInvalid, disabled : BOOLEAN]

\* The devices are released when the loop is not running: no stream is left
\* started, whichever step of a start failed and however the loop ended.
DevicesAreReleased == ~running => \A s \in Sides : streams[s] # "Started"

\* After a stop, a destruction or a start that failed nothing of the loop runs.
StoppedMeansQuiet ==
  (call = Idle /\ returned \in {"stopped", "failed"}) =>
    ~running /\ worker = "none" /\ observer = "none"

\* A loop that has ended by itself says why: the supervisor classifies the
\* errors to decide whether it tries again.  In particular an event a stop
\* has left set does not cancel the next session.
DeadLoopHasReason ==
  (call = Idle /\ returned = "started" /\ ~running) => errors

\* The feed-forward is measured on the clocks of the session it steers.
FeedForwardIsOfThisSession ==
  /\ feed_forward \in {0, session}
  /\ valid => feed_forward = session

\* Every call returns: the joins wait for threads that end.
CallsReturn == (call # Idle) ~> (call = Idle)
=============================================================================
