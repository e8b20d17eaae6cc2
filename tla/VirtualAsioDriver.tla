------------------------- MODULE VirtualAsioDriver --------------------------
(***************************************************************************)
(* The ASIO driver inside a DAW's process: VirtualAsioDriver, the object   *)
(* the DAW calls from any of its threads, and WindowsVirtualAsioRuntime,   *)
(* the connection to the engine and the callback thread it runs.           *)
(*                                                                         *)
(* One mutex guards the object. The calls that start, stop or destroy the  *)
(* runtime let go of it meanwhile, because the callback they wait for may  *)
(* itself be asking for it (a DAW reads the sample position from its       *)
(* callback); the flag runtime_operation keeps other such calls out.       *)
(*                                                                         *)
(* The engine may go away: the callback thread then leaves by itself and   *)
(* waits to be joined. What passes through the buffers is                  *)
(* VirtualAsioTransport's.                                                 *)
(***************************************************************************)
CONSTANTS Threads,  \* the DAW's threads that call the driver
          Nobody    \* no thread holds the mutex

ASSUME NobodyIsNoThread == Nobody \notin Threads /\ "worker" \notin Threads

VARIABLES mutex,              \* who holds control_mutex_
          initialized,        \* initialized_
          buffers,            \* the halves the callback copies to and from exist
          buffers_created,    \* buffers_created_
          runtime,            \* runtime_: "none", "open", or "moved" into disposeBuffers()
          runtime_operation,  \* runtime_operation_
          running,            \* running_ of the driver
          engine,             \* the engine's process is there
          stop_event,         \* stop_event_ of the runtime is signalled
          runtime_running,    \* running_ of the runtime
          worker,             \* where the callback thread is
          pc                  \* where each of the DAW's threads is

driverVars == <<initialized, buffers, buffers_created, runtime, runtime_operation, running>>
runtimeVars == <<stop_event, runtime_running, worker>>
vars == <<mutex, driverVars, engine, runtimeVars, pc>>

Init ==
  /\ mutex = Nobody
  /\ initialized = FALSE
  /\ buffers = FALSE
  /\ buffers_created = FALSE
  /\ runtime = "none"
  /\ runtime_operation = FALSE
  /\ running = FALSE
  /\ engine = TRUE
  /\ stop_event = FALSE
  /\ runtime_running = FALSE
  /\ worker = "none"
  /\ pc = [thread \in Threads |-> "idle"]

Goes(thread, place) == pc' = [pc EXCEPT ![thread] = place]

Calls == {"init", "start", "stop", "createBuffers", "disposeBuffers"}

Call(thread) ==
  /\ pc[thread] = "idle"
  /\ \E call \in Calls : Goes(thread, call)
  /\ UNCHANGED <<mutex, driverVars, engine, runtimeVars>>

\* init() takes the mutex, asks the engine for its format, and always succeeds.
InitDriver(thread) ==
  /\ pc[thread] = "init" /\ mutex = Nobody
  /\ initialized' = TRUE
  /\ Goes(thread, "idle")
  /\ UNCHANGED <<mutex, buffers, buffers_created, runtime, runtime_operation,
                 running, engine, runtimeVars>>

\* The wait on the condition variable that precedes the other calls.
MayOperate == mutex = Nobody /\ ~runtime_operation

-----------------------------------------------------------------------------
(* createBuffers() and disposeBuffers() *)

\* The mutex is held while the host is asked and the engine connected.
BeginCreate(thread) ==
  /\ pc[thread] = "createBuffers" /\ MayOperate
  /\ IF ~initialized \/ running \/ buffers_created
     THEN Goes(thread, "idle") /\ UNCHANGED <<mutex, buffers>>
     ELSE Goes(thread, "opening") /\ mutex' = thread /\ buffers' = TRUE
  /\ UNCHANGED <<initialized, buffers_created, runtime, runtime_operation,
                 running, engine, runtimeVars>>

FinishCreate(thread) ==
  /\ pc[thread] = "opening"
  /\ \/ /\ engine
        /\ runtime' = "open" /\ buffers_created' = TRUE
        /\ UNCHANGED buffers
     \/ /\ buffers' = FALSE /\ buffers_created' = FALSE
        /\ UNCHANGED runtime
  /\ mutex' = Nobody
  /\ Goes(thread, "idle")
  /\ UNCHANGED <<initialized, runtime_operation, running, engine, runtimeVars>>

\* Fault: the buffers are freed before the callback thread has been joined.
FaultBeginDispose(thread) ==
  /\ pc[thread] = "disposeBuffers" /\ MayOperate
  /\ IF ~buffers_created
     THEN Goes(thread, "idle") /\ UNCHANGED <<buffers, runtime, runtime_operation, running>>
     ELSE /\ running' = FALSE
          /\ buffers' = FALSE
          /\ runtime_operation' = TRUE
          /\ runtime' = "moved"
          /\ Goes(thread, "destroying")
  /\ UNCHANGED <<mutex, initialized, buffers_created, engine, runtimeVars>>

BeginDispose(thread) ==
  /\ pc[thread] = "disposeBuffers" /\ MayOperate
  /\ IF ~buffers_created
     THEN Goes(thread, "idle") /\ UNCHANGED <<runtime, runtime_operation, running>>
     ELSE /\ running' = FALSE
          /\ runtime_operation' = TRUE
          /\ runtime' = "moved"
          /\ Goes(thread, "destroying")
  /\ UNCHANGED <<mutex, initialized, buffers, buffers_created, engine, runtimeVars>>

FinishDispose(thread) ==
  /\ pc[thread] = "destroyed" /\ mutex = Nobody
  /\ buffers' = FALSE
  /\ buffers_created' = FALSE
  /\ runtime' = "none"
  /\ runtime_operation' = FALSE
  /\ Goes(thread, "idle")
  /\ UNCHANGED <<mutex, initialized, running, engine, runtimeVars>>

-----------------------------------------------------------------------------
(* start() and stop() of the driver *)

BeginStart(thread) ==
  /\ pc[thread] = "start" /\ MayOperate
  /\ IF ~initialized \/ ~buffers_created \/ runtime = "none"
     THEN Goes(thread, "idle") /\ UNCHANGED runtime_operation
     ELSE Goes(thread, "starting") /\ runtime_operation' = TRUE
  /\ UNCHANGED <<mutex, initialized, buffers, buffers_created, runtime, running,
                 engine, runtimeVars>>

\* Fault: a start that finds the callback thread already running does not say so.
FaultFinishStart(thread) ==
  /\ pc[thread] \in {"started", "notStarted"} /\ mutex = Nobody
  /\ runtime_operation' = FALSE
  /\ running' = (pc[thread] = "started" /\ ~running)
  /\ Goes(thread, "idle")
  /\ UNCHANGED <<mutex, initialized, buffers, buffers_created, runtime, engine,
                 runtimeVars>>

FinishStart(thread) ==
  /\ pc[thread] \in {"started", "notStarted"} /\ mutex = Nobody
  /\ runtime_operation' = FALSE
  /\ running' = IF pc[thread] = "started" THEN TRUE ELSE running
  /\ Goes(thread, "idle")
  /\ UNCHANGED <<mutex, initialized, buffers, buffers_created, runtime, engine,
                 runtimeVars>>

\* Fault: the mutex is kept until the callback thread has been joined.
FaultBeginStopLocked(thread) ==
  /\ pc[thread] = "stop" /\ MayOperate
  /\ runtime_operation' = TRUE
  /\ running' = FALSE
  /\ mutex' = IF runtime = "none" THEN Nobody ELSE thread
  /\ Goes(thread, IF runtime = "none" THEN "stopped" ELSE "stopping")
  /\ UNCHANGED <<initialized, buffers, buffers_created, runtime, engine, runtimeVars>>

BeginStop(thread) ==
  /\ pc[thread] = "stop" /\ MayOperate
  /\ runtime_operation' = TRUE
  /\ running' = FALSE
  /\ Goes(thread, IF runtime = "none" THEN "stopped" ELSE "stopping")
  /\ UNCHANGED <<mutex, initialized, buffers, buffers_created, runtime, engine,
                 runtimeVars>>

FinishStop(thread) ==
  /\ pc[thread] = "stopped" /\ mutex = Nobody
  /\ runtime_operation' = FALSE
  /\ Goes(thread, "idle")
  /\ UNCHANGED <<mutex, initialized, buffers, buffers_created, runtime, running,
                 engine, runtimeVars>>

-----------------------------------------------------------------------------
(* start() and stop() of the runtime, called without the mutex *)

\* Already running: nothing to do. The engine has gone: nothing to be done.
\* Otherwise the worker of an earlier run is reaped first.
StartRuntime(thread) ==
  /\ pc[thread] = "starting"
  /\ \/ runtime_running /\ Goes(thread, "started") /\ UNCHANGED stop_event
     \/ ~runtime_running /\ ~engine /\ Goes(thread, "notStarted") /\ UNCHANGED stop_event
     \/ ~runtime_running /\ engine /\ Goes(thread, "reaping") /\ stop_event' = TRUE
  /\ UNCHANGED <<mutex, driverVars, engine, runtime_running, worker>>

Joined == worker \in {"none", "exited"}

\* The scheduler's handles or the thread may not be created.
SpawnWorker(thread) ==
  /\ pc[thread] = "reaping" /\ Joined
  /\ \/ /\ worker' = "waiting" /\ runtime_running' = TRUE
        /\ Goes(thread, "started")
     \/ /\ worker' = "none" /\ runtime_running' = FALSE
        /\ Goes(thread, "notStarted")
  /\ stop_event' = FALSE
  /\ UNCHANGED <<mutex, driverVars, engine>>

\* stop() of the runtime, or the same from its destructor.
StopRuntime(thread) ==
  /\ \/ pc[thread] = "stopping" /\ Goes(thread, "joining")
     \/ pc[thread] = "destroying" /\ Goes(thread, "joiningLast")
  /\ stop_event' = TRUE
  /\ UNCHANGED <<mutex, driverVars, engine, runtime_running, worker>>

JoinWorker(thread) ==
  /\ Joined
  /\ \/ pc[thread] = "joining" /\ Goes(thread, "stopped")
     \/ pc[thread] = "joiningLast" /\ Goes(thread, "destroyed")
  /\ worker' = "none" /\ runtime_running' = FALSE /\ stop_event' = FALSE
  /\ UNCHANGED <<mutex, driverVars, engine>>

-----------------------------------------------------------------------------
(* The callback thread *)

\* The wait prefers the stop event; otherwise the timer starts a cycle.
BeginCallback ==
  /\ worker = "waiting"
  /\ engine /\ ~stop_event
  /\ worker' = "callback"
  /\ UNCHANGED <<mutex, driverVars, engine, stop_event, runtime_running, pc>>

\* In its callback the DAW may ask the driver for the sample position.
AskInCallback ==
  /\ worker = "callback"
  /\ worker' = "asking"
  /\ UNCHANGED <<mutex, driverVars, engine, stop_event, runtime_running, pc>>

AnswerInCallback ==
  /\ worker = "asking" /\ mutex = Nobody
  /\ worker' = "answered"
  /\ UNCHANGED <<mutex, driverVars, engine, stop_event, runtime_running, pc>>

\* The half the callback has filled is copied out.
EndCallback ==
  /\ worker \in {"callback", "answered"}
  /\ worker' = "waiting"
  /\ UNCHANGED <<mutex, driverVars, engine, stop_event, runtime_running, pc>>

LeaveLoop ==
  /\ worker = "waiting"
  /\ stop_event \/ ~engine
  /\ worker' = "leaving"
  /\ UNCHANGED <<mutex, driverVars, engine, stop_event, runtime_running, pc>>

Exit ==
  /\ worker = "leaving"
  /\ worker' = "exited"
  /\ runtime_running' = FALSE
  /\ UNCHANGED <<mutex, driverVars, engine, stop_event, pc>>

EngineDies ==
  /\ engine
  /\ engine' = FALSE
  /\ UNCHANGED <<mutex, driverVars, runtimeVars, pc>>

-----------------------------------------------------------------------------

Worker ==
  \/ BeginCallback
  \/ AskInCallback
  \/ AnswerInCallback
  \/ EndCallback
  \/ LeaveLoop
  \/ Exit

\* The steps a call takes once it has been made.
Proceed(thread) ==
  \/ InitDriver(thread)
  \/ BeginCreate(thread)
  \/ FinishCreate(thread)
  \/ BeginDispose(thread)
  \/ FinishDispose(thread)
  \/ BeginStart(thread)
  \/ FinishStart(thread)
  \/ BeginStop(thread)
  \/ FinishStop(thread)
  \/ StartRuntime(thread)
  \/ SpawnWorker(thread)
  \/ StopRuntime(thread)
  \/ JoinWorker(thread)

Next ==
  \/ \E thread \in Threads : Call(thread) \/ Proceed(thread)
  \/ Worker
  \/ EngineDies

\* A thread that waits for the mutex or the condition again and again finds it
\* free again and again and gets it in the end; callbacks return.
Fairness ==
  /\ \A thread \in Threads : SF_vars(Proceed(thread))
  /\ SF_vars(AnswerInCallback)
  /\ WF_vars(EndCallback)
  /\ WF_vars(LeaveLoop)
  /\ WF_vars(Exit)

Spec == Init /\ [][Next]_vars /\ Fairness

-----------------------------------------------------------------------------

Operating == {"starting", "reaping", "started", "notStarted", "stopping", "joining",
              "stopped", "destroying", "joiningLast", "destroyed"}

Places == Calls \cup Operating \cup {"idle", "opening"}

Types ==
  /\ mutex \in Threads \cup {Nobody}
  /\ initialized \in BOOLEAN /\ buffers \in BOOLEAN /\ buffers_created \in BOOLEAN
  /\ runtime_operation \in BOOLEAN /\ running \in BOOLEAN /\ engine \in BOOLEAN
  /\ stop_event \in BOOLEAN /\ runtime_running \in BOOLEAN
  /\ runtime \in {"none", "open", "moved"}
  /\ worker \in {"none", "waiting", "callback", "asking", "answered", "leaving", "exited"}
  /\ pc \in [Threads -> Places]

BuffersAgree ==
  (buffers <=> buffers_created) \/ \E thread \in Threads : pc[thread] = "opening"

\* Each variable has its type, and apart from a createBuffers() that is under way
\* the halves exist exactly when the driver says that buffers are created.
TypeOK == Types /\ BuffersAgree

\* The runtime is started, stopped or destroyed by one call at a time: no thread
\* replaces a worker another is joining, or uses a runtime another destroys.
OneOperation ==
  /\ \A s, t \in Threads : pc[s] \in Operating /\ pc[t] \in Operating => s = t
  /\ (\E thread \in Threads : pc[thread] \in Operating) <=> runtime_operation

\* The callback thread never copies to or from buffers that have been freed, nor
\* runs without the runtime whose members it uses.
BuffersOutliveCallbacks ==
  ~Joined => buffers /\ runtime # "none"

\* Once a stop() has returned, no callback comes until the next start(): outside of
\* an operation a callback thread that runs belongs to a driver that says it runs.
StoppedMeansSilent ==
  ~runtime_operation /\ ~Joined => running

\* No call hangs: in particular a stop(), a start() after the engine was lost and a
\* disposeBuffers() get their callback thread, also when its callback waits for
\* the driver's mutex.
CallsReturn ==
  \A thread \in Threads : (pc[thread] # "idle") ~> (pc[thread] = "idle")
=============================================================================
