----------------------- MODULE VirtualAsioThreadProofs -----------------------
(***************************************************************************)
(* The two places where threads of the Virtual ASIO path share an object.  *)
(*                                                                         *)
(* The driver in the DAW, for any number of the DAW's threads: no two      *)
(* calls meet in the runtime, callbacks do not outlive their buffers, and  *)
(* a stopped driver is silent. The strengthening says what a thread at     *)
(* each place of a call may rely on while it does not hold the mutex: the  *)
(* buffers are created while it starts the runtime, and the callback       *)
(* thread is joined when it has stopped it.                                *)
(*                                                                         *)
(* The engine's render bus, for any number of slots, block sizes, ring      *)
(* capacities and depths of the store buffer: unless a slot was claimed    *)
(* while an announcement of the audio thread waited in the buffer, nobody  *)
(* clears it while it is in use, and what is heard of it is the stream its *)
(* session pushed. The strengthening says that everything the audio thread *)
(* does with a slot comes behind an announcement, visible or waiting, that *)
(* the indices that wait come nearer and nearer to the place to write, and *)
(* how the ring, the block being copied and the remainder continue what    *)
(* was heard.                                                              *)
(***************************************************************************)
EXTENDS VirtualAsioDriver, VirtualAsioRenderBus, SequenceTheorems, WellFoundedInduction, TLAPS

-----------------------------------------------------------------------------
(* The driver *)

\* While createBuffers() connects to the engine it has the mutex and new buffers.
OpenersOwnBuffers ==
  \A thread \in Threads : pc[thread] = "opening" =>
    mutex = thread /\ buffers /\ ~buffers_created

\* What is true where a call has let go of the mutex.
CallsRelyOn ==
  \A thread \in Threads :
    /\ pc[thread] \in {"starting", "reaping"} => buffers_created
    /\ pc[thread] \in {"notStarted", "stopped", "destroyed"} => Joined

\* A callback thread needs a runtime, which needs buffers.
WorkerNeedsRuntime ==
  /\ runtime = "none" => ~buffers_created
  /\ ~Joined => buffers_created
  /\ runtime_running <=> ~Joined

Inv ==
  /\ TypeOK
  /\ OneOperation
  /\ OpenersOwnBuffers
  /\ CallsRelyOn
  /\ WorkerNeedsRuntime
  /\ StoppedMeansSilent

LEMMA InitInv == Init => Inv
  BY DEF Init, Inv, TypeOK, Types, BuffersAgree, OneOperation, OpenersOwnBuffers, CallsRelyOn,
    WorkerNeedsRuntime, StoppedMeansSilent, Joined, Operating, Calls, Places

LEMMA NextInv == Inv /\ [Next]_vars => Inv'
<1> SUFFICES ASSUME Inv, [Next]_vars PROVE Inv'
  OBVIOUS
<1>0. /\ Types /\ BuffersAgree /\ OneOperation /\ OpenersOwnBuffers /\ CallsRelyOn
      /\ WorkerNeedsRuntime /\ StoppedMeansSilent
  BY DEF Inv, TypeOK
<1> USE NobodyIsNoThread DEF MayOperate, driverVars, runtimeVars
<1>1. ASSUME NEW thread \in Threads, Call(thread) PROVE Inv'
  <2>0. pc' \in [Threads -> Places]
    BY <1>0, <1>1 DEF Call, Goes, Types, Places, Calls, Operating
  <2>1. Types'
    BY <1>0, <1>1, <2>0 DEF Call, Types
  <2>2. BuffersAgree'
    BY <1>0, <1>1 DEF Call, Goes, BuffersAgree, Types, OpenersOwnBuffers, Calls, Operating, Places
  <2>3. OneOperation'
    BY <1>0, <1>1 DEF Call, Goes, OneOperation, Types, Operating, Calls, Places
  <2>4. OpenersOwnBuffers'
    BY <1>0, <1>1 DEF Call, Goes, OpenersOwnBuffers, Types, Calls, Places
  <2>5. CallsRelyOn'
    BY <1>0, <1>1 DEF Call, Goes, CallsRelyOn, Types, OpenersOwnBuffers, OneOperation, WorkerNeedsRuntime, Operating, Calls, Joined
  <2>6. WorkerNeedsRuntime'
    BY <1>0, <1>1 DEF Call, Goes, WorkerNeedsRuntime, Types, CallsRelyOn, OpenersOwnBuffers, Joined
  <2>7. StoppedMeansSilent'
    BY <1>0, <1>1 DEF Call, Goes, StoppedMeansSilent, Types, OneOperation, CallsRelyOn, WorkerNeedsRuntime, Operating, Joined
  <2> QED BY <2>1, <2>2, <2>3, <2>4, <2>5, <2>6, <2>7 DEF Inv, TypeOK
<1>2. ASSUME NEW thread \in Threads, InitDriver(thread) PROVE Inv'
  <2>0. pc' \in [Threads -> Places]
    BY <1>0, <1>2 DEF InitDriver, Goes, Types, Places, Calls, Operating
  <2>1. Types'
    BY <1>0, <1>2, <2>0 DEF InitDriver, Types
  <2>2. BuffersAgree'
    BY <1>0, <1>2 DEF InitDriver, Goes, BuffersAgree, Types, OpenersOwnBuffers, Calls, Operating, Places
  <2>3. OneOperation'
    BY <1>0, <1>2 DEF InitDriver, Goes, OneOperation, Types, Operating, Calls, Places
  <2>4. OpenersOwnBuffers'
    BY <1>0, <1>2 DEF InitDriver, Goes, OpenersOwnBuffers, Types, Calls, Places
  <2>5. CallsRelyOn'
    BY <1>0, <1>2 DEF InitDriver, Goes, CallsRelyOn, Types, OpenersOwnBuffers, OneOperation, WorkerNeedsRuntime, Operating, Calls, Joined
  <2>6. WorkerNeedsRuntime'
    BY <1>0, <1>2 DEF InitDriver, Goes, WorkerNeedsRuntime, Types, CallsRelyOn, OpenersOwnBuffers, Joined
  <2>7. StoppedMeansSilent'
    BY <1>0, <1>2 DEF InitDriver, Goes, StoppedMeansSilent, Types, OneOperation, CallsRelyOn, WorkerNeedsRuntime, Operating, Joined
  <2> QED BY <2>1, <2>2, <2>3, <2>4, <2>5, <2>6, <2>7 DEF Inv, TypeOK
<1>3. ASSUME NEW thread \in Threads, BeginCreate(thread) PROVE Inv'
  <2>0. pc' \in [Threads -> Places]
    BY <1>0, <1>3 DEF BeginCreate, Goes, Types, Places, Calls, Operating
  <2>1. Types'
    <3>1. mutex' \in Threads \cup {Nobody} /\ buffers' \in BOOLEAN
      BY <1>0, <1>3 DEF BeginCreate, Types
    <3> QED BY <1>0, <1>3, <2>0, <3>1 DEF BeginCreate, Types
  <2>2. BuffersAgree'
    BY <1>0, <1>3 DEF BeginCreate, Goes, BuffersAgree, Types, OpenersOwnBuffers, Calls, Operating, Places
  <2>3. OneOperation'
    BY <1>0, <1>3 DEF BeginCreate, Goes, OneOperation, Types, Operating, Calls, Places
  <2>4. OpenersOwnBuffers'
    BY <1>0, <1>3 DEF BeginCreate, Goes, OpenersOwnBuffers, Types, Calls, Places
  <2>5. CallsRelyOn'
    BY <1>0, <1>3 DEF BeginCreate, Goes, CallsRelyOn, Types, OpenersOwnBuffers, OneOperation, WorkerNeedsRuntime, Operating, Calls, Joined
  <2>6. WorkerNeedsRuntime'
    BY <1>0, <1>3 DEF BeginCreate, Goes, WorkerNeedsRuntime, Types, CallsRelyOn, OpenersOwnBuffers, Joined
  <2>7. StoppedMeansSilent'
    BY <1>0, <1>3 DEF BeginCreate, Goes, StoppedMeansSilent, Types, OneOperation, CallsRelyOn, WorkerNeedsRuntime, Operating, Joined
  <2> QED BY <2>1, <2>2, <2>3, <2>4, <2>5, <2>6, <2>7 DEF Inv, TypeOK
<1>4. ASSUME NEW thread \in Threads, FinishCreate(thread) PROVE Inv'
  <2>0. pc' \in [Threads -> Places]
    BY <1>0, <1>4 DEF FinishCreate, Goes, Types, Places, Calls, Operating
  <2>1. Types'
    <3>1. /\ mutex' = Nobody
          /\ runtime' \in {"open", runtime} /\ buffers_created' \in BOOLEAN
          /\ buffers' \in {FALSE, buffers}
          /\ UNCHANGED <<initialized, runtime_operation, running, engine, runtimeVars>>
      BY <1>4 DEF FinishCreate
    <3>2. runtime' \in {"none", "open", "moved"} /\ buffers' \in BOOLEAN
      BY <1>0, <3>1 DEF Types
    <3> HIDE DEF MayOperate
    <3> QED BY <1>0, <2>0, <3>1, <3>2 DEF Types
  <2>2. BuffersAgree'
    BY <1>0, <1>4 DEF FinishCreate, Goes, BuffersAgree, Types, OpenersOwnBuffers, Calls, Operating, Places
  <2>3. OneOperation'
    BY <1>0, <1>4 DEF FinishCreate, Goes, OneOperation, Types, Operating, Calls, Places
  <2>4. OpenersOwnBuffers'
    BY <1>0, <1>4 DEF FinishCreate, Goes, OpenersOwnBuffers, Types, Calls, Places
  <2>5. CallsRelyOn'
    BY <1>0, <1>4 DEF FinishCreate, Goes, CallsRelyOn, Types, OpenersOwnBuffers, OneOperation, WorkerNeedsRuntime, Operating, Calls, Joined
  <2>6. WorkerNeedsRuntime'
    BY <1>0, <1>4 DEF FinishCreate, Goes, WorkerNeedsRuntime, Types, CallsRelyOn, OpenersOwnBuffers, Joined
  <2>7. StoppedMeansSilent'
    BY <1>0, <1>4 DEF FinishCreate, Goes, StoppedMeansSilent, Types, OneOperation, CallsRelyOn, WorkerNeedsRuntime, Operating, Joined
  <2> QED BY <2>1, <2>2, <2>3, <2>4, <2>5, <2>6, <2>7 DEF Inv, TypeOK
<1>5. ASSUME NEW thread \in Threads, BeginDispose(thread) PROVE Inv'
  <2>0. pc' \in [Threads -> Places]
    BY <1>0, <1>5 DEF BeginDispose, Goes, Types, Places, Calls, Operating
  <2>1. Types'
    <3>1. /\ runtime' \in {"none", "open", "moved"}
          /\ runtime_operation' \in BOOLEAN /\ running' \in BOOLEAN
      BY <1>0, <1>5 DEF BeginDispose, Types
    <3>2. UNCHANGED <<mutex, initialized, buffers, buffers_created, engine, runtimeVars>>
      BY <1>5 DEF BeginDispose
    <3> QED BY <1>0, <2>0, <3>1, <3>2 DEF Types
  <2>2. BuffersAgree'
    BY <1>0, <1>5 DEF BeginDispose, Goes, BuffersAgree, Types, OpenersOwnBuffers, Calls, Operating, Places
  <2>3. OneOperation'
    BY <1>0, <1>5 DEF BeginDispose, Goes, OneOperation, Types, Operating, Calls, Places
  <2>4. OpenersOwnBuffers'
    BY <1>0, <1>5 DEF BeginDispose, Goes, OpenersOwnBuffers, Types, Calls, Places
  <2>5. CallsRelyOn'
    BY <1>0, <1>5 DEF BeginDispose, Goes, CallsRelyOn, Types, OpenersOwnBuffers, OneOperation, WorkerNeedsRuntime, Operating, Calls, Joined
  <2>6. WorkerNeedsRuntime'
    BY <1>0, <1>5 DEF BeginDispose, Goes, WorkerNeedsRuntime, Types, CallsRelyOn, OpenersOwnBuffers, Joined
  <2>7. StoppedMeansSilent'
    BY <1>0, <1>5 DEF BeginDispose, Goes, StoppedMeansSilent, Types, OneOperation, CallsRelyOn, WorkerNeedsRuntime, Operating, Joined
  <2> QED BY <2>1, <2>2, <2>3, <2>4, <2>5, <2>6, <2>7 DEF Inv, TypeOK
<1>6. ASSUME NEW thread \in Threads, FinishDispose(thread) PROVE Inv'
  <2>0. pc' \in [Threads -> Places]
    BY <1>0, <1>6 DEF FinishDispose, Goes, Types, Places, Calls, Operating
  <2>1. Types'
    BY <1>0, <1>6, <2>0 DEF FinishDispose, Types
  <2>2. BuffersAgree'
    BY <1>0, <1>6 DEF FinishDispose, Goes, BuffersAgree, Types, OpenersOwnBuffers, Calls, Operating, Places
  <2>3. OneOperation'
    BY <1>0, <1>6 DEF FinishDispose, Goes, OneOperation, Types, Operating, Calls, Places
  <2>4. OpenersOwnBuffers'
    BY <1>0, <1>6 DEF FinishDispose, Goes, OpenersOwnBuffers, Types, Calls, Places
  <2>5. CallsRelyOn'
    BY <1>0, <1>6 DEF FinishDispose, Goes, CallsRelyOn, Types, OpenersOwnBuffers, OneOperation, WorkerNeedsRuntime, Operating, Calls, Joined
  <2>6. WorkerNeedsRuntime'
    BY <1>0, <1>6 DEF FinishDispose, Goes, WorkerNeedsRuntime, Types, CallsRelyOn, OpenersOwnBuffers, Joined
  <2>7. StoppedMeansSilent'
    BY <1>0, <1>6 DEF FinishDispose, Goes, StoppedMeansSilent, Types, OneOperation, CallsRelyOn, WorkerNeedsRuntime, Operating, Joined
  <2> QED BY <2>1, <2>2, <2>3, <2>4, <2>5, <2>6, <2>7 DEF Inv, TypeOK
<1>7. ASSUME NEW thread \in Threads, BeginStart(thread) PROVE Inv'
  <2>0. pc' \in [Threads -> Places]
    BY <1>0, <1>7 DEF BeginStart, Goes, Types, Places, Calls, Operating
  <2>1. Types'
    <3>1. UNCHANGED <<mutex, initialized, buffers, buffers_created, runtime, running,
                      engine, stop_event, runtime_running, worker>>
      BY <1>7 DEF BeginStart
    <3>2. runtime_operation' \in BOOLEAN
      BY <1>0, <1>7 DEF BeginStart, Types
    <3> QED BY <1>0, <2>0, <3>1, <3>2 DEF Types
  <2>2. BuffersAgree'
    BY <1>0, <1>7 DEF BeginStart, Goes, BuffersAgree, Types, OpenersOwnBuffers, Calls, Operating, Places
  <2>3. OneOperation'
    BY <1>0, <1>7 DEF BeginStart, Goes, OneOperation, Types, Operating, Calls, Places
  <2>4. OpenersOwnBuffers'
    BY <1>0, <1>7 DEF BeginStart, Goes, OpenersOwnBuffers, Types, Calls, Places
  <2>5. CallsRelyOn'
    BY <1>0, <1>7 DEF BeginStart, Goes, CallsRelyOn, Types, OpenersOwnBuffers, OneOperation, WorkerNeedsRuntime, Operating, Calls, Joined
  <2>6. WorkerNeedsRuntime'
    BY <1>0, <1>7 DEF BeginStart, Goes, WorkerNeedsRuntime, Types, CallsRelyOn, OpenersOwnBuffers, Joined
  <2>7. StoppedMeansSilent'
    BY <1>0, <1>7 DEF BeginStart, Goes, StoppedMeansSilent, Types, OneOperation, CallsRelyOn, WorkerNeedsRuntime, Operating, Joined
  <2> QED BY <2>1, <2>2, <2>3, <2>4, <2>5, <2>6, <2>7 DEF Inv, TypeOK
<1>8. ASSUME NEW thread \in Threads, FinishStart(thread) PROVE Inv'
  <2>0. pc' \in [Threads -> Places]
    BY <1>0, <1>8 DEF FinishStart, Goes, Types, Places, Calls, Operating
  <2>1. Types'
    <3>1. UNCHANGED <<mutex, initialized, buffers, buffers_created, runtime,
                      engine, stop_event, runtime_running, worker>>
      BY <1>8 DEF FinishStart
    <3>2. runtime_operation' \in BOOLEAN /\ running' \in BOOLEAN
      BY <1>0, <1>8 DEF FinishStart, Types
    <3> QED BY <1>0, <2>0, <3>1, <3>2 DEF Types
  <2>2. BuffersAgree'
    BY <1>0, <1>8 DEF FinishStart, Goes, BuffersAgree, Types, OpenersOwnBuffers, Calls, Operating, Places
  <2>3. OneOperation'
    BY <1>0, <1>8 DEF FinishStart, Goes, OneOperation, Types, Operating, Calls, Places
  <2>4. OpenersOwnBuffers'
    BY <1>0, <1>8 DEF FinishStart, Goes, OpenersOwnBuffers, Types, Calls, Places
  <2>5. CallsRelyOn'
    BY <1>0, <1>8 DEF FinishStart, Goes, CallsRelyOn, Types, OpenersOwnBuffers, OneOperation, WorkerNeedsRuntime, Operating, Calls, Joined
  <2>6. WorkerNeedsRuntime'
    BY <1>0, <1>8 DEF FinishStart, Goes, WorkerNeedsRuntime, Types, CallsRelyOn, OpenersOwnBuffers, Joined
  <2>7. StoppedMeansSilent'
    BY <1>0, <1>8 DEF FinishStart, Goes, StoppedMeansSilent, Types, OneOperation, CallsRelyOn, WorkerNeedsRuntime, Operating, Joined
  <2> QED BY <2>1, <2>2, <2>3, <2>4, <2>5, <2>6, <2>7 DEF Inv, TypeOK
<1>9. ASSUME NEW thread \in Threads, BeginStop(thread) PROVE Inv'
  <2>0. pc' \in [Threads -> Places]
    BY <1>0, <1>9 DEF BeginStop, Goes, Types, Places, Calls, Operating
  <2>1. Types'
    <3>1. /\ runtime_operation' = TRUE /\ running' = FALSE
          /\ UNCHANGED <<mutex, initialized, buffers, buffers_created, runtime, engine, runtimeVars>>
      BY <1>9 DEF BeginStop
    <3>2. Types
      BY <1>0
    <3>3. /\ mutex' \in Threads \cup {Nobody} /\ runtime' \in {"none", "open", "moved"}
          /\ initialized' \in BOOLEAN /\ buffers' \in BOOLEAN /\ buffers_created' \in BOOLEAN
          /\ engine' \in BOOLEAN
      BY <3>1, <3>2 DEF Types
    <3>4. /\ stop_event' \in BOOLEAN /\ runtime_running' \in BOOLEAN
          /\ worker' \in {"none", "waiting", "callback", "asking", "answered", "leaving", "exited"}
      BY <3>1, <3>2 DEF Types
    <3> HIDE DEF MayOperate, driverVars, runtimeVars
    <3> QED BY <2>0, <3>1, <3>3, <3>4 DEF Types
  <2>2. BuffersAgree'
    BY <1>0, <1>9 DEF BeginStop, Goes, BuffersAgree, Types, OpenersOwnBuffers, Calls, Operating, Places
  <2>3. OneOperation'
    BY <1>0, <1>9 DEF BeginStop, Goes, OneOperation, Types, Operating, Calls, Places
  <2>4. OpenersOwnBuffers'
    BY <1>0, <1>9 DEF BeginStop, Goes, OpenersOwnBuffers, Types, Calls, Places
  <2>5. CallsRelyOn'
    BY <1>0, <1>9 DEF BeginStop, Goes, CallsRelyOn, Types, OpenersOwnBuffers, OneOperation, WorkerNeedsRuntime, Operating, Calls, Joined
  <2>6. WorkerNeedsRuntime'
    BY <1>0, <1>9 DEF BeginStop, Goes, WorkerNeedsRuntime, Types, CallsRelyOn, OpenersOwnBuffers, Joined
  <2>7. StoppedMeansSilent'
    BY <1>0, <1>9 DEF BeginStop, Goes, StoppedMeansSilent, Types, OneOperation, CallsRelyOn, WorkerNeedsRuntime, Operating, Joined
  <2> QED BY <2>1, <2>2, <2>3, <2>4, <2>5, <2>6, <2>7 DEF Inv, TypeOK
<1>10. ASSUME NEW thread \in Threads, FinishStop(thread) PROVE Inv'
  <2>0. pc' \in [Threads -> Places]
    BY <1>0, <1>10 DEF FinishStop, Goes, Types, Places, Calls, Operating
  <2>1. Types'
    <3>1. UNCHANGED <<mutex, initialized, buffers, buffers_created, runtime, running,
                      engine, stop_event, runtime_running, worker>>
      BY <1>10 DEF FinishStop
    <3>2. runtime_operation' \in BOOLEAN
      BY <1>0, <1>10 DEF FinishStop, Types
    <3> QED BY <1>0, <2>0, <3>1, <3>2 DEF Types
  <2>2. BuffersAgree'
    BY <1>0, <1>10 DEF FinishStop, Goes, BuffersAgree, Types, OpenersOwnBuffers, Calls, Operating, Places
  <2>3. OneOperation'
    BY <1>0, <1>10 DEF FinishStop, Goes, OneOperation, Types, Operating, Calls, Places
  <2>4. OpenersOwnBuffers'
    BY <1>0, <1>10 DEF FinishStop, Goes, OpenersOwnBuffers, Types, Calls, Places
  <2>5. CallsRelyOn'
    BY <1>0, <1>10 DEF FinishStop, Goes, CallsRelyOn, Types, OpenersOwnBuffers, OneOperation, WorkerNeedsRuntime, Operating, Calls, Joined
  <2>6. WorkerNeedsRuntime'
    BY <1>0, <1>10 DEF FinishStop, Goes, WorkerNeedsRuntime, Types, CallsRelyOn, OpenersOwnBuffers, Joined
  <2>7. StoppedMeansSilent'
    BY <1>0, <1>10 DEF FinishStop, Goes, StoppedMeansSilent, Types, OneOperation, CallsRelyOn, WorkerNeedsRuntime, Operating, Joined
  <2> QED BY <2>1, <2>2, <2>3, <2>4, <2>5, <2>6, <2>7 DEF Inv, TypeOK
<1>11. ASSUME NEW thread \in Threads, StartRuntime(thread) PROVE Inv'
  <2>0. pc' \in [Threads -> Places]
    BY <1>0, <1>11 DEF StartRuntime, Goes, Types, Places, Calls, Operating
  <2>1. Types'
    <3>1. UNCHANGED <<mutex, initialized, buffers, buffers_created, runtime, runtime_operation,
                      running, engine, runtime_running, worker>>
      BY <1>11 DEF StartRuntime
    <3>2. stop_event' \in BOOLEAN
      BY <1>0, <1>11 DEF StartRuntime, Types
    <3> QED BY <1>0, <2>0, <3>1, <3>2 DEF Types
  <2>2. BuffersAgree'
    BY <1>0, <1>11 DEF StartRuntime, Goes, BuffersAgree, Types, OpenersOwnBuffers, Calls, Operating, Places
  <2>3. OneOperation'
    BY <1>0, <1>11 DEF StartRuntime, Goes, OneOperation, Types, Operating, Calls, Places
  <2>4. OpenersOwnBuffers'
    BY <1>0, <1>11 DEF StartRuntime, Goes, OpenersOwnBuffers, Types, Calls, Places
  <2>5. CallsRelyOn'
    BY <1>0, <1>11 DEF StartRuntime, Goes, CallsRelyOn, Types, OpenersOwnBuffers, OneOperation, WorkerNeedsRuntime, Operating, Calls, Joined
  <2>6. WorkerNeedsRuntime'
    BY <1>0, <1>11 DEF StartRuntime, Goes, WorkerNeedsRuntime, Types, CallsRelyOn, OpenersOwnBuffers, Joined
  <2>7. StoppedMeansSilent'
    BY <1>0, <1>11 DEF StartRuntime, Goes, StoppedMeansSilent, Types, OneOperation, CallsRelyOn, WorkerNeedsRuntime, Operating, Joined
  <2> QED BY <2>1, <2>2, <2>3, <2>4, <2>5, <2>6, <2>7 DEF Inv, TypeOK
<1>12. ASSUME NEW thread \in Threads, SpawnWorker(thread) PROVE Inv'
  <2>0. pc' \in [Threads -> Places]
    BY <1>0, <1>12 DEF SpawnWorker, Goes, Types, Places, Calls, Operating
  <2>1. Types'
    BY <1>0, <1>12, <2>0 DEF SpawnWorker, Types
  <2>2. BuffersAgree'
    BY <1>0, <1>12 DEF SpawnWorker, Goes, BuffersAgree, Types, OpenersOwnBuffers, Calls, Operating, Places
  <2>3. OneOperation'
    BY <1>0, <1>12 DEF SpawnWorker, Goes, OneOperation, Types, Operating, Calls, Places
  <2>4. OpenersOwnBuffers'
    BY <1>0, <1>12 DEF SpawnWorker, Goes, OpenersOwnBuffers, Types, Calls, Places
  <2>5. CallsRelyOn'
    BY <1>0, <1>12 DEF SpawnWorker, Goes, CallsRelyOn, Types, OpenersOwnBuffers, OneOperation, WorkerNeedsRuntime, Operating, Calls, Joined
  <2>6. WorkerNeedsRuntime'
    BY <1>0, <1>12 DEF SpawnWorker, Goes, WorkerNeedsRuntime, Types, CallsRelyOn, OpenersOwnBuffers, Joined
  <2>7. StoppedMeansSilent'
    BY <1>0, <1>12 DEF SpawnWorker, Goes, StoppedMeansSilent, Types, OneOperation, CallsRelyOn, WorkerNeedsRuntime, Operating, Joined
  <2> QED BY <2>1, <2>2, <2>3, <2>4, <2>5, <2>6, <2>7 DEF Inv, TypeOK
<1>13. ASSUME NEW thread \in Threads, StopRuntime(thread) PROVE Inv'
  <2>0. pc' \in [Threads -> Places]
    BY <1>0, <1>13 DEF StopRuntime, Goes, Types, Places, Calls, Operating
  <2>1. Types'
    BY <1>0, <1>13, <2>0 DEF StopRuntime, Types
  <2>2. BuffersAgree'
    BY <1>0, <1>13 DEF StopRuntime, Goes, BuffersAgree, Types, OpenersOwnBuffers, Calls, Operating, Places
  <2>3. OneOperation'
    BY <1>0, <1>13 DEF StopRuntime, Goes, OneOperation, Types, Operating, Calls, Places
  <2>4. OpenersOwnBuffers'
    BY <1>0, <1>13 DEF StopRuntime, Goes, OpenersOwnBuffers, Types, Calls, Places
  <2>5. CallsRelyOn'
    BY <1>0, <1>13 DEF StopRuntime, Goes, CallsRelyOn, Types, OpenersOwnBuffers, OneOperation, WorkerNeedsRuntime, Operating, Calls, Joined
  <2>6. WorkerNeedsRuntime'
    BY <1>0, <1>13 DEF StopRuntime, Goes, WorkerNeedsRuntime, Types, CallsRelyOn, OpenersOwnBuffers, Joined
  <2>7. StoppedMeansSilent'
    BY <1>0, <1>13 DEF StopRuntime, Goes, StoppedMeansSilent, Types, OneOperation, CallsRelyOn, WorkerNeedsRuntime, Operating, Joined
  <2> QED BY <2>1, <2>2, <2>3, <2>4, <2>5, <2>6, <2>7 DEF Inv, TypeOK
<1>14. ASSUME NEW thread \in Threads, JoinWorker(thread) PROVE Inv'
  <2>0. pc' \in [Threads -> Places]
    BY <1>0, <1>14 DEF JoinWorker, Goes, Types, Places, Calls, Operating
  <2>1. Types'
    BY <1>0, <1>14, <2>0 DEF JoinWorker, Types
  <2>2. BuffersAgree'
    BY <1>0, <1>14 DEF JoinWorker, Goes, BuffersAgree, Types, OpenersOwnBuffers, Calls, Operating, Places
  <2>3. OneOperation'
    BY <1>0, <1>14 DEF JoinWorker, Goes, OneOperation, Types, Operating, Calls, Places
  <2>4. OpenersOwnBuffers'
    BY <1>0, <1>14 DEF JoinWorker, Goes, OpenersOwnBuffers, Types, Calls, Places
  <2>5. CallsRelyOn'
    BY <1>0, <1>14 DEF JoinWorker, Goes, CallsRelyOn, Types, OpenersOwnBuffers, OneOperation, WorkerNeedsRuntime, Operating, Calls, Joined
  <2>6. WorkerNeedsRuntime'
    BY <1>0, <1>14 DEF JoinWorker, Goes, WorkerNeedsRuntime, Types, CallsRelyOn, OpenersOwnBuffers, Joined
  <2>7. StoppedMeansSilent'
    BY <1>0, <1>14 DEF JoinWorker, Goes, StoppedMeansSilent, Types, OneOperation, CallsRelyOn, WorkerNeedsRuntime, Operating, Joined
  <2> QED BY <2>1, <2>2, <2>3, <2>4, <2>5, <2>6, <2>7 DEF Inv, TypeOK
<1>15. ASSUME BeginCallback \/ AskInCallback \/ AnswerInCallback \/ EndCallback \/ LeaveLoop
      PROVE  Inv'
  <2>1. UNCHANGED <<mutex, driverVars, engine, stop_event, runtime_running, pc>>
    BY <1>15 DEF BeginCallback, AskInCallback, AnswerInCallback, EndCallback, LeaveLoop
  <2>2. /\ ~Joined /\ ~Joined'
        /\ worker' \in {"waiting", "callback", "asking", "answered", "leaving"}
    BY <1>15 DEF BeginCallback, AskInCallback, AnswerInCallback, EndCallback, LeaveLoop, Joined
  <2>3. Types' /\ BuffersAgree' /\ OneOperation' /\ OpenersOwnBuffers'
    BY <1>0, <2>1, <2>2 DEF Types, BuffersAgree, OneOperation, OpenersOwnBuffers
  <2>4. CallsRelyOn' /\ WorkerNeedsRuntime' /\ StoppedMeansSilent'
    BY <1>0, <2>1, <2>2 DEF CallsRelyOn, WorkerNeedsRuntime, StoppedMeansSilent
  <2> QED BY <2>3, <2>4 DEF Inv, TypeOK
<1>16. ASSUME Exit PROVE Inv'
  <2>0. worker' = "exited" /\ runtime_running' = FALSE
        /\ UNCHANGED <<mutex, driverVars, engine, stop_event, pc>>
    BY <1>16 DEF Exit
  <2>1. Types' /\ BuffersAgree' /\ OneOperation' /\ OpenersOwnBuffers'
    <3>1. Types'
      BY <1>0, <2>0 DEF Types
    <3>2. BuffersAgree' /\ OneOperation' /\ OpenersOwnBuffers'
      BY <1>0, <2>0 DEF BuffersAgree, OneOperation, OpenersOwnBuffers
    <3> QED BY <3>1, <3>2
  <2>2. CallsRelyOn' /\ WorkerNeedsRuntime' /\ StoppedMeansSilent'
    BY <1>0, <1>16 DEF Exit, CallsRelyOn, WorkerNeedsRuntime, StoppedMeansSilent, Joined
  <2> QED BY <2>1, <2>2 DEF Inv, TypeOK
<1>17. ASSUME EngineDies \/ UNCHANGED vars PROVE Inv'
  <2>1. (engine' = engine \/ engine' = FALSE) /\ UNCHANGED <<mutex, driverVars, runtimeVars, pc>>
    BY <1>17 DEF EngineDies, vars
  <2>2. Types'
    <3>1. UNCHANGED <<mutex, initialized, buffers, buffers_created, runtime, runtime_operation,
                      running, stop_event, runtime_running, worker, pc>>
      BY <2>1
    <3>2. engine' \in BOOLEAN
      BY <1>0, <2>1 DEF Types
    <3> QED BY <1>0, <3>1, <3>2 DEF Types
  <2>4. BuffersAgree' /\ OneOperation' /\ OpenersOwnBuffers'
    BY <1>0, <2>1 DEF BuffersAgree, OneOperation, OpenersOwnBuffers
  <2>3. CallsRelyOn' /\ WorkerNeedsRuntime' /\ StoppedMeansSilent'
    BY <1>0, <2>1 DEF CallsRelyOn, WorkerNeedsRuntime, StoppedMeansSilent, Joined
  <2> QED BY <2>2, <2>3, <2>4 DEF Inv, TypeOK
<1> QED
  BY <1>1, <1>2, <1>3, <1>4, <1>5, <1>6, <1>7, <1>8, <1>9,
     <1>10, <1>11, <1>12, <1>13, <1>14, <1>15, <1>16, <1>17
  DEF Next, Proceed, Worker

LEMMA InvHolds == Spec => []Inv
  BY InitInv, NextInv, PTL DEF Spec

\* Every variable keeps its type, and buffers exist when the driver says so.
THEOREM TypeCorrect == Spec => []TypeOK
<1>1. Inv => TypeOK
  BY DEF Inv
<1> QED BY <1>1, InvHolds, PTL

\* However many threads call, the runtime is in the hands of one call at a time.
THEOREM OneOperationAtATime == Spec => []OneOperation
<1>1. Inv => OneOperation
  BY DEF Inv
<1> QED BY <1>1, InvHolds, PTL

\* No callback runs on freed buffers or without its runtime.
THEOREM CallbacksHaveBuffers == Spec => []BuffersOutliveCallbacks
<1>1. Inv => BuffersOutliveCallbacks
  BY DEF Inv, TypeOK, Types, BuffersAgree, OpenersOwnBuffers, WorkerNeedsRuntime, BuffersOutliveCallbacks
<1> QED BY <1>1, InvHolds, PTL

\* A driver that has been stopped makes no callbacks.
THEOREM StoppedIsSilent == Spec => []StoppedMeansSilent
<1>1. Inv => StoppedMeansSilent
  BY DEF Inv
<1> QED BY <1>1, InvHolds, PTL

-----------------------------------------------------------------------------
(* The render bus *)

\* Stores the audio thread can have made.
StoreSet ==
  [slot : Slots, field : {"read_index"}, value : Indices]
    \cup [slot : Slots, field : {"consumer_reading"}, value : BOOLEAN]

\* The types, with the ranges that make them inductive.
BusTypes ==
  /\ BusTypeOK
  /\ blocks \in [Slots -> [Indices -> Seq(FrameSet) \cup {Torn}]]
  /\ pending \in [Slots -> Seq(FrameSet)]
  /\ adapted \in [Slots -> Seq(FrameSet)]
  /\ source \in [Slots -> 0 .. MaxBlockFrames]
  /\ heard \in [Slots -> Seq(FrameSet) \cup {Torn}]
  /\ stores \in Seq(StoreSet)

\* A slot is claimed by the control thread, or free, or a session's thread works on it.
Attachments ==
  /\ control \in {"attaching", "opening"} => next_generation <= MaxGeneration
  /\ \A slot \in Slots :
       /\ state[slot] = "Claiming" <=> control # "free" /\ slot = claimed
       /\ state[slot] = "Active" <=> pump[slot] # "none"
       /\ state[slot] = "Active" => generation[slot] >= 1
       /\ generation[slot] < next_generation
       /\ pump[slot] \in {"draining", "deciding"} => accepted[slot] + source[slot] <= MaxAccepted
       /\ adapted[slot] # <<>> => pump[slot] \in {"draining", "flushing"}

\* The announcements among the stores that wait, and their ends.
Opens(i, slot) ==
  stores[i].slot = slot /\ stores[i].field = "consumer_reading" /\ stores[i].value
Ends(i, slot) ==
  stores[i].slot = slot /\ stores[i].field = "consumer_reading" /\ ~stores[i].value

\* The first i of the waiting stores leave the slot announced.
AnnouncedAt(slot, i) ==
  \/ \E j \in 1 .. i : Opens(j, slot) /\ \A k \in j + 1 .. i : ~Ends(k, slot)
  \/ consumer_reading[slot] /\ \A k \in 1 .. i : ~Ends(k, slot)

\* Whatever the audio thread does with a slot, it has announced before.
Covered ==
  /\ \A slot \in Slots : \A i \in IndexStores(slot) : AnnouncedAt(slot, i)
  /\ audio \in {"rechecking", "reading", "mixing", "leaving"} => AnnouncedAt(visited, Len(stores))

\* It reads the slot's ring, or an index of it is still to become visible.
Uses(slot) == (visited = slot /\ audio \in {"reading", "mixing"}) \/ IndexStores(slot) # {}

\* Nobody has cleared the slot since its session attached.
Live(slot) == state[slot] = "Active" \/ (control = "detaching" /\ claimed = slot)

\* A slot in use stays as it is, unless it was claimed past an announcement.
Handshake == \A slot \in Slots : Uses(slot) /\ ~overtaken[slot] => Live(slot)

\* A whole block of an attachment's frames, beginning after the frame m.
IsBlock(block, g, m) ==
  /\ block \in Seq(Nat \X Nat) /\ Len(block) = Frames
  /\ \A i \in 1 .. Frames : block[i] = <<g, m + i>>

Unread(index, from, to) ==
  IF from <= to THEN from <= index /\ index < to ELSE from <= index \/ index < to

\* A ring with another block at a place.
Put(ring, place, block) == [ring EXCEPT ![place] = block]

\* From the block to read to the place to write a ring continues the stream: first[i] is the frame
\* before the block at i.
Line(g, ring, from, to, before, queued) ==
  \E first \in [Indices -> 0 .. MaxAccepted] :
    /\ first[from] = before /\ first[to] = queued
    /\ \A index \in Indices : Unread(index, from, to) =>
         /\ IsBlock(ring[index], g, first[index])
         /\ first[Increment(index)] = first[index] + Frames

\* How many blocks there are from one place of a ring to another.
Ahead(from, to) == IF from <= to THEN to - from ELSE QueueCapacity + 1 - from + to

\* The indices that wait come nearer and nearer to the place to write.
InOrder(slot) ==
  /\ \A i \in IndexStores(slot) :
       Ahead(stores[i].value, write_index[slot]) <= Ahead(read_index[slot], write_index[slot])
  /\ \A i, j \in IndexStores(slot) : i <= j =>
       Ahead(stores[j].value, write_index[slot]) <= Ahead(stores[i].value, write_index[slot])

HeardTo(slot) == IF heard[slot] = <<>> THEN 0 ELSE heard[slot][Frames][2]

\* The accepted frames that are in the ring or have left it.
Queued(slot) == accepted[slot] - Len(pending[slot]) - Len(adapted[slot])

\* What was heard, what is in the ring, the block on its way there and the remainder follow each other.
Stream(slot) ==
  /\ InOrder(slot)
  /\ audio = "mixing" /\ visited = slot => OwnReadIndex(slot) # write_index[slot]
  /\ Line(generation[slot], blocks[slot], OwnReadIndex(slot), write_index[slot], HeardTo(slot),
          Queued(slot))
  /\ adapted[slot] # <<>> => ~Full(slot) /\ IsBlock(adapted[slot], generation[slot], Queued(slot))
  /\ \A i \in 1 .. Len(pending[slot]) :
       pending[slot][i] = <<generation[slot], accepted[slot] - Len(pending[slot]) + i>>

BusInv ==
  /\ BusTypes
  /\ Attachments
  /\ Covered
  /\ Handshake
  /\ \A slot \in Slots : Live(slot) /\ ~overtaken[slot] => Stream(slot)

LEMMA NextIndex ==
  ASSUME NEW index \in Indices
  PROVE  /\ Increment(index) \in Indices
         /\ Increment(index) = IF index = QueueCapacity THEN 0 ELSE index + 1
<1>1. QueueCapacity \in Nat \ {0} /\ index \in Nat /\ index <= QueueCapacity
  BY Dimensions DEF Indices
<1>2. CASE index = QueueCapacity
  <2>1. (QueueCapacity + 1) % (QueueCapacity + 1) = 0
    BY <1>1
  <2> QED BY <1>1, <1>2, <2>1 DEF Increment, Indices
<1>3. CASE index < QueueCapacity
  <2>1. (index + 1) % (QueueCapacity + 1) = index + 1
    BY <1>1, <1>3
  <2> QED BY <1>1, <1>3, <2>1 DEF Increment, Indices
<1> QED BY <1>1, <1>2, <1>3

\* A ring that has been cleared.
LEMMA LineBegins ==
  ASSUME NEW g, NEW ring, NEW index \in Indices
  PROVE  Line(g, ring, index, index, 0, 0)
<1> DEFINE first == [i \in Indices |-> 0]
<1>1. MaxAccepted \in Nat
  BY Bounds
<1>2. first \in [Indices -> 0 .. MaxAccepted] /\ first[index] = 0
  BY <1>1
<1>3. \A i \in Indices : ~Unread(i, index, index)
  BY DEF Unread, Indices
<1> QED BY <1>2, <1>3 DEF Line

\* The place to write holds nothing that is read.
LEMMA LineBearsWriting ==
  ASSUME NEW g, NEW ring, NEW from \in Indices, NEW to \in Indices, NEW before, NEW queued,
         ring \in [Indices -> Seq(FrameSet) \cup {Torn}], NEW block,
         Line(g, ring, from, to, before, queued)
  PROVE  Line(g, Put(ring, to, block), from, to, before, queued)
<1>1. \A index \in Indices : Unread(index, from, to) => index # to
  BY DEF Unread, Indices
<1> QED BY <1>1 DEF Line, Put

\* A block is put in behind the others.
LEMMA LineGrows ==
  ASSUME NEW g, NEW ring, NEW from \in Indices, NEW to \in Indices, NEW before, NEW queued,
         ring \in [Indices -> Seq(FrameSet) \cup {Torn}], NEW block, IsBlock(block, g, queued),
         Line(g, ring, from, to, before, queued),
         Increment(to) # from, queued + Frames <= MaxAccepted
  PROVE  Line(g, Put(ring, to, block), from, Increment(to), before, queued + Frames)
<1>1. PICK first \in [Indices -> 0 .. MaxAccepted] :
        /\ first[from] = before /\ first[to] = queued
        /\ \A index \in Indices : Unread(index, from, to) =>
             /\ IsBlock(ring[index], g, first[index])
             /\ first[Increment(index)] = first[index] + Frames
  BY DEF Line
<1> DEFINE after == [first EXCEPT ![Increment(to)] = queued + Frames]
           next == Put(ring, to, block)
<1>2. /\ Increment(to) \in Indices
      /\ Increment(to) = IF to = QueueCapacity THEN 0 ELSE to + 1
  BY NextIndex
<1>3. /\ QueueCapacity \in Nat \ {0} /\ Frames \in Nat \ {0} /\ MaxAccepted \in Nat
      /\ from \in Int /\ to \in Int /\ 0 <= from /\ 0 <= to
      /\ from <= QueueCapacity /\ to <= QueueCapacity
  BY Dimensions, Bounds DEF Indices
<1>4. to # Increment(to)
  BY <1>2, <1>3
<1>5. /\ after \in [Indices -> 0 .. MaxAccepted]
      /\ after[from] = before /\ after[to] = queued /\ after[Increment(to)] = queued + Frames
  BY <1>1, <1>2, <1>3, <1>4
<1>6. ASSUME NEW index \in Indices, Unread(index, from, Increment(to))
      PROVE  /\ IsBlock(next[index], g, after[index])
             /\ after[Increment(index)] = after[index] + Frames
  <2>1. index # Increment(to)
    BY <1>6, <1>2, <1>3 DEF Unread, Indices
  <2>2. CASE index = to
    <3>1. next[index] = block /\ after[index] = queued
      BY <2>2, <1>5 DEF Put
    <3> QED BY <2>2, <3>1, <1>5
  <2>3. CASE index # to
    <3>1. Unread(index, from, to)
      BY <1>6, <2>3, <1>2, <1>3 DEF Unread, Indices
    <3>0. Increment(index) = IF index = QueueCapacity THEN 0 ELSE index + 1
      BY NextIndex
    <3>2. Increment(index) # Increment(to)
      BY <3>0, <2>3, <1>2, <1>3 DEF Indices
    <3>3. /\ Increment(index) \in Indices
          /\ after[Increment(index)] = first[Increment(index)]
          /\ after[index] = first[index] /\ next[index] = ring[index]
      BY <2>1, <2>3, <3>2, NextIndex, <1>1 DEF Put
    <3> QED BY <3>1, <3>3, <1>1
  <2> QED BY <2>2, <2>3
<1> HIDE DEF after, next
<1>7. Line(g, next, from, Increment(to), before, queued + Frames)
  BY <1>5, <1>6 DEF Line
<1> QED BY <1>7 DEF next

\* A block is taken off the front.
LEMMA LineAdvances ==
  ASSUME NEW g, NEW ring, NEW from \in Indices, NEW to \in Indices, NEW before, NEW queued,
         Line(g, ring, from, to, before, queued), from # to
  PROVE  /\ IsBlock(ring[from], g, before)
         /\ before \in 0 .. MaxAccepted
         /\ Line(g, ring, Increment(from), to, before + Frames, queued)
<1>1. PICK first \in [Indices -> 0 .. MaxAccepted] :
        /\ first[from] = before /\ first[to] = queued
        /\ \A index \in Indices : Unread(index, from, to) =>
             /\ IsBlock(ring[index], g, first[index])
             /\ first[Increment(index)] = first[index] + Frames
  BY DEF Line
<1>2. /\ Increment(from) \in Indices
      /\ Increment(from) = IF from = QueueCapacity THEN 0 ELSE from + 1
  BY NextIndex
<1>3. /\ QueueCapacity \in Nat \ {0}
      /\ from \in Int /\ to \in Int /\ 0 <= from /\ 0 <= to
      /\ from <= QueueCapacity /\ to <= QueueCapacity
  BY Dimensions DEF Indices
<1>4. Unread(from, from, to)
  BY <1>3 DEF Unread
<1>5. \A index \in Indices : Unread(index, Increment(from), to) => Unread(index, from, to)
  BY <1>2, <1>3 DEF Unread, Indices
<1>6. first[Increment(from)] = before + Frames /\ IsBlock(ring[from], g, before)
  BY <1>1, <1>4
<1>7. Line(g, ring, Increment(from), to, before + Frames, queued)
  BY <1>1, <1>5, <1>6 DEF Line
<1> QED BY <1>1, <1>6, <1>7

LEMMA BusTypesBegin == BusInit => BusTypes /\ Attachments
<1> SUFFICES ASSUME BusInit PROVE BusTypes /\ Attachments
  OBVIOUS
<1> USE Dimensions, Bounds DEF BusInit, EachSlot
<1>1. <<>> \in Seq(FrameSet) /\ <<>> \in Seq(StoreSet) /\ Len(<<>>) = 0
  BY EmptySeq
<1>2. 0 \in Indices /\ 1 \in Slots
  BY DEF Indices, Slots
<1>3. BusTypeOK
  BY <1>1, <1>2 DEF BusTypeOK
<1>4. BusTypes
  BY <1>1, <1>3 DEF BusTypes
<1>5. Attachments
  BY DEF Attachments
<1> QED BY <1>4, <1>5

LEMMA AttachmentsKept == BusTypes /\ Attachments /\ [BusNext]_busVars => Attachments'
<1> SUFFICES ASSUME BusTypes, Attachments, [BusNext]_busVars PROVE Attachments'
  OBVIOUS
<1>0. /\ state \in [Slots -> {"Idle", "Claiming", "Active"}]
      /\ generation \in [Slots -> 0 .. MaxGeneration]
      /\ next_generation \in 1 .. MaxGeneration + 1
      /\ control \in {"free", "attaching", "detaching", "opening", "closing"}
      /\ claimed \in Slots
      /\ pump \in [Slots -> {"none", "idle", "draining", "deciding", "flushing"}]
      /\ source \in [Slots -> 0 .. MaxBlockFrames] /\ accepted \in [Slots -> 0 .. MaxAccepted]
      /\ adapted \in [Slots -> Seq(FrameSet)]
      /\ {MaxGeneration, MaxAccepted, MaxBlockFrames} \subseteq Nat
  BY Bounds, Dimensions DEF BusTypes, BusTypeOK
<1> USE DEF slotVars, controlVars, pumpVars
<1>1. ASSUME NEW slot \in Slots, Attach(slot) PROVE Attachments'
  BY <1>0, <1>1 DEF Attach, Attachments
<1>2. ASSUME NEW slot \in Slots, Detach(slot) PROVE Attachments'
  BY <1>0, <1>2 DEF Detach, Attachments
<1>3. ASSUME NEW slot \in Slots, Push(slot) PROVE Attachments'
  BY <1>0, <1>3 DEF Push, PumpTo, Attachments
<1>4. ASSUME NEW slot \in Slots, TakeFrames(slot) PROVE Attachments'
  BY <1>0, <1>4 DEF TakeFrames, Attachments
<1>5. ASSUME NEW slot \in Slots, Enqueue(slot) PROVE Attachments'
  BY <1>0, <1>5 DEF Enqueue, Attachments
<1>6. ASSUME NEW slot \in Slots, StopDraining(slot) PROVE Attachments'
  BY <1>0, <1>6 DEF StopDraining, PumpTo, Attachments
<1>7. ASSUME NEW slot \in Slots, Decide(slot) PROVE Attachments'
  <2>1. UNCHANGED <<control, next_generation, state, claimed, generation, source, adapted>>
    BY <1>7 DEF Decide
  <2>2. /\ pump[slot] = "deciding" /\ pump'[slot] \in {"idle", "flushing"}
        /\ \A other \in Slots \ {slot} :
             pump'[other] = pump[other] /\ accepted'[other] = accepted[other]
    BY <1>0, <1>7 DEF Decide
  <2>3. adapted[slot] = <<>>
    <3>1. pump[slot] = "deciding" /\ (adapted[slot] # <<>> => pump[slot] \in {"draining", "flushing"})
      BY <2>2 DEF Attachments
    <3> QED BY <3>1
  <2>4. ASSUME NEW other \in Slots
        PROVE  /\ state[other] = "Active" <=> pump'[other] # "none"
               /\ pump'[other] \in {"draining", "deciding"} =>
                    accepted'[other] + source[other] <= MaxAccepted
               /\ adapted[other] # <<>> => pump'[other] \in {"draining", "flushing"}
    BY <2>2, <2>3 DEF Attachments
  <2> QED BY <2>1, <2>4 DEF Attachments
<1>8. CASE AwaitReader
  BY <1>0, <1>8 DEF AwaitReader, Claimed, Attachments
<1>9. CASE Open
  <2>1. /\ control = "opening" /\ control' = "free" /\ next_generation' = next_generation + 1
        /\ generation' = [generation EXCEPT ![claimed] = next_generation]
        /\ state' = [state EXCEPT ![claimed] = "Active"]
        /\ accepted' = [accepted EXCEPT ![claimed] = 0]
        /\ pump' = [pump EXCEPT ![claimed] = "idle"]
        /\ UNCHANGED <<claimed, source, adapted>>
    BY <1>9 DEF Open
  <2>2. adapted[claimed] = <<>> /\ next_generation \in Nat /\ next_generation >= 1
    <3>1. next_generation \in Nat /\ next_generation >= 1
      BY <1>0
    <3>2. state[claimed] = "Claiming" /\ pump[claimed] = "none"
      BY <1>0, <2>1 DEF Attachments
    <3>3. adapted[claimed] = <<>>
      BY <1>0, <3>2 DEF Attachments
    <3> QED BY <3>1, <3>3
  <2>3. ASSUME NEW slot \in Slots, slot # claimed
        PROVE  /\ state'[slot] = state[slot] /\ generation'[slot] = generation[slot]
               /\ accepted'[slot] = accepted[slot] /\ pump'[slot] = pump[slot]
    BY <1>0, <2>1, <2>3
  <2>4. ASSUME NEW slot \in Slots
        PROVE  /\ state'[slot] # "Claiming"
               /\ state'[slot] = "Active" <=> pump'[slot] # "none"
               /\ state'[slot] = "Active" => generation'[slot] >= 1
               /\ generation'[slot] < next_generation'
               /\ pump'[slot] \in {"draining", "deciding"} => accepted'[slot] + source[slot] <= MaxAccepted
               /\ adapted[slot] # <<>> => pump'[slot] \in {"draining", "flushing"}
    <3>1. CASE slot = claimed
      BY <1>0, <2>1, <2>2, <3>1
    <3>2. CASE slot # claimed
      <4>1. generation[slot] \in Nat
        BY <1>0
      <4> QED BY <2>1, <2>2, <2>3, <3>2, <4>1 DEF Attachments
    <3> QED BY <3>1, <3>2
  <2> QED BY <2>1, <2>4 DEF Attachments
<1>10. CASE Close
  BY <1>0, <1>10 DEF Close, Attachments
<1>11. CASE AudioStep \/ Commit
  BY <1>11 DEF AudioStep, Visit, Announce, Recheck, FindBlock, Mix, Leave, AudioTo, NextSlot,
    Commit, Attachments
<1>12. CASE UNCHANGED busVars
  BY <1>12 DEF busVars, Attachments
<1> QED
  BY <1>1, <1>2, <1>3, <1>4, <1>5, <1>6, <1>7, <1>8, <1>9, <1>10, <1>11, <1>12
  DEF BusNext, PumpStep, ControlStep

\* The ring and the frames before it, which only a session's thread and a clearing touch.
LEMMA RingTypesKept ==
  BusTypes /\ Attachments /\ [BusNext]_busVars =>
    /\ (blocks \in [Slots -> [Indices -> Seq(FrameSet) \cup {Torn}]])'
    /\ (pending \in [Slots -> Seq(FrameSet)])'
    /\ (adapted \in [Slots -> Seq(FrameSet)])'
    /\ (write_index \in [Slots -> Indices])'
    /\ (accepted \in [Slots -> 0 .. MaxAccepted])'
    /\ (\A slot \in Slots : /\ Len(pending[slot]) <= MaxBlockFrames + Frames
                            /\ adapted[slot] = <<>> \/ blocks[slot][write_index[slot]] = Torn)'
<1> DEFINE T(b, p, a, w, n) ==
             /\ b \in [Slots -> [Indices -> Seq(FrameSet) \cup {Torn}]]
             /\ p \in [Slots -> Seq(FrameSet)]
             /\ a \in [Slots -> Seq(FrameSet)]
             /\ w \in [Slots -> Indices]
             /\ n \in [Slots -> 0 .. MaxAccepted]
             /\ \A slot \in Slots : /\ Len(p[slot]) <= MaxBlockFrames + Frames
                                    /\ a[slot] = <<>> \/ b[slot][w[slot]] = Torn
<1> SUFFICES ASSUME BusTypes, Attachments, [BusNext]_busVars
             PROVE  T(blocks', pending', adapted', write_index', accepted')
  OBVIOUS
<1>0. T(blocks, pending, adapted, write_index, accepted)
  BY DEF BusTypes, BusTypeOK
<1>a. /\ Frames \in Nat \ {0} /\ {MaxBlockFrames, MaxAccepted} \subseteq Nat
      /\ claimed \in Slots
      /\ source \in [Slots -> 0 .. MaxBlockFrames]
      /\ generation \in [Slots -> 0 .. MaxGeneration] /\ MaxGeneration \in Nat
  BY Bounds, Dimensions DEF BusTypes, BusTypeOK
<1>b. 0 \in Indices
  BY Dimensions DEF Indices
<1>c. <<>> \in Seq(FrameSet) /\ Len(<<>>) = 0
  BY EmptySeq
<1>d. \A slot \in Slots : Increment(write_index[slot]) \in Indices
  BY <1>0, NextIndex
<1> USE DEF slotVars, pumpVars, ringVars
<1>1. ASSUME NEW slot \in Slots, TakeFrames(slot)
      PROVE  T(blocks', pending', adapted', write_index', accepted')
  <2>1. pending[slot] \in Seq(FrameSet) /\ Len(pending[slot]) \in Nat /\ Frames <= Len(pending[slot])
    BY <1>0, <1>1, LenProperties DEF TakeFrames, CanDrain
  <2>2. \A i \in 1 .. Len(pending[slot]) : pending[slot][i] \in FrameSet
    BY <2>1, ElementOfSeq
  <2>3. SubSeq(pending[slot], 1, Frames) \in Seq(FrameSet)
    BY <2>1, <2>2, <1>a, SubSeqProperties
  <2>4. /\ SubSeq(pending[slot], Frames + 1, Len(pending[slot])) \in Seq(FrameSet)
        /\ Len(SubSeq(pending[slot], Frames + 1, Len(pending[slot]))) <= Len(pending[slot])
    BY <2>1, <2>2, <1>a, SubSeqProperties
  <2>5. Len(pending[slot]) <= MaxBlockFrames + Frames
    BY <1>0
  <2> DEFINE front == SubSeq(pending[slot], 1, Frames)
             rest == SubSeq(pending[slot], Frames + 1, Len(pending[slot]))
  <2>6. /\ adapted' = [adapted EXCEPT ![slot] = front]
        /\ pending' = [pending EXCEPT ![slot] = rest]
        /\ blocks' = [blocks EXCEPT ![slot][write_index[slot]] = Torn]
        /\ UNCHANGED <<accepted, write_index>>
    BY <1>1 DEF TakeFrames
  <2>7. front \in Seq(FrameSet) /\ rest \in Seq(FrameSet) /\ Len(rest) <= MaxBlockFrames + Frames
    <3>1. front \in Seq(FrameSet) /\ rest \in Seq(FrameSet) /\ Len(rest) <= Len(pending[slot])
      BY <2>3, <2>4
    <3>2. Len(rest) \in Nat
      BY <3>1, LenProperties
    <3> HIDE DEF front, rest
    <3> QED BY <2>1, <2>5, <3>1, <3>2, <1>a
  <2> HIDE DEF front, rest
  <2> QED BY <1>0, <2>6, <2>7
<1>2. ASSUME NEW slot \in Slots, Enqueue(slot)
      PROVE  T(blocks', pending', adapted', write_index', accepted')
  BY <1>0, <1>2, <1>c, <1>d DEF Enqueue
<1>3. ASSUME NEW slot \in Slots, Decide(slot)
      PROVE  T(blocks', pending', adapted', write_index', accepted')
  <2>1. CASE Refused(slot)
    BY <1>0, <1>3, <2>1 DEF Decide
  <2>2. CASE ~Refused(slot)
    <3> DEFINE all == pending[slot] \o NewFrames(slot)
    <3>1. /\ accepted[slot] + source[slot] <= MaxAccepted /\ generation[slot] >= 1
          /\ accepted[slot] \in Nat /\ source[slot] \in Nat /\ generation[slot] \in 1 .. MaxGeneration
      <4>1. /\ accepted[slot] \in Nat /\ source[slot] \in Nat
            /\ generation[slot] \in 0 .. MaxGeneration
        BY <1>0, <1>a
      <4>2. pump[slot] = "deciding"
        BY <1>3 DEF Decide
      <4>3. accepted[slot] + source[slot] <= MaxAccepted /\ generation[slot] >= 1
        BY <4>2 DEF Attachments
      <4> HIDE DEF T
      <4> QED BY <1>a, <4>1, <4>3
    <3>2. NewFrames(slot) \in [1 .. source[slot] -> FrameSet]
      BY <3>1, <1>a DEF NewFrames, FrameSet
    <3>3. NewFrames(slot) \in Seq(FrameSet) /\ Len(NewFrames(slot)) = source[slot]
      BY <3>1, <3>2
    <3>4. pending[slot] \in Seq(FrameSet) /\ Len(pending[slot]) \in Nat
      BY <1>0, LenProperties
    <3>5. all \in Seq(FrameSet) /\ Len(all) = Len(pending[slot]) + source[slot]
      <4>1. \A s, t \in Seq(FrameSet) : s \o t \in Seq(FrameSet) /\ Len(s \o t) = Len(s) + Len(t)
        BY ConcatProperties
      <4> QED BY <3>3, <3>4, <4>1
    <3>6. Len(all) <= MaxBlockFrames + Frames
      <4>1. ~(Len(pending[slot]) + source[slot] > MaxBlockFrames + Frames)
        BY <2>2 DEF Refused
      <4> HIDE DEF all, T
      <4>2. Len(all) = Len(pending[slot]) + source[slot]
        BY <3>5
      <4>3. /\ Len(pending[slot]) \in Nat /\ source[slot] \in Nat
            /\ MaxBlockFrames \in Nat /\ Frames \in Nat
        BY <3>1, <3>4, <1>a
      <4> QED BY <4>1, <4>2, <4>3
    <3>7. /\ pending' = [pending EXCEPT ![slot] = all]
          /\ accepted' = [accepted EXCEPT ![slot] = @ + source[slot]]
          /\ UNCHANGED <<blocks, adapted, write_index>>
      BY <1>3, <2>2 DEF Decide
    <3> HIDE DEF all
    <3>8. pending' \in [Slots -> Seq(FrameSet)]
      BY <1>0, <3>5, <3>7
    <3>9. accepted' \in [Slots -> 0 .. MaxAccepted]
      <4>1. accepted[slot] + source[slot] \in 0 .. MaxAccepted
        BY <1>a, <3>1
      <4> QED BY <1>0, <3>7, <4>1
    <3>10. \A other \in Slots : Len(pending'[other]) <= MaxBlockFrames + Frames
      BY <1>0, <3>6, <3>7
    <3> QED BY <1>0, <3>7, <3>8, <3>9, <3>10
  <2> QED BY <2>1, <2>2
<1>4. ASSUME Open PROVE T(blocks', pending', adapted', write_index', accepted')
  <2>1. adapted[claimed] = <<>>
    BY <1>4, <1>a DEF Open, Attachments
  <2>2. /\ pending' = [pending EXCEPT ![claimed] = <<>>]
        /\ write_index' = [write_index EXCEPT ![claimed] = 0]
        /\ accepted' = [accepted EXCEPT ![claimed] = 0]
        /\ UNCHANGED <<blocks, adapted>>
    BY <1>4 DEF Open, Clear
  <2>3. pending' \in [Slots -> Seq(FrameSet)] /\ write_index' \in [Slots -> Indices]
    BY <1>0, <1>b, <1>c, <2>2
  <2>4. accepted' \in [Slots -> 0 .. MaxAccepted]
    BY <1>0, <1>a, <2>2
  <2>5. ASSUME NEW slot \in Slots
        PROVE  /\ Len(pending'[slot]) <= MaxBlockFrames + Frames
               /\ adapted[slot] = <<>> \/ blocks[slot][write_index'[slot]] = Torn
    <3>1. CASE slot = claimed
      <4>1. pending'[slot] = <<>>
        BY <1>0, <2>2, <3>1
      <4>2. Len(pending'[slot]) = 0
        BY <1>c, <4>1
      <4>3. Len(pending'[slot]) <= MaxBlockFrames + Frames
        BY <1>a, <4>2
      <4> QED BY <2>1, <3>1, <4>3
    <3>2. CASE slot # claimed
      BY <1>0, <2>2, <3>2
    <3> QED BY <3>1, <3>2
  <2> QED BY <1>0, <2>2, <2>3, <2>4, <2>5
<1>5. ASSUME Close PROVE T(blocks', pending', adapted', write_index', accepted')
  <2>1. adapted[claimed] = <<>>
    BY <1>5, <1>a DEF Close, Attachments
  <2>2. /\ pending' = [pending EXCEPT ![claimed] = <<>>]
        /\ write_index' = [write_index EXCEPT ![claimed] = 0]
        /\ accepted' = accepted
        /\ UNCHANGED <<blocks, adapted>>
    BY <1>5 DEF Close, Clear
  <2>3. pending' \in [Slots -> Seq(FrameSet)] /\ write_index' \in [Slots -> Indices]
    BY <1>0, <1>b, <1>c, <2>2
  <2>4. accepted' \in [Slots -> 0 .. MaxAccepted]
    BY <1>0, <1>a, <2>2
  <2>5. ASSUME NEW slot \in Slots
        PROVE  /\ Len(pending'[slot]) <= MaxBlockFrames + Frames
               /\ adapted[slot] = <<>> \/ blocks[slot][write_index'[slot]] = Torn
    <3>1. CASE slot = claimed
      <4>1. pending'[slot] = <<>>
        BY <1>0, <2>2, <3>1
      <4>2. Len(pending'[slot]) = 0
        BY <1>c, <4>1
      <4>3. Len(pending'[slot]) <= MaxBlockFrames + Frames
        BY <1>a, <4>2
      <4> QED BY <2>1, <3>1, <4>3
    <3>2. CASE slot # claimed
      BY <1>0, <2>2, <3>2
    <3> QED BY <3>1, <3>2
  <2> QED BY <1>0, <2>2, <2>3, <2>4, <2>5
<1>6. ASSUME UNCHANGED <<blocks, pending, adapted, write_index, accepted>>
      PROVE  T(blocks', pending', adapted', write_index', accepted')
  BY <1>0, <1>6
<1>7. ASSUME NEW slot \in Slots, Attach(slot) \/ Detach(slot) \/ Push(slot) \/ StopDraining(slot)
      PROVE  UNCHANGED <<blocks, pending, adapted, write_index, accepted>>
  BY <1>7 DEF Attach, Detach, Push, StopDraining, PumpTo
<1>8. ASSUME AwaitReader \/ AudioStep \/ Commit \/ UNCHANGED busVars
      PROVE  UNCHANGED <<blocks, pending, adapted, write_index, accepted>>
  BY <1>8 DEF AwaitReader, Claimed, AudioStep, Visit, Announce, Recheck, FindBlock, Mix, Leave, AudioTo,
    NextSlot, Commit, busVars
<1> HIDE DEF T
<1> QED
  BY <1>1, <1>2, <1>3, <1>4, <1>5, <1>6, <1>7, <1>8 DEF BusNext, PumpStep, ControlStep

LEMMA LastOfSome ==
  ASSUME NEW n \in Nat, NEW some \in SUBSET (1 .. n), some # {}
  PROVE  \E i \in some : \A j \in some : j <= i
<1> DEFINE Less == {pair \in Nat \X Nat : pair[1] < pair[2]}
           behind == {n - i : i \in some}
<1>1. IsWellFoundedOn(Less, Nat)
  BY NatLessThanWellFounded DEF OpToRel
<1>2. behind \subseteq Nat /\ behind # {}
  <2>1. \A i \in some : n - i \in Nat
    OBVIOUS
  <2>2. PICK i \in some : TRUE
    OBVIOUS
  <2>3. n - i \in behind
    OBVIOUS
  <2> QED BY <2>1, <2>3
<1>3. \E x \in behind : \A y \in behind : <<y, x>> \notin Less
  <2> HIDE DEF Less, behind
  <2> QED BY <1>1, <1>2, WFMin
<1>4. PICK x \in behind : \A y \in behind : <<y, x>> \notin Less
  BY <1>3
<1>5. ASSUME NEW y \in behind PROVE x <= y
  <2>1. x \in Nat /\ y \in Nat
    BY <1>2, <1>4
  <2>2. <<y, x>> \notin Less
    BY <1>4
  <2>3. ~(y < x)
    <3> HIDE DEF behind
    <3> QED BY <2>1, <2>2, Zenon
  <2> QED BY <2>1, <2>3
<1>6. PICK i \in some : x = n - i
  BY <1>4
<1>7. \A j \in some : j <= i
  <2>1. ASSUME NEW j \in some PROVE j <= i
    <3>1. n - j \in behind
      OBVIOUS
    <3>2. n - i <= n - j
      <4> HIDE DEF behind
      <4> QED BY <1>5, <1>6, <3>1
    <3>3. i \in Int /\ j \in Int /\ n \in Int
      BY <1>6, <2>1
    <3> QED BY <3>2, <3>3
  <2> QED BY <2>1
<1> QED BY <1>7

\* What the audio thread loads: its last store of the index, or the visible index.
LEMMA OwnIndex ==
  ASSUME BusTypes, NEW slot \in Slots
  PROVE  /\ IndexStores(slot) = {} => OwnReadIndex(slot) = read_index[slot]
         /\ IndexStores(slot) # {} =>
              \E i \in IndexStores(slot) :
                 (\A j \in IndexStores(slot) : j <= i) /\ OwnReadIndex(slot) = stores[i].value
         /\ \A i \in IndexStores(slot) : stores[i].value \in Indices
         /\ OwnReadIndex(slot) \in Indices
<1>1. stores \in Seq(StoreSet) /\ read_index \in [Slots -> Indices] /\ Len(stores) \in Nat
  BY LenProperties DEF BusTypes, BusTypeOK
<1>2. IndexStores(slot) \in SUBSET (1 .. Len(stores))
  BY DEF IndexStores
<1>3. ASSUME NEW i \in IndexStores(slot) PROVE stores[i].value \in Indices
  <2>1. stores[i] \in StoreSet /\ stores[i].field = "read_index"
    BY <1>1, <1>2, <1>3, ElementOfSeq DEF IndexStores
  <2> QED BY <2>1 DEF StoreSet
<1>4. CASE IndexStores(slot) = {}
  BY <1>1, <1>4 DEF OwnReadIndex
<1>5. CASE IndexStores(slot) # {}
  <2>1. \E i \in IndexStores(slot) : \A j \in IndexStores(slot) : j <= i
    BY <1>1, <1>2, <1>5, LastOfSome
  <2>2. \E i \in IndexStores(slot) :
           (\A j \in IndexStores(slot) : j <= i) /\ OwnReadIndex(slot) = stores[i].value
    BY <2>1, <1>5 DEF OwnReadIndex
  <2> QED BY <1>3, <1>5, <2>2
<1> QED BY <1>3, <1>4, <1>5

\* A store that is made, and one that becomes visible.
LEMMA StoreIsTyped ==
  ASSUME BusTypes, NEW field, NEW value, Store(field, value),
         \/ field = "read_index" /\ value \in Indices
         \/ field = "consumer_reading" /\ value \in BOOLEAN
  PROVE  stores' \in Seq(StoreSet) /\ Len(stores') <= StoreBuffer
<1>1. /\ stores \in Seq(StoreSet) /\ visited \in Slots
      /\ StoreBuffer \in Nat /\ Len(stores) \in Nat
  BY Dimensions, LenProperties DEF BusTypes, BusTypeOK
<1> DEFINE store == [slot |-> visited, field |-> field, value |-> value]
<1>2. store \in StoreSet
  BY <1>1 DEF StoreSet
<1>3. stores' = Append(stores, store) /\ Len(stores) < StoreBuffer
  BY DEF Store
<1> HIDE DEF store
<1> QED BY <1>1, <1>2, <1>3, AppendProperties

LEMMA CommitIsTyped ==
  ASSUME BusTypes, Commit
  PROVE  /\ stores' \in Seq(StoreSet) /\ Len(stores') <= StoreBuffer
         /\ read_index' \in [Slots -> Indices]
         /\ consumer_reading' \in [Slots -> BOOLEAN]
<1>1. /\ stores \in Seq(StoreSet) /\ stores # <<>> /\ Len(stores) <= StoreBuffer
      /\ StoreBuffer \in Nat /\ Len(stores) \in Nat
      /\ read_index \in [Slots -> Indices] /\ consumer_reading \in [Slots -> BOOLEAN]
  BY Dimensions, LenProperties DEF BusTypes, BusTypeOK, Commit
<1>2. /\ Head(stores) \in StoreSet
      /\ Tail(stores) \in Seq(StoreSet) /\ Len(Tail(stores)) = Len(stores) - 1
  BY <1>1, HeadTailProperties
<1>3. stores' \in Seq(StoreSet) /\ Len(stores') <= StoreBuffer
  BY <1>1, <1>2 DEF Commit
<1>4. CASE Head(stores).field = "read_index"
  <2>1. Head(stores).slot \in Slots /\ Head(stores).value \in Indices
    BY <1>2, <1>4 DEF StoreSet
  <2>2. /\ read_index' = [read_index EXCEPT ![Head(stores).slot] = Head(stores).value]
        /\ consumer_reading' = consumer_reading
    BY <1>4 DEF Commit
  <2> QED BY <1>1, <1>3, <2>1, <2>2
<1>5. CASE Head(stores).field = "consumer_reading"
  <2>1. Head(stores).slot \in Slots /\ Head(stores).value \in BOOLEAN
    BY <1>2, <1>5 DEF StoreSet
  <2>2. /\ consumer_reading'
             = [consumer_reading EXCEPT ![Head(stores).slot] = Head(stores).value]
        /\ read_index' = read_index
    BY <1>5 DEF Commit
  <2> QED BY <1>1, <1>3, <2>1, <2>2
<1> QED BY <1>4, <1>5 DEF Commit

LEMMA AudioTypesKept ==
  ASSUME BusTypes, [BusNext]_busVars
  PROVE  /\ stores' \in Seq(StoreSet) /\ Len(stores') <= StoreBuffer
         /\ read_index' \in [Slots -> Indices]
         /\ consumer_reading' \in [Slots -> BOOLEAN]
         /\ heard' \in [Slots -> Seq(FrameSet) \cup {Torn}]
         /\ visited' \in Slots
         /\ audio' \in {"visiting", "announcing", "rechecking", "reading", "mixing", "leaving"}
<1> DEFINE Visible == /\ read_index' \in [Slots -> Indices]
                      /\ consumer_reading' \in [Slots -> BOOLEAN]
           Buffered == stores' \in Seq(StoreSet) /\ Len(stores') <= StoreBuffer
           Heard == heard' \in [Slots -> Seq(FrameSet) \cup {Torn}]
           Stations == {"visiting", "announcing", "rechecking", "reading", "mixing", "leaving"}
<1>0. /\ stores \in Seq(StoreSet) /\ Len(stores) <= StoreBuffer
      /\ read_index \in [Slots -> Indices] /\ consumer_reading \in [Slots -> BOOLEAN]
      /\ heard \in [Slots -> Seq(FrameSet) \cup {Torn}]
      /\ visited \in Slots /\ audio \in Stations
      /\ blocks \in [Slots -> [Indices -> Seq(FrameSet) \cup {Torn}]]
      /\ claimed \in Slots
  BY DEF BusTypes, BusTypeOK
<1>c. 0 \in Indices
  BY Dimensions DEF Indices
<1>a. (visited % NumSlots) + 1 \in Slots
  BY <1>0, Dimensions DEF Slots
<1>b. OwnReadIndex(visited) \in Indices /\ Increment(OwnReadIndex(visited)) \in Indices
  BY <1>0, OwnIndex, NextIndex
<1> USE DEF audioVars, sharedByAudio
<1>1. CASE Visit
  BY <1>0, <1>a, <1>1 DEF Visit, AudioTo, NextSlot
<1>2. CASE Announce
  <2>1. Buffered
    BY <1>2, StoreIsTyped DEF Announce
  <2> QED BY <1>0, <1>2, <2>1 DEF Announce, AudioTo
<1>3. CASE Recheck
  <2>1. Buffered
    BY <1>0, <1>3, StoreIsTyped DEF Recheck
  <2> QED BY <1>0, <1>a, <1>3, <2>1 DEF Recheck, AudioTo, NextSlot
<1>4. CASE FindBlock
  BY <1>0, <1>4 DEF FindBlock, AudioTo
<1>5. CASE Mix
  <2>1. Buffered
    BY <1>b, <1>5, StoreIsTyped DEF Mix
  <2>2. Heard
    BY <1>0, <1>b, <1>5 DEF Mix
  <2> QED BY <1>0, <1>5, <2>1, <2>2 DEF Mix, AudioTo
<1>6. CASE Leave
  <2>1. Buffered
    BY <1>6, StoreIsTyped DEF Leave
  <2> QED BY <1>0, <1>a, <1>6, <2>1 DEF Leave, NextSlot
<1>7. CASE Commit
  BY <1>0, <1>7, CommitIsTyped DEF Commit
<1>8. CASE Open \/ Close
  <2>1. <<>> \in Seq(FrameSet)
    BY EmptySeq
  <2>2. /\ UNCHANGED <<audio, visited, stores, consumer_reading>>
        /\ read_index' = [read_index EXCEPT ![claimed] = 0]
    BY <1>8 DEF Open, Close, Clear
  <2>3. Heard
    BY <1>0, <1>8, <2>1 DEF Open, Close
  <2>4. Visible
    BY <1>0, <1>c, <2>2
  <2> QED BY <1>0, <2>2, <2>3, <2>4
<1>9. ASSUME NEW slot \in Slots,
             Attach(slot) \/ Detach(slot) \/ Push(slot) \/ PumpStep(slot)
      PROVE  UNCHANGED <<sharedByAudio, audioVars>>
  BY <1>9 DEF Attach, Detach, Push, PumpStep, TakeFrames, Enqueue, StopDraining, Decide, PumpTo
<1>10. ASSUME AwaitReader \/ UNCHANGED busVars
       PROVE  UNCHANGED <<sharedByAudio, audioVars>>
  BY <1>10 DEF AwaitReader, Claimed, busVars
<1> QED
  BY <1>0, <1>1, <1>2, <1>3, <1>4, <1>5, <1>6, <1>7, <1>8, <1>9, <1>10
  DEF BusNext, ControlStep, AudioStep

LEMMA BusTypesKept == BusTypes /\ Attachments /\ [BusNext]_busVars => BusTypes'
<1> SUFFICES ASSUME BusTypes, Attachments, [BusNext]_busVars PROVE BusTypes'
  OBVIOUS
<1> DEFINE Ranges ==
      /\ state \in [Slots -> {"Idle", "Claiming", "Active"}]
      /\ generation \in [Slots -> 0 .. MaxGeneration]
      /\ next_generation \in 1 .. MaxGeneration + 1
      /\ control \in {"free", "attaching", "detaching", "opening", "closing"}
      /\ claimed \in Slots /\ overtaken \in [Slots -> BOOLEAN]
      /\ pump \in [Slots -> {"none", "idle", "draining", "deciding", "flushing"}]
      /\ source \in [Slots -> 0 .. MaxBlockFrames]
<1>0. Ranges /\ {MaxGeneration, MaxBlockFrames} \subseteq Nat
  BY Bounds, Dimensions DEF BusTypes, BusTypeOK
<1> USE DEF slotVars, controlVars, pumpVars
<1>1. ASSUME NEW slot \in Slots, Attach(slot) PROVE Ranges'
  BY <1>0, <1>1 DEF Attach
<1>2. ASSUME NEW slot \in Slots, Detach(slot) PROVE Ranges'
  BY <1>0, <1>2 DEF Detach
<1>3. ASSUME NEW slot \in Slots, Push(slot) PROVE Ranges'
  BY <1>0, <1>3 DEF Push, PumpTo
<1>4. ASSUME NEW slot \in Slots, TakeFrames(slot) \/ Enqueue(slot) \/ StopDraining(slot)
      PROVE  Ranges'
  BY <1>0, <1>4 DEF TakeFrames, Enqueue, StopDraining, PumpTo
<1>5. ASSUME NEW slot \in Slots, Decide(slot) PROVE Ranges'
  BY <1>0, <1>5 DEF Decide
<1>6. ASSUME AwaitReader PROVE Ranges'
  <2>1. Unseen(claimed) \in BOOLEAN
    BY DEF Unseen
  <2> QED BY <1>0, <1>6, <2>1 DEF AwaitReader, Claimed
<1>7. ASSUME Open PROVE Ranges'
  <2>1. next_generation \in 1 .. MaxGeneration
    BY <1>0, <1>7 DEF Open, Attachments
  <2> QED BY <1>0, <1>7, <2>1 DEF Open
<1>8. ASSUME Close PROVE Ranges'
  BY <1>0, <1>8 DEF Close
<1>9. ASSUME AudioStep \/ Commit \/ UNCHANGED busVars
      PROVE  UNCHANGED <<slotVars, controlVars, pumpVars>>
  BY <1>9 DEF AudioStep, Visit, Announce, Recheck, FindBlock, Mix, Leave, AudioTo, NextSlot,
    Commit, busVars
<1>10. Ranges'
  BY <1>0, <1>1, <1>2, <1>3, <1>4, <1>5, <1>6, <1>7, <1>8, <1>9
  DEF BusNext, PumpStep, ControlStep
<1>11. BusTypeOK'
  BY <1>10, RingTypesKept, AudioTypesKept DEF BusTypeOK
<1> QED BY <1>10, <1>11, RingTypesKept, AudioTypesKept DEF BusTypes

LEMMA ShortSequences ==
  ASSUME NEW a, NEW b
  PROVE  /\ Append(<<>>, a) = <<a>> /\ Append(<<a>>, b) = <<a, b>>
         /\ Head(<<a>>) = a /\ Tail(<<a>>) = <<>>
         /\ Head(<<a, b>>) = a /\ Tail(<<a, b>>) = <<b>>
         /\ <<a>> # <<>> /\ <<a, b>> # <<>> /\ <<a>>[1] = a /\ <<a, b>>[1] = a
         /\ Len(<<>>) = 0
<1> DEFINE S == {a, b}
<1>1. /\ <<>> \in Seq(S) /\ <<a>> \in Seq(S) /\ <<b>> \in Seq(S) /\ <<a, b>> \in Seq(S)
      /\ a \in S /\ b \in S
  OBVIOUS
<1>2. /\ Len(<<>>) = 0 /\ Len(<<a>>) = 1 /\ Len(<<b>>) = 1 /\ Len(<<a, b>>) = 2
      /\ <<a>>[1] = a /\ <<b>>[1] = b /\ <<a, b>>[1] = a /\ <<a, b>>[2] = b
  OBVIOUS
<1>3. <<a>> # <<>> /\ <<a, b>> # <<>>
  BY <1>2
<1>4. Head(<<a>>) = a /\ Head(<<a, b>>) = a
  OBVIOUS
<1> HIDE DEF S
<1>5. Append(<<>>, a) = <<a>>
  BY <1>1, <1>2, AppendProperties, SeqEqual
<1>6. Append(<<a>>, b) = <<a, b>>
  <2>1. Append(<<a>>, b) \in Seq(S) /\ Len(Append(<<a>>, b)) = 2
    BY <1>1, <1>2, AppendProperties
  <2>2. Append(<<a>>, b)[1] = a /\ Append(<<a>>, b)[2] = b
    BY <1>1, <1>2, AppendProperties
  <2>3. \A i \in 1 .. 2 : Append(<<a>>, b)[i] = <<a, b>>[i]
    BY <1>2, <2>2
  <2> QED BY <1>1, <1>2, <2>1, <2>3, SeqEqual
<1>7. Tail(<<a>>) = <<>>
  <2>1. Tail(<<a>>) \in Seq(S) /\ Len(Tail(<<a>>)) = 0
    BY <1>1, <1>2, <1>3, HeadTailProperties
  <2> QED BY <1>1, <1>2, <2>1, SeqEqual
<1>8. Tail(<<a, b>>) = <<b>>
  <2>1. /\ Tail(<<a, b>>) \in Seq(S) /\ Len(Tail(<<a, b>>)) = 1
        /\ Tail(<<a, b>>)[1] = b
    BY <1>1, <1>2, <1>3, HeadTailProperties
  <2>2. \A i \in 1 .. 1 : Tail(<<a, b>>)[i] = <<b>>[i]
    BY <1>2, <2>1
  <2> QED BY <1>1, <1>2, <2>1, <2>2, SeqEqual
<1> QED BY <1>2, <1>3, <1>4, <1>5, <1>6, <1>7, <1>8

\* A store that the audio thread makes goes behind those that wait.
LEMMA Stored ==
  ASSUME BusTypes, NEW field, NEW value, Store(field, value)
  PROVE  /\ Len(stores) \in Nat /\ Len(stores') = Len(stores) + 1
         /\ \A i \in 1 .. Len(stores) : stores'[i] = stores[i]
         /\ stores'[Len(stores) + 1] = [slot |-> visited, field |-> field, value |-> value]
<1>1. stores \in Seq(StoreSet)
  BY DEF BusTypes
<1> DEFINE store == [slot |-> visited, field |-> field, value |-> value]
           Any == StoreSet \cup {store}
<1>2. stores \in Seq(Any) /\ store \in Any /\ Len(stores) \in Nat
  BY <1>1, SeqMonotonic, LenProperties
<1>3. stores' = Append(stores, store)
  BY DEF Store
<1> HIDE DEF store, Any
<1>4. /\ Len(stores') = Len(stores) + 1 /\ stores'[Len(stores) + 1] = store
      /\ \A i \in 1 .. Len(stores) : stores'[i] = stores[i]
  BY <1>2, <1>3, AppendProperties
<1> QED BY <1>2, <1>4 DEF store

\* The announcement of a store before which nothing has changed.
LEMMA AnnouncedBefore ==
  ASSUME NEW slot \in Slots, NEW i \in Nat,
         \A j \in 1 .. i : stores'[j] = stores[j], consumer_reading' = consumer_reading,
         AnnouncedAt(slot, i)
  PROVE  AnnouncedAt(slot, i)'
<1>1. \A j \in 1 .. i : /\ Opens(j, slot) => Opens(j, slot)'
                        /\ ~Ends(j, slot) => ~Ends(j, slot)'
  BY DEF Opens, Ends
<1>2. CASE \E j \in 1 .. i : Opens(j, slot) /\ \A k \in j + 1 .. i : ~Ends(k, slot)
  <2>1. PICK j \in 1 .. i : Opens(j, slot) /\ \A k \in j + 1 .. i : ~Ends(k, slot)
    BY <1>2
  <2>2. \A k \in j + 1 .. i : k \in 1 .. i
    OBVIOUS
  <2>3. Opens(j, slot)' /\ \A k \in j + 1 .. i : ~Ends(k, slot)'
    BY <1>1, <2>1, <2>2
  <2> QED BY <2>3 DEF AnnouncedAt
<1>3. CASE consumer_reading[slot] /\ \A k \in 1 .. i : ~Ends(k, slot)
  <2>1. consumer_reading'[slot] /\ \A k \in 1 .. i : ~Ends(k, slot)'
    BY <1>1, <1>3
  <2> QED BY <2>1 DEF AnnouncedAt
<1> QED BY <1>2, <1>3 DEF AnnouncedAt

\* The first store becomes visible and the others move up.
LEMMA Committed ==
  ASSUME BusTypes, Commit
  PROVE  /\ Len(stores) \in Nat \ {0} /\ Len(stores') = Len(stores) - 1
         /\ \A i \in 1 .. Len(stores) - 1 : stores'[i] = stores[i + 1]
         /\ stores[1] \in StoreSet
         /\ stores[1].field = "read_index" =>
              /\ read_index' = [read_index EXCEPT ![stores[1].slot] = stores[1].value]
              /\ consumer_reading' = consumer_reading
         /\ stores[1].field = "consumer_reading" =>
              /\ consumer_reading' = [consumer_reading EXCEPT ![stores[1].slot] = stores[1].value]
              /\ read_index' = read_index
<1>1. /\ stores \in Seq(StoreSet) /\ stores # <<>> /\ stores' = Tail(stores)
      /\ Len(stores) \in Nat
  BY LenProperties DEF BusTypes, Commit
<1>2. /\ Len(stores) \in Nat \ {0} /\ Head(stores) = stores[1] /\ stores[1] \in StoreSet
      /\ Len(stores') = Len(stores) - 1
      /\ \A i \in 1 .. Len(stores) - 1 : stores'[i] = stores[i + 1]
  BY <1>1, HeadTailProperties, EmptySeq
<1>3. /\ stores[1].field = "read_index" =>
           /\ read_index' = [read_index EXCEPT ![stores[1].slot] = stores[1].value]
           /\ consumer_reading' = consumer_reading
      /\ stores[1].field = "consumer_reading" =>
           /\ consumer_reading' = [consumer_reading EXCEPT ![stores[1].slot] = stores[1].value]
           /\ read_index' = read_index
  BY <1>2 DEF Commit
<1> QED BY <1>2, <1>3

LEMMA CommitKeepsAnnounced ==
  ASSUME BusTypes, Commit, NEW slot \in Slots, NEW i \in 0 .. Len(stores) - 1,
         AnnouncedAt(slot, i + 1)
  PROVE  AnnouncedAt(slot, i)'
<1>0. /\ Len(stores) \in Nat \ {0} /\ Len(stores') = Len(stores) - 1
      /\ \A k \in 1 .. Len(stores) - 1 : stores'[k] = stores[k + 1]
      /\ i \in Nat /\ i <= Len(stores) - 1
      /\ consumer_reading \in [Slots -> BOOLEAN]
      /\ stores[1] \in StoreSet
      /\ stores[1].field = "read_index" => consumer_reading' = consumer_reading
      /\ stores[1].field = "consumer_reading" =>
           consumer_reading' = [consumer_reading EXCEPT ![stores[1].slot] = stores[1].value]
  <2>1. /\ Len(stores) \in Nat \ {0} /\ Len(stores') = Len(stores) - 1
        /\ \A k \in 1 .. Len(stores) - 1 : stores'[k] = stores[k + 1]
        /\ stores[1] \in StoreSet
        /\ stores[1].field = "read_index" => consumer_reading' = consumer_reading
        /\ stores[1].field = "consumer_reading" =>
             consumer_reading' = [consumer_reading EXCEPT ![stores[1].slot] = stores[1].value]
    BY Committed
  <2>2. consumer_reading \in [Slots -> BOOLEAN]
    BY DEF BusTypes, BusTypeOK
  <2>3. i \in Nat /\ i <= Len(stores) - 1
    BY <2>1
  <2> QED BY <2>1, <2>2, <2>3
<1>1. \A k \in 1 .. i : /\ Opens(k, slot)' <=> Opens(k + 1, slot)
                        /\ Ends(k, slot)' <=> Ends(k + 1, slot)
  <2>1. \A k \in 1 .. i : stores'[k] = stores[k + 1]
    BY <1>0
  <2> QED BY <2>1 DEF Opens, Ends
<1>2. ASSUME consumer_reading'[slot], \A k \in 2 .. i + 1 : ~Ends(k, slot)
      PROVE  AnnouncedAt(slot, i)'
  <2>1. \A k \in 1 .. i : k + 1 \in 2 .. i + 1
    BY <1>0
  <2>2. \A k \in 1 .. i : ~Ends(k, slot)'
    BY <1>1, <1>2, <2>1
  <2> QED BY <1>2, <2>2 DEF AnnouncedAt
<1>3. CASE \E j \in 1 .. i + 1 : Opens(j, slot) /\ \A k \in j + 1 .. i + 1 : ~Ends(k, slot)
  <2>1. PICK j \in 1 .. i + 1 : Opens(j, slot) /\ \A k \in j + 1 .. i + 1 : ~Ends(k, slot)
    BY <1>3
  <2>2. CASE j = 1
    <3>1. consumer_reading' = [consumer_reading EXCEPT ![slot] = TRUE]
      <4>1. stores[1].slot = slot /\ stores[1].field = "consumer_reading" /\ stores[1].value
        BY <2>1, <2>2 DEF Opens
      <4>2. stores[1].value = TRUE
        BY <1>0, <4>1 DEF StoreSet
      <4> QED BY <1>0, <4>1, <4>2
    <3>2. consumer_reading'[slot]
      BY <1>0, <3>1
    <3> QED BY <1>2, <2>1, <2>2, <3>2
  <2>3. CASE j # 1
    <3>1. j - 1 \in 1 .. i /\ (j - 1) + 1 = j
      BY <1>0, <2>3
    <3>2. \A k \in (j - 1) + 1 .. i : k \in 1 .. i /\ k + 1 \in j + 1 .. i + 1
      BY <1>0, <3>1
    <3>3. Opens(j - 1, slot)' /\ \A k \in (j - 1) + 1 .. i : ~Ends(k, slot)'
      BY <1>1, <2>1, <3>1, <3>2
    <3> QED BY <3>1, <3>3 DEF AnnouncedAt
  <2> QED BY <2>2, <2>3
<1>4. CASE consumer_reading[slot] /\ \A k \in 1 .. i + 1 : ~Ends(k, slot)
  <2>1. 1 \in 1 .. i + 1 /\ \A k \in 2 .. i + 1 : k \in 1 .. i + 1
    BY <1>0
  <2>2. ~Ends(1, slot) /\ \A k \in 2 .. i + 1 : ~Ends(k, slot)
    BY <1>4, <2>1
  <2>3. consumer_reading'[slot]
    <3>1. CASE stores[1].field = "read_index"
      BY <1>0, <1>4, <3>1
    <3>2. CASE stores[1].field = "consumer_reading" /\ stores[1].slot # slot
      BY <1>0, <1>4, <3>2
    <3>3. CASE stores[1].field = "consumer_reading" /\ stores[1].slot = slot
      <4>1. stores[1].value = TRUE
        BY <1>0, <2>2, <3>3 DEF Ends, StoreSet
      <4> QED BY <1>0, <3>3, <4>1
    <3> QED BY <1>0, <3>1, <3>2, <3>3 DEF StoreSet
  <2> QED BY <1>2, <2>2, <2>3
<1> QED BY <1>3, <1>4 DEF AnnouncedAt

LEMMA AnnouncedThen ==
  ASSUME NEW slot, NEW i \in Nat, AnnouncedAt(slot, i)', ~Ends(i + 1, slot)'
  PROVE  AnnouncedAt(slot, i + 1)'
<1>1. \A k \in 1 .. i + 1 : k \in 1 .. i \/ k = i + 1
  OBVIOUS
<1>2. CASE \E j \in 1 .. i : Opens(j, slot)' /\ \A k \in j + 1 .. i : ~Ends(k, slot)'
  <2>1. PICK j \in 1 .. i : Opens(j, slot)' /\ \A k \in j + 1 .. i : ~Ends(k, slot)'
    BY <1>2
  <2>2. j \in 1 .. i + 1 /\ \A k \in j + 1 .. i + 1 : k \in j + 1 .. i \/ k = i + 1
    OBVIOUS
  <2>3. \A k \in j + 1 .. i + 1 : ~Ends(k, slot)'
    BY <2>1, <2>2
  <2> QED BY <2>1, <2>2, <2>3 DEF AnnouncedAt
<1>3. CASE consumer_reading'[slot] /\ \A k \in 1 .. i : ~Ends(k, slot)'
  <2>1. \A k \in 1 .. i + 1 : ~Ends(k, slot)'
    BY <1>1, <1>3
  <2> QED BY <1>3, <2>1 DEF AnnouncedAt
<1> QED BY <1>2, <1>3 DEF AnnouncedAt

LEMMA AnnouncedIs ==
  ASSUME NEW slot, NEW i, AnnouncedAt(slot, i)', visited' = slot, Len(stores') = i
  PROVE  AnnouncedAt(visited, Len(stores))'
BY DEF AnnouncedAt, Opens, Ends

LEMMA CoveredKept == BusTypes /\ Covered /\ [BusNext]_busVars => Covered'
<1> SUFFICES ASSUME BusTypes, Covered, [BusNext]_busVars PROVE Covered'
  OBVIOUS
<1>0. visited \in Slots /\ Len(stores) \in Nat /\ stores \in Seq(StoreSet)
  BY LenProperties DEF BusTypes, BusTypeOK
<1>a. ASSUME NEW slot \in Slots, NEW i \in IndexStores(slot) PROVE AnnouncedAt(slot, i)
  BY <1>a DEF Covered
\* A store is made.
<1>1. ASSUME NEW field, NEW value, Store(field, value), UNCHANGED consumer_reading,
             /\ field = "read_index" => AnnouncedAt(visited, Len(stores))
             /\ audio' \in {"rechecking", "reading", "mixing", "leaving"} =>
                  /\ visited' = visited
                  /\ \/ field = "read_index"
                     \/ field = "consumer_reading" /\ value = TRUE
      PROVE  Covered'
  <2>1. PICK n \in Nat, at \in Slots : n = Len(stores) /\ at = visited
    BY <1>0
  <2>2. /\ Len(stores') = n + 1
        /\ \A i \in 1 .. n : stores'[i] = stores[i]
        /\ stores'[n + 1] = [slot |-> at, field |-> field, value |-> value]
    BY <1>1, <2>1, Stored
  <2>3. ASSUME NEW slot \in Slots, NEW i \in 0 .. n, AnnouncedAt(slot, i)
        PROVE  AnnouncedAt(slot, i)'
    <3>1. i \in Nat /\ \A j \in 1 .. i : stores'[j] = stores[j]
      BY <2>2
    <3> QED BY <1>1, <2>3, <3>1, AnnouncedBefore
  <2>4. field = "read_index" => AnnouncedAt(at, n + 1)'
    <3> SUFFICES ASSUME field = "read_index" PROVE AnnouncedAt(at, n + 1)'
      OBVIOUS
    <3>1. AnnouncedAt(at, n)'
      BY <1>1, <2>1, <2>3
    <3>2. ~Ends(n + 1, at)'
      BY <2>2 DEF Ends
    <3> QED BY <3>1, <3>2, AnnouncedThen
  <2>5. field = "consumer_reading" /\ value = TRUE => AnnouncedAt(at, n + 1)'
    <3> SUFFICES ASSUME field = "consumer_reading", value = TRUE PROVE AnnouncedAt(at, n + 1)'
      OBVIOUS
    <3>1. Opens(n + 1, at)'
      BY <2>2 DEF Opens
    <3>2. n + 1 \in 1 .. n + 1 /\ \A k \in (n + 1) + 1 .. n + 1 : FALSE
      BY <2>1
    <3> QED BY <3>1, <3>2 DEF AnnouncedAt
  <2>6. ASSUME NEW slot \in Slots, NEW i \in IndexStores(slot)' PROVE AnnouncedAt(slot, i)'
    <3>1. i \in 1 .. n + 1 /\ stores'[i].slot = slot /\ stores'[i].field = "read_index"
      BY <2>2, <2>6 DEF IndexStores
    <3>2. CASE i = n + 1
      BY <2>2, <2>4, <3>1, <3>2
    <3>3. CASE i # n + 1
      <4>1. i \in 1 .. n /\ i \in 0 .. n
        BY <2>1, <3>1, <3>3
      <4>2. i \in IndexStores(slot)
        BY <2>1, <2>2, <3>1, <4>1 DEF IndexStores
      <4> QED BY <1>a, <2>3, <4>1, <4>2
    <3> QED BY <3>2, <3>3
  <2>7. audio' \in {"rechecking", "reading", "mixing", "leaving"} => AnnouncedAt(visited, Len(stores))'
    <3> SUFFICES ASSUME audio' \in {"rechecking", "reading", "mixing", "leaving"}
                 PROVE  AnnouncedAt(visited, Len(stores))'
      OBVIOUS
    <3>1. visited' = at /\ Len(stores') = n + 1
      BY <1>1, <2>1, <2>2
    <3>2. AnnouncedAt(at, n + 1)'
      BY <1>1, <2>4, <2>5
    <3> QED BY <3>1, <3>2, AnnouncedIs
  <2> QED BY <2>6, <2>7 DEF Covered
\* No store is made.
<1>2. ASSUME UNCHANGED <<stores, consumer_reading>>,
             audio' \in {"rechecking", "reading", "mixing", "leaving"} =>
               visited' = visited /\ audio \in {"rechecking", "reading", "mixing", "leaving"}
      PROVE  Covered'
  <2>1. \A slot, i : AnnouncedAt(slot, i)' <=> AnnouncedAt(slot, i)
    BY <1>2 DEF AnnouncedAt, Opens, Ends
  <2>2. \A slot : IndexStores(slot)' = IndexStores(slot)
    BY <1>2 DEF IndexStores
  <2>3. audio' \in {"rechecking", "reading", "mixing", "leaving"} =>
          AnnouncedAt(visited, Len(stores))'
    <3>1. PICK at, n : at = visited /\ n = Len(stores)
      OBVIOUS
    <3> SUFFICES ASSUME audio' \in {"rechecking", "reading", "mixing", "leaving"}
                 PROVE  AnnouncedAt(visited, Len(stores))'
      OBVIOUS
    <3>2. visited' = at /\ Len(stores') = n /\ AnnouncedAt(at, n)
      BY <1>2, <3>1 DEF Covered
    <3>3. AnnouncedAt(at, n)'
      BY <2>1, <3>2
    <3> QED BY <3>2, <3>3, AnnouncedIs
  <2> QED BY <2>1, <2>2, <2>3 DEF Covered
<1>3. CASE AudioStep
  <2>0. UNCHANGED consumer_reading
    BY <1>3 DEF AudioStep, Visit, Announce, Recheck, FindBlock, Mix, Leave, AudioTo, NextSlot,
      sharedByAudio
  <2>1. CASE Visit
    BY <1>2, <2>0, <2>1 DEF Visit, AudioTo, NextSlot
  <2>2. CASE Announce
    BY <1>1, <2>0, <2>2 DEF Announce, AudioTo
  <2>3. CASE Recheck
    BY <1>1, <1>2, <2>0, <2>3 DEF Recheck, AudioTo, NextSlot
  <2>4. CASE FindBlock
    BY <1>2, <2>0, <2>4 DEF FindBlock, AudioTo
  <2>5. CASE Mix
    <3>1. AnnouncedAt(visited, Len(stores))
      BY <2>5 DEF Mix, Covered
    <3> QED BY <1>1, <2>0, <2>5, <3>1 DEF Mix, AudioTo
  <2>6. CASE Leave
    BY <1>1, <2>0, <2>6 DEF Leave, NextSlot
  <2> QED BY <1>3, <2>1, <2>2, <2>3, <2>4, <2>5, <2>6 DEF AudioStep
<1>4. CASE Commit
  <2>1. /\ Len(stores) \in Nat \ {0} /\ Len(stores') = Len(stores) - 1
        /\ \A i \in 1 .. Len(stores) - 1 : stores'[i] = stores[i + 1]
        /\ audio' = audio /\ visited' = visited
    BY <1>4, Committed DEF Commit
  <2>2. ASSUME NEW slot \in Slots, NEW i \in IndexStores(slot)' PROVE AnnouncedAt(slot, i)'
    <3>1. i \in 1 .. Len(stores) - 1 /\ i + 1 \in 1 .. Len(stores) /\ i \in 0 .. Len(stores) - 1
      BY <2>1, <2>2 DEF IndexStores
    <3>2. i + 1 \in IndexStores(slot)
      BY <2>1, <2>2, <3>1 DEF IndexStores
    <3> QED BY <1>4, <1>a, <3>1, <3>2, CommitKeepsAnnounced
  <2>4. ASSUME audio' \in {"rechecking", "reading", "mixing", "leaving"}
        PROVE  AnnouncedAt(visited, Len(stores))'
    <3>1. PICK at \in Slots, n \in 0 .. Len(stores) - 1 : at = visited /\ n = Len(stores')
      BY <1>0, <2>1
    <3>2. n + 1 = Len(stores)
      BY <2>1, <3>1
    <3>3. AnnouncedAt(at, n + 1)
      BY <2>1, <2>4, <3>1, <3>2 DEF Covered
    <3>4. AnnouncedAt(at, n)'
      BY <1>4, <3>3, CommitKeepsAnnounced
    <3> QED BY <2>1, <3>1, <3>4, AnnouncedIs
  <2> QED BY <2>2, <2>4 DEF Covered
<1>5. ASSUME \/ \E slot \in Slots : Attach(slot) \/ Detach(slot) \/ Push(slot) \/ PumpStep(slot)
             \/ ControlStep \/ UNCHANGED busVars
      PROVE  UNCHANGED <<consumer_reading, audio, visited, stores>>
  BY <1>5 DEF Attach, Detach, Push, PumpStep, TakeFrames, Enqueue, StopDraining, Decide, PumpTo,
    ControlStep, AwaitReader, Claimed, Open, Close, busVars, sharedByAudio, audioVars
<1>6. CASE UNCHANGED <<consumer_reading, audio, visited, stores>>
  BY <1>2, <1>6
<1> QED BY <1>3, <1>4, <1>5, <1>6 DEF BusNext

\* What is used without being visibly announced has an announcement that waits.
LEMMA UnseenUse ==
  ASSUME BusTypes, Covered, NEW slot \in Slots, Uses(slot), ~consumer_reading[slot]
  PROVE  Unseen(slot)
<1>1. Len(stores) \in Nat
  BY LenProperties DEF BusTypes
<1>2. PICK i \in 0 .. Len(stores) : AnnouncedAt(slot, i)
  <2>1. CASE visited = slot /\ audio \in {"reading", "mixing"}
    BY <1>1, <2>1 DEF Covered
  <2>2. CASE IndexStores(slot) # {}
    <3>1. PICK i \in IndexStores(slot) : AnnouncedAt(slot, i)
      BY <2>2 DEF Covered
    <3> QED BY <1>1, <3>1 DEF IndexStores
  <2> QED BY <2>1, <2>2 DEF Uses
<1>3. PICK j \in 1 .. i : Opens(j, slot)
  BY <1>2 DEF AnnouncedAt
<1>4. j \in 1 .. Len(stores)
  BY <1>1, <1>2, <1>3
<1> QED BY <1>3, <1>4 DEF Unseen, Opens

\* Nobody uses the slot that is being cleared, unless an announcement was missed.
LEMMA ClearedIsUnused ==
  ASSUME BusTypes, Attachments, Handshake, control \in {"attaching", "opening", "closing"},
         ~overtaken[claimed]
  PROVE  ~Live(claimed) /\ ~Uses(claimed)
  BY DEF BusTypes, BusTypeOK, Attachments, Handshake, Live

\* Which slots are used changes only with a step of the audio thread.
LEMMA UsesStay ==
  ASSUME UNCHANGED <<audio, visited, stores>>, NEW slot
  PROVE  /\ Uses(slot)' <=> Uses(slot)
         /\ IndexStores(slot)' = IndexStores(slot)
  BY DEF Uses, IndexStores

\* An index that waits has been stored, or waits already.
LEMMA IndexStored ==
  ASSUME BusTypes, NEW field, NEW value, Store(field, value), NEW slot \in Slots
  PROVE  /\ slot = visited /\ field = "read_index" =>
              IndexStores(slot)' = IndexStores(slot) \cup {Len(stores) + 1}
         /\ slot # visited \/ field # "read_index" => IndexStores(slot)' = IndexStores(slot)
<1> DEFINE n == Len(stores)
<1>1. /\ n \in Nat /\ Len(stores') = n + 1
      /\ \A i \in 1 .. n : stores'[i] = stores[i]
      /\ stores'[n + 1] = [slot |-> visited, field |-> field, value |-> value]
  BY Stored
<1>2. 1 .. n + 1 = (1 .. n) \cup {n + 1} /\ n + 1 \notin 1 .. n
  BY <1>1
<1>3. IndexStores(slot)'
        = {i \in 1 .. n + 1 : stores'[i].slot = slot /\ stores'[i].field = "read_index"}
  BY <1>1 DEF IndexStores
<1>4. IndexStores(slot) = {i \in 1 .. n : stores[i].slot = slot /\ stores[i].field = "read_index"}
  BY DEF IndexStores
<1> HIDE DEF n
<1>5. n + 1 \in IndexStores(slot)' <=> slot = visited /\ field = "read_index"
  BY <1>1, <1>2, <1>3
<1>6. \A i \in 1 .. n : i \in IndexStores(slot)' <=> i \in IndexStores(slot)
  BY <1>1, <1>2, <1>3, <1>4
<1>7. IndexStores(slot) \subseteq 1 .. n /\ IndexStores(slot)' \subseteq 1 .. n + 1
  BY <1>3, <1>4
<1>8. /\ slot = visited /\ field = "read_index" =>
           IndexStores(slot)' = IndexStores(slot) \cup {n + 1}
      /\ slot # visited \/ field # "read_index" => IndexStores(slot)' = IndexStores(slot)
  BY <1>2, <1>5, <1>6, <1>7
<1> QED BY <1>8 DEF n

LEMMA MarkStored ==
  ASSUME BusTypes, NEW value, Store("consumer_reading", value), NEW slot \in Slots
  PROVE  IndexStores(slot)' = IndexStores(slot)
<1>1. "consumer_reading" # "read_index"
  OBVIOUS
<1> QED BY <1>1, IndexStored

\* What is visible waits no more.
LEMMA IndexCommitted ==
  ASSUME BusTypes, Commit, NEW slot \in Slots, NEW i
  PROVE  /\ i \in IndexStores(slot)' <=> i \in Nat \ {0} /\ i + 1 \in IndexStores(slot)
         /\ i \in IndexStores(slot)' => stores'[i] = stores[i + 1]
<1> DEFINE n == Len(stores)
<1>1. /\ n \in Nat \ {0} /\ Len(stores') = n - 1
      /\ \A k \in 1 .. n - 1 : stores'[k] = stores[k + 1]
  BY Committed
<1>2. IndexStores(slot)'
        = {k \in 1 .. n - 1 : stores'[k].slot = slot /\ stores'[k].field = "read_index"}
  BY <1>1 DEF IndexStores
<1>3. IndexStores(slot) = {k \in 1 .. n : stores[k].slot = slot /\ stores[k].field = "read_index"}
  BY DEF IndexStores
<1> HIDE DEF n
<1>4. i \in 1 .. n - 1 => i \in Nat \ {0} /\ i + 1 \in 1 .. n
  BY <1>1
<1>5. i \in Nat \ {0} /\ i + 1 \in 1 .. n => i \in 1 .. n - 1
  BY <1>1
<1> QED BY <1>1, <1>2, <1>3, <1>4, <1>5

LEMMA HandshakeKept ==
  BusTypes /\ Attachments /\ Covered /\ Handshake /\ [BusNext]_busVars => Handshake'
<1> SUFFICES ASSUME BusTypes, Attachments, Covered, Handshake, [BusNext]_busVars,
                    NEW slot \in Slots, Uses(slot)', ~overtaken'[slot]
             PROVE  Live(slot)'
  BY DEF Handshake
<1>0. /\ visited \in Slots /\ claimed \in Slots /\ state \in [Slots -> {"Idle", "Claiming", "Active"}]
      /\ overtaken \in [Slots -> BOOLEAN]
  BY DEF BusTypes, BusTypeOK
<1>a. Uses(slot) /\ ~overtaken[slot] => Live(slot)
  BY DEF Handshake
<1> USE DEF slotVars, controlVars, sharedByAudio, audioVars
<1>1. CASE AudioStep
  <2>0. UNCHANGED <<state, control, claimed, overtaken>>
    BY <1>1 DEF AudioStep, Visit, Announce, Recheck, FindBlock, Mix, Leave, AudioTo, NextSlot
  <2>a. Uses(slot) => Live(slot)'
    BY <1>a, <2>0 DEF Live
  <2>b. UNCHANGED stores => IndexStores(slot)' = IndexStores(slot)
    BY DEF IndexStores
  <2>1. CASE Visit
    BY <2>1, <2>a, <2>b DEF Visit, AudioTo, NextSlot, Uses
  <2>2. CASE Announce
    <3>1. IndexStores(slot)' = IndexStores(slot)
      BY <2>2, MarkStored DEF Announce
    <3> QED BY <2>2, <2>a, <3>1 DEF Announce, AudioTo, Uses
  <2>3. CASE Recheck /\ state[visited] = "Active" /\ AudioTo("reading") /\ UNCHANGED stores
    <3>1. CASE slot = visited
      BY <2>0, <2>3, <3>1 DEF Live
    <3>2. CASE slot # visited
      BY <2>3, <2>a, <2>b, <3>2 DEF AudioTo, Uses
    <3> QED BY <3>1, <3>2
  <2>4. CASE Recheck /\ NextSlot /\ Store("consumer_reading", FALSE)
    <3>1. IndexStores(slot)' = IndexStores(slot)
      BY <2>4, MarkStored
    <3> QED BY <2>4, <2>a, <3>1 DEF NextSlot, Uses
  <2>5. CASE FindBlock
    BY <2>5, <2>a, <2>b DEF FindBlock, AudioTo, Uses
  <2>6. CASE Mix
    <3>1. slot # visited => IndexStores(slot)' = IndexStores(slot)
      BY <2>6, IndexStored DEF Mix
    <3> QED BY <2>6, <2>a, <3>1 DEF Mix, AudioTo, Uses
  <2>7. CASE Leave
    <3>1. IndexStores(slot)' = IndexStores(slot)
      BY <2>7, MarkStored DEF Leave
    <3> QED BY <2>7, <2>a, <3>1 DEF Leave, NextSlot, Uses
  <2> QED BY <1>1, <2>1, <2>2, <2>3, <2>4, <2>5, <2>6, <2>7 DEF AudioStep, Recheck
<1>2. CASE Commit
  <2>1. UNCHANGED <<audio, visited, state, control, claimed, overtaken>>
    BY <1>2 DEF Commit
  <2>2. IndexStores(slot)' # {} => IndexStores(slot) # {}
    BY <1>2, IndexCommitted
  <2>3. Uses(slot)
    BY <2>1, <2>2 DEF Uses
  <2> QED BY <1>a, <2>1, <2>3 DEF Live
<1>3. CASE Attach(slot) \/ Detach(slot) \/ Push(slot) \/ PumpStep(slot)
  <2>1. UNCHANGED <<audio, visited, stores, overtaken>>
    BY <1>3 DEF Attach, Detach, Push, PumpStep, TakeFrames, Enqueue, StopDraining, Decide, PumpTo
  <2>2. Live(slot)
    BY <1>a, <2>1, UsesStay
  <2>3. CASE Attach(slot)
    BY <2>2, <2>3 DEF Attach, Live
  <2>4. CASE Detach(slot)
    BY <1>0, <2>4 DEF Detach, Live
  <2>5. CASE Push(slot) \/ PumpStep(slot)
    BY <2>2, <2>5 DEF Push, PumpStep, TakeFrames, Enqueue, StopDraining, Decide, PumpTo, Live
  <2> QED BY <1>3, <2>3, <2>4, <2>5
<1>4. ASSUME NEW other \in Slots, other # slot,
             Attach(other) \/ Detach(other) \/ Push(other) \/ PumpStep(other)
      PROVE  Live(slot)'
  <2>1. UNCHANGED <<audio, visited, stores, overtaken>>
    BY <1>4 DEF Attach, Detach, Push, PumpStep, TakeFrames, Enqueue, StopDraining, Decide, PumpTo
  <2>2. Live(slot)
    BY <1>a, <2>1, UsesStay
  <2>3. CASE Attach(other) \/ Detach(other)
    BY <1>0, <1>4, <2>2, <2>3 DEF Attach, Detach, Live
  <2>4. CASE Push(other) \/ PumpStep(other)
    BY <2>2, <2>4 DEF Push, PumpStep, TakeFrames, Enqueue, StopDraining, Decide, PumpTo, Live
  <2> QED BY <1>4, <2>3, <2>4
<1>5. CASE AwaitReader
  <2>1. /\ UNCHANGED <<audio, visited, stores, state, claimed>> /\ ~consumer_reading[claimed]
        /\ overtaken' = [overtaken EXCEPT ![claimed] = Unseen(claimed)]
    BY <1>5 DEF AwaitReader, Claimed
  <2>2. Uses(slot)
    BY <2>1, UsesStay
  <2>3. CASE slot = claimed
    <3>1. ~Unseen(claimed)
      BY <1>0, <2>1, <2>3
    <3> QED BY <1>0, <2>1, <2>2, <2>3, <3>1, UnseenUse
  <2>4. CASE slot # claimed
    <3>1. Live(slot)
      BY <1>0, <1>a, <2>1, <2>2, <2>4
    <3> QED BY <2>1, <2>4, <3>1 DEF Live
  <2> QED BY <2>3, <2>4
<1>6. CASE Open \/ Close
  <2>1. /\ UNCHANGED <<audio, visited, stores, claimed, overtaken>>
        /\ control \in {"opening", "closing"} /\ control' = "free"
        /\ \E value : state' = [state EXCEPT ![claimed] = value]
    BY <1>6 DEF Open, Close
  <2>2. Uses(slot) /\ ~overtaken[slot]
    BY <2>1, UsesStay
  <2>3. slot # claimed
    BY <2>1, <2>2, ClearedIsUnused
  <2>4. state[slot] = "Active" /\ state'[slot] = state[slot]
    BY <1>0, <1>a, <2>1, <2>2, <2>3 DEF Live
  <2> QED BY <2>4 DEF Live
<1>7. CASE UNCHANGED busVars
  <2>1. UNCHANGED <<audio, visited, stores, overtaken, state, control, claimed>>
    BY <1>7 DEF busVars
  <2>2. Live(slot)
    BY <1>a, <2>1, UsesStay
  <2> QED BY <2>1, <2>2 DEF Live
<1> QED BY <1>1, <1>2, <1>3, <1>4, <1>5, <1>6, <1>7 DEF BusNext, ControlStep

\* The audio thread's view of an index, from what waits and what is visible.
IndicesIn(waiting, slot) ==
  {i \in 1 .. Len(waiting) : waiting[i].slot = slot /\ waiting[i].field = "read_index"}

Loaded(waiting, slot, visible) ==
  IF IndicesIn(waiting, slot) = {} THEN visible
  ELSE waiting[CHOOSE i \in IndicesIn(waiting, slot) :
                 \A j \in IndicesIn(waiting, slot) : j <= i].value

LEMMA LoadedIsLast ==
  ASSUME NEW waiting, NEW slot, NEW visible, NEW i \in IndicesIn(waiting, slot),
         \A j \in IndicesIn(waiting, slot) : j <= i
  PROVE  Loaded(waiting, slot, visible) = waiting[i].value
<1> DEFINE S == IndicesIn(waiting, slot)
           last == CHOOSE k \in S : \A j \in S : j <= k
<1>1. last \in S /\ \A j \in S : j <= last
  OBVIOUS
<1>2. S \subseteq Int
  BY DEF IndicesIn
<1>3. last = i
  <2> HIDE DEF last, S
  <2>1. last <= i /\ i <= last /\ last \in Int /\ i \in Int
    BY <1>1, <1>2 DEF S
  <2> QED BY <2>1
<1>4. Loaded(waiting, slot, visible) = waiting[last].value
  BY DEF Loaded
<1> QED BY <1>3, <1>4

LEMMA LoadsAre ==
  ASSUME NEW slot
  PROVE  /\ IndexStores(slot) = IndicesIn(stores, slot)
         /\ IndexStores(slot)' = IndicesIn(stores', slot)
         /\ OwnReadIndex(slot) = Loaded(stores, slot, read_index[slot])
         /\ OwnReadIndex(slot)' = Loaded(stores', slot, read_index'[slot])
  BY DEF IndexStores, IndicesIn, OwnReadIndex, Loaded

LEMMA LoadedVisible ==
  ASSUME NEW waiting, NEW slot, NEW visible, IndicesIn(waiting, slot) = {}
  PROVE  Loaded(waiting, slot, visible) = visible
  BY DEF Loaded

\* Steps from place to place of a ring.
LEMMA AheadSteps ==
  ASSUME NEW index \in Indices, NEW to \in Indices
  PROVE  /\ Ahead(index, to) \in 0 .. QueueCapacity
         /\ Ahead(index, to) = 0 <=> index = to
         /\ index # to => Ahead(Increment(index), to) = Ahead(index, to) - 1
         /\ Increment(to) # index => Ahead(index, Increment(to)) = Ahead(index, to) + 1
         /\ Increment(to) = index <=> Ahead(index, to) = QueueCapacity
<1>1. /\ Increment(index) = IF index = QueueCapacity THEN 0 ELSE index + 1
      /\ Increment(to) = IF to = QueueCapacity THEN 0 ELSE to + 1
  BY NextIndex
<1>2. /\ QueueCapacity \in Nat \ {0} /\ index \in Int /\ to \in Int
      /\ 0 <= index /\ index <= QueueCapacity /\ 0 <= to /\ to <= QueueCapacity
  BY Dimensions DEF Indices
<1>3. /\ Ahead(index, to) \in 0 .. QueueCapacity
      /\ Ahead(index, to) = 0 <=> index = to
  BY <1>2 DEF Ahead
<1>4. index # to => Ahead(Increment(index), to) = Ahead(index, to) - 1
  BY <1>1, <1>2 DEF Ahead
<1>5. Increment(to) # index => Ahead(index, Increment(to)) = Ahead(index, to) + 1
  BY <1>1, <1>2 DEF Ahead
<1>6. Increment(to) = index <=> Ahead(index, to) = QueueCapacity
  BY <1>1, <1>2 DEF Ahead
<1> QED BY <1>3, <1>4, <1>5, <1>6

\* The place the audio thread reads at is nowhere behind the visible one.
LEMMA OwnIsNearest ==
  ASSUME BusTypes, NEW slot \in Slots, InOrder(slot)
  PROVE  /\ Ahead(OwnReadIndex(slot), write_index[slot]) \in Nat
         /\ Ahead(OwnReadIndex(slot), write_index[slot])
              <= Ahead(read_index[slot], write_index[slot])
         /\ \A i \in IndexStores(slot) :
              /\ stores[i].value \in Indices
              /\ Ahead(OwnReadIndex(slot), write_index[slot])
                   <= Ahead(stores[i].value, write_index[slot])
<1>1. read_index[slot] \in Indices /\ write_index[slot] \in Indices /\ QueueCapacity \in Nat
  BY Dimensions DEF BusTypes, BusTypeOK
<1>2. /\ OwnReadIndex(slot) \in Indices
      /\ \A i \in IndexStores(slot) : stores[i].value \in Indices
  BY OwnIndex
<1>3. Ahead(OwnReadIndex(slot), write_index[slot]) \in 0 .. QueueCapacity
  BY <1>1, <1>2, AheadSteps
<1>4. CASE IndexStores(slot) = {}
  <2>1. OwnReadIndex(slot) = read_index[slot]
    BY <1>4, OwnIndex
  <2> QED BY <1>1, <1>3, <1>4, <2>1
<1>5. CASE IndexStores(slot) # {}
  <2>1. PICK i \in IndexStores(slot) :
          (\A j \in IndexStores(slot) : j <= i) /\ OwnReadIndex(slot) = stores[i].value
    BY <1>5, OwnIndex
  <2> QED BY <1>1, <1>2, <1>3, <2>1 DEF InOrder
<1> QED BY <1>4, <1>5

\* The audio thread's view of a slot that no step of it concerns.
LEMMA IndexStays ==
  ASSUME BusTypes, NEW slot \in Slots,
         IndexStores(slot)' = IndexStores(slot),
         \A i \in IndexStores(slot) : stores'[i] = stores[i],
         read_index'[slot] = read_index[slot]
  PROVE  /\ OwnReadIndex(slot)' = OwnReadIndex(slot)
         /\ write_index'[slot] = write_index[slot] /\ InOrder(slot) => InOrder(slot)'
<1>1. OwnReadIndex(slot)' = OwnReadIndex(slot)
  <2>1. CASE IndexStores(slot) = {}
    BY <2>1, LoadsAre, LoadedVisible
  <2>2. CASE IndexStores(slot) # {}
    <3>1. PICK i \in IndexStores(slot) :
            (\A j \in IndexStores(slot) : j <= i) /\ OwnReadIndex(slot) = stores[i].value
      BY <2>2, OwnIndex
    <3>2. i \in IndicesIn(stores', slot) /\ \A j \in IndicesIn(stores', slot) : j <= i
      BY <3>1, LoadsAre
    <3>3. Loaded(stores', slot, read_index'[slot]) = stores'[i].value
      BY <3>2, LoadedIsLast
    <3> QED BY <3>1, <3>3, LoadsAre
  <2> QED BY <2>1, <2>2
<1>2. write_index'[slot] = write_index[slot] /\ InOrder(slot) => InOrder(slot)'
  BY DEF InOrder
<1> QED BY <1>1, <1>2

LEMMA MarkKeepsIndex ==
  ASSUME BusTypes, NEW value, Store("consumer_reading", value), NEW slot \in Slots,
         read_index' = read_index
  PROVE  /\ OwnReadIndex(slot)' = OwnReadIndex(slot)
         /\ write_index'[slot] = write_index[slot] /\ InOrder(slot) => InOrder(slot)'
<1>1. IndexStores(slot)' = IndexStores(slot)
  BY MarkStored
<1>2. \A i \in 1 .. Len(stores) : stores'[i] = stores[i]
  BY Stored
<1>3. \A i \in IndexStores(slot) : stores'[i] = stores[i]
  BY <1>2 DEF IndexStores
<1> QED BY <1>1, <1>3, IndexStays

\* The audio thread has taken a block and will see so, whoever else does not yet.
LEMMA MixMovesIndex ==
  ASSUME BusTypes, Mix, InOrder(visited), OwnReadIndex(visited) # write_index[visited]
  PROVE  /\ OwnReadIndex(visited)' = Increment(OwnReadIndex(visited))
         /\ InOrder(visited)'
<1> DEFINE n == Len(stores)
           at == visited
           own == OwnReadIndex(visited)
<1>0. /\ at \in Slots /\ UNCHANGED <<visited, read_index, write_index>>
      /\ Store("read_index", Increment(own))
      /\ write_index[at] \in Indices
  BY DEF Mix, AudioTo, sharedByAudio, ringVars, BusTypes, BusTypeOK
<1>1. /\ n \in Nat /\ Len(stores') = n + 1
      /\ \A i \in 1 .. n : stores'[i] = stores[i]
      /\ stores'[n + 1].value = Increment(own)
      /\ IndexStores(at)' = IndexStores(at) \cup {n + 1}
      /\ IndexStores(at) \subseteq 1 .. n
  <2>1. /\ n \in Nat /\ Len(stores') = n + 1
        /\ \A i \in 1 .. n : stores'[i] = stores[i]
        /\ stores'[n + 1] = [slot |-> visited, field |-> "read_index", value |-> Increment(own)]
    BY <1>0, Stored
  <2>2. PICK slot \in Slots : slot = visited
    BY <1>0
  <2>3. IndexStores(slot)' = IndexStores(slot) \cup {n + 1}
    BY <1>0, <2>2, IndexStored
  <2>4. IndexStores(at)' = IndexStores(slot)' /\ IndexStores(at) = IndexStores(slot)
    BY <1>0, <2>2 DEF IndexStores
  <2>5. IndexStores(at) \subseteq 1 .. n
    BY DEF IndexStores
  <2> HIDE DEF n, own
  <2> QED BY <2>1, <2>3, <2>4, <2>5
<1>2. OwnReadIndex(at)' = Increment(own)
  <2>1. PICK slot \in Slots, m \in Nat, next \in {Increment(own)} : slot = at /\ m = n + 1
    BY <1>0, <1>1
  <2>2. m \in IndicesIn(stores', slot) /\ \A j \in IndicesIn(stores', slot) : j <= m
    <3>1. IndexStores(slot)' = IndexStores(at)'
      BY <1>0, <2>1
    <3> QED BY <1>1, <2>1, <3>1, LoadsAre
  <2>3. OwnReadIndex(slot)' = next
    BY <1>1, <2>1, <2>2, LoadedIsLast, LoadsAre
  <2> QED BY <1>0, <2>1, <2>3 DEF OwnReadIndex, IndexStores
<1>3. InOrder(at)'
  <2>0. own \in Indices /\ own # write_index[at]
    BY <1>0, OwnIndex
  <2>1. /\ Ahead(Increment(own), write_index[at]) = Ahead(own, write_index[at]) - 1
        /\ Ahead(own, write_index[at]) \in Nat
    BY <1>0, <2>0, AheadSteps, OwnIsNearest
  <2>2. /\ Ahead(own, write_index[at]) <= Ahead(read_index[at], write_index[at])
        /\ \A i \in IndexStores(at) :
             /\ stores[i].value \in Indices
             /\ Ahead(own, write_index[at]) <= Ahead(stores[i].value, write_index[at])
    BY <1>0, OwnIsNearest
  <2>3. /\ Ahead(read_index[at], write_index[at]) \in Int
        /\ \A i \in IndexStores(at) : Ahead(stores[i].value, write_index[at]) \in Int
    <3>1. read_index[at] \in Indices
      BY <1>0 DEF BusTypes, BusTypeOK
    <3>2. QueueCapacity \in Nat
      BY Dimensions
    <3>3. \A index \in Indices : Ahead(index, write_index[at]) \in Int
      BY <1>0, <3>2, AheadSteps
    <3> QED BY <2>2, <3>1, <3>3
  <2> HIDE DEF n, own
  <2>4. ASSUME NEW i \in IndexStores(at)'
        PROVE  Ahead(stores'[i].value, write_index[at]) <= Ahead(read_index[at], write_index[at])
    <3>1. CASE i = n + 1
      BY <1>1, <2>1, <2>2, <2>3, <3>1
    <3>2. CASE i # n + 1
      <4>1. i \in IndexStores(at) /\ stores'[i] = stores[i]
        BY <1>1, <2>4, <3>2
      <4> QED BY <4>1 DEF InOrder
    <3> QED BY <3>1, <3>2
  <2>5. ASSUME NEW i \in IndexStores(at)', NEW j \in IndexStores(at)', i <= j
        PROVE  Ahead(stores'[j].value, write_index[at]) <= Ahead(stores'[i].value, write_index[at])
    <3>1. CASE j = n + 1
      <4>1. Ahead(stores'[j].value, write_index[at]) = Ahead(own, write_index[at]) - 1
        BY <1>1, <2>1, <3>1
      <4>2. CASE i = n + 1
        BY <2>1, <3>1, <4>1, <4>2
      <4>3. CASE i # n + 1
        <5>1. i \in IndexStores(at) /\ stores'[i] = stores[i]
          BY <1>1, <2>5, <4>3
        <5> QED BY <2>1, <2>2, <2>3, <4>1, <5>1
      <4> QED BY <4>2, <4>3
    <3>2. CASE j # n + 1
      <4>1. /\ j \in IndexStores(at) /\ stores'[j] = stores[j]
            /\ j \in 1 .. n
        BY <1>1, <2>5, <3>2
      <4>2. i # n + 1
        BY <1>1, <2>5, <4>1
      <4>3. i \in IndexStores(at) /\ stores'[i] = stores[i]
        BY <1>1, <2>5, <4>2
      <4> QED BY <2>5, <4>1, <4>3 DEF InOrder
    <3> QED BY <3>1, <3>2
  <2>6. read_index'[at] = read_index[at] /\ write_index'[at] = write_index[at]
    BY <1>0
  <2>7. PICK slot : slot = at
    OBVIOUS
  <2>8. visited' = slot /\ InOrder(slot)'
    BY <1>0, <2>4, <2>5, <2>6, <2>7 DEF InOrder
  <2> QED BY <2>8 DEF InOrder, IndexStores
<1> QED BY <1>2, <1>3

LEMMA CommitMovesIndex ==
  ASSUME BusTypes, Commit, NEW slot \in Slots, InOrder(slot)
  PROVE  /\ OwnReadIndex(slot)' = OwnReadIndex(slot)
         /\ InOrder(slot)'
         /\ Full(slot)' => Full(slot)
<1> DEFINE w == write_index[slot]
<1>0. /\ read_index[slot] \in Indices /\ w \in Indices /\ write_index' = write_index
      /\ QueueCapacity \in Nat /\ read_index \in [Slots -> Indices]
      /\ IndexStores(slot) \subseteq Nat \ {0}
  <2>1. /\ read_index[slot] \in Indices /\ w \in Indices
        /\ QueueCapacity \in Nat /\ read_index \in [Slots -> Indices]
    BY Dimensions DEF BusTypes, BusTypeOK
  <2>2. write_index' = write_index
    BY DEF Commit, ringVars
  <2>3. IndexStores(slot) \subseteq Nat \ {0}
    BY DEF IndexStores
  <2> QED BY <2>1, <2>2, <2>3
<1>1. /\ \A i : i \in IndexStores(slot)' <=> i \in Nat \ {0} /\ i + 1 \in IndexStores(slot)
      /\ \A i \in IndexStores(slot)' : stores'[i] = stores[i + 1]
  BY IndexCommitted
<1>2. 1 \in IndexStores(slot) => read_index'[slot] = stores[1].value
  <2>1. 1 \in IndexStores(slot) => stores[1].slot = slot /\ stores[1].field = "read_index"
    BY DEF IndexStores
  <2> QED BY <1>0, <2>1, Committed
<1>3. 1 \notin IndexStores(slot) => read_index'[slot] = read_index[slot]
  <2>1. /\ Len(stores) \in Nat \ {0} /\ stores[1] \in StoreSet
        /\ stores[1].field = "read_index" =>
             read_index' = [read_index EXCEPT ![stores[1].slot] = stores[1].value]
        /\ stores[1].field = "consumer_reading" => read_index' = read_index
    BY Committed
  <2>2. 1 \in 1 .. Len(stores)
    BY <2>1
  <2>3. 1 \notin IndexStores(slot) => stores[1].slot # slot \/ stores[1].field # "read_index"
    BY <2>2 DEF IndexStores
  <2>4. stores[1].field \in {"read_index", "consumer_reading"}
    BY <2>1 DEF StoreSet
  <2> QED BY <1>0, <2>1, <2>3, <2>4
<1>4. OwnReadIndex(slot)' = OwnReadIndex(slot)
  <2>1. CASE IndexStores(slot) = {}
    <3>1. IndexStores(slot)' = {}
      BY <1>1, <2>1
    <3> QED BY <1>3, <2>1, <3>1, LoadsAre, LoadedVisible
  <2>2. CASE IndexStores(slot) # {}
    <3>1. PICK m \in IndexStores(slot) :
            (\A j \in IndexStores(slot) : j <= m) /\ OwnReadIndex(slot) = stores[m].value
      BY <2>2, OwnIndex
    <3>2. CASE m = 1
      <4>1. \A i \in IndexStores(slot)' : FALSE
        BY <1>0, <1>1, <3>1, <3>2
      <4>2. IndexStores(slot)' = {}
        BY <4>1
      <4> QED BY <1>2, <3>1, <3>2, <4>2, LoadsAre, LoadedVisible
    <3>3. CASE m # 1
      <4>1. m \in Nat \ {0} /\ m - 1 \in Nat \ {0} /\ (m - 1) + 1 = m
        BY <1>0, <3>1, <3>3
      <4>2. m - 1 \in IndexStores(slot)' /\ stores'[m - 1] = stores[m]
        BY <1>1, <3>1, <4>1
      <4>3. \A j \in IndexStores(slot)' : j <= m - 1
        BY <1>0, <1>1, <3>1, <4>1
      <4>4. Loaded(stores', slot, read_index'[slot]) = stores'[m - 1].value
        BY <4>2, <4>3, LoadsAre, LoadedIsLast
      <4> QED BY <3>1, <4>2, <4>4, LoadsAre
    <3> QED BY <3>2, <3>3
  <2> QED BY <2>1, <2>2
<1>5. InOrder(slot)' /\ Ahead(read_index'[slot], w) <= Ahead(read_index[slot], w)
  <2>0. Ahead(read_index[slot], w) \in Int
    BY <1>0, AheadSteps
  <2>1. \A i \in IndexStores(slot)' :
          /\ i + 1 \in IndexStores(slot) /\ i \in Nat /\ stores'[i] = stores[i + 1]
    BY <1>1
  <2>2. Ahead(read_index'[slot], w) <= Ahead(read_index[slot], w)
    BY <1>2, <1>3, <2>0 DEF InOrder
  <2>3. ASSUME NEW i \in IndexStores(slot)'
        PROVE  Ahead(stores'[i].value, w) <= Ahead(read_index'[slot], w)
    <3>1. CASE 1 \in IndexStores(slot)
      <4>1. 1 <= i + 1 /\ i + 1 \in IndexStores(slot)
        BY <2>1, <2>3
      <4>2. Ahead(stores[i + 1].value, w) <= Ahead(stores[1].value, w)
        BY <3>1, <4>1 DEF InOrder
      <4> QED BY <1>2, <2>1, <2>3, <3>1, <4>2
    <3>2. CASE 1 \notin IndexStores(slot)
      <4>1. Ahead(stores[i + 1].value, w) <= Ahead(read_index[slot], w)
        BY <2>1, <2>3 DEF InOrder
      <4> QED BY <1>3, <2>1, <2>3, <3>2, <4>1
    <3> QED BY <3>1, <3>2
  <2>4. ASSUME NEW i \in IndexStores(slot)', NEW j \in IndexStores(slot)', i <= j
        PROVE  Ahead(stores'[j].value, w) <= Ahead(stores'[i].value, w)
    <3>1. i + 1 <= j + 1 /\ i + 1 \in IndexStores(slot) /\ j + 1 \in IndexStores(slot)
      BY <2>1, <2>4
    <3>2. Ahead(stores[j + 1].value, w) <= Ahead(stores[i + 1].value, w)
      BY <3>1 DEF InOrder
    <3> QED BY <2>1, <2>4, <3>2
  <2> QED BY <1>0, <2>2, <2>3, <2>4 DEF InOrder
<1>6. Full(slot)' => Full(slot)
  <2>1. read_index'[slot] \in Indices
    BY CommitIsTyped
  <2>2. /\ Full(slot) <=> Ahead(read_index[slot], w) = QueueCapacity
        /\ Full(slot)' <=> Ahead(read_index'[slot], w) = QueueCapacity
        /\ Ahead(read_index[slot], w) \in 0 .. QueueCapacity
        /\ Ahead(read_index'[slot], w) \in 0 .. QueueCapacity
    <3>1. Full(slot)' <=> Increment(write_index'[slot]) = read_index'[slot]
      BY DEF Full, Increment
    <3> QED BY <1>0, <2>1, <3>1, AheadSteps DEF Full
  <2> QED BY <1>0, <1>5, <2>2
<1> QED BY <1>4, <1>5, <1>6

\* Without a step of the audio thread its view of a slot changes with the visible index only.
LEMMA ViewStays ==
  ASSUME UNCHANGED stores, NEW slot, read_index'[slot] = read_index[slot]
  PROVE  /\ OwnReadIndex(slot)' = OwnReadIndex(slot)
         /\ IndexStores(slot)' = IndexStores(slot)
         /\ write_index'[slot] = write_index[slot] => (InOrder(slot)' <=> InOrder(slot))
  BY DEF OwnReadIndex, IndexStores, InOrder

\* A step that leaves alone what belongs to a slot keeps its stream.
LEMMA StreamStays ==
  ASSUME NEW slot \in Slots, Stream(slot),
         /\ generation'[slot] = generation[slot] /\ accepted'[slot] = accepted[slot]
         /\ write_index'[slot] = write_index[slot]
         /\ blocks'[slot] = blocks[slot] /\ pending'[slot] = pending[slot]
         /\ adapted'[slot] = adapted[slot] /\ heard'[slot] = heard[slot],
         OwnReadIndex(slot)' = OwnReadIndex(slot), InOrder(slot)', Full(slot)' => Full(slot),
         audio' = "mixing" /\ visited' = slot => OwnReadIndex(slot) # write_index[slot]
  PROVE  Stream(slot)'
<1>1. HeardTo(slot)' = HeardTo(slot) /\ Queued(slot)' = Queued(slot)
  BY DEF HeardTo, Queued
<1>2. (audio = "mixing" /\ visited = slot => OwnReadIndex(slot) # write_index[slot])'
  OBVIOUS
<1>3. Line(generation'[slot], blocks'[slot], OwnReadIndex(slot)', write_index'[slot],
           HeardTo(slot)', Queued(slot)')
  BY <1>1 DEF Stream
<1>4. adapted'[slot] # <<>> =>
        ~Full(slot)' /\ IsBlock(adapted'[slot], generation'[slot], Queued(slot)')
  BY <1>1 DEF Stream
<1>5. (\A i \in 1 .. Len(pending[slot]) :
         pending[slot][i] = <<generation[slot], accepted[slot] - Len(pending[slot]) + i>>)'
  BY DEF Stream
<1> QED BY <1>2, <1>3, <1>4, <1>5 DEF Stream

LEMMA FramesArePairs == FrameSet \subseteq Nat \X Nat /\ Seq(FrameSet) \subseteq Seq(Nat \X Nat)
<1>1. FrameSet \subseteq Nat \X Nat
  BY Bounds DEF FrameSet
<1> QED BY <1>1, SeqMonotonic

\* What is known of a slot whose session's thread works.
LEMMA WorkersAreLive ==
  ASSUME BusTypes, Attachments, NEW slot \in Slots, pump[slot] # "none"
  PROVE  Live(slot) /\ state[slot] = "Active"
  BY DEF Attachments, Live

\* Mixing hears the stream's next block.
LEMMA MixHearsNext ==
  ASSUME BusTypes, Mix, Stream(visited)
  PROVE  /\ OwnReadIndex(visited) # write_index[visited]
         /\ heard'[visited] = blocks[visited][OwnReadIndex(visited)]
         /\ \A slot \in Slots \ {visited} : heard'[slot] = heard[slot]
         /\ IsBlock(heard'[visited], generation[visited], HeardTo(visited))
         /\ HeardTo(visited) \in 0 .. MaxAccepted
         /\ Line(generation[visited], blocks[visited], Increment(OwnReadIndex(visited)),
                 write_index[visited], HeardTo(visited) + Frames, Queued(visited))
<1>1. /\ visited \in Slots /\ heard \in [Slots -> Seq(FrameSet) \cup {Torn}]
      /\ write_index[visited] \in Indices
  BY DEF BusTypes, BusTypeOK
<1>2. OwnReadIndex(visited) \in Indices
  BY <1>1, OwnIndex
<1>3. /\ heard'[visited] = blocks[visited][OwnReadIndex(visited)]
      /\ \A slot \in Slots \ {visited} : heard'[slot] = heard[slot]
  BY <1>1 DEF Mix
<1>4. /\ OwnReadIndex(visited) # write_index[visited]
      /\ Line(generation[visited], blocks[visited], OwnReadIndex(visited), write_index[visited],
              HeardTo(visited), Queued(visited))
  BY DEF Stream, Mix
<1>5. /\ IsBlock(blocks[visited][OwnReadIndex(visited)], generation[visited], HeardTo(visited))
      /\ HeardTo(visited) \in 0 .. MaxAccepted
      /\ Line(generation[visited], blocks[visited], Increment(OwnReadIndex(visited)),
              write_index[visited], HeardTo(visited) + Frames, Queued(visited))
  BY <1>1, <1>2, <1>4, LineAdvances
<1> QED BY <1>3, <1>4, <1>5

\* A newly attached slot has an empty ring, and nothing of it has been heard.
LEMMA OpenBeginsStream ==
  ASSUME BusInv, Open, NEW slot \in Slots, slot = claimed, ~overtaken[claimed]
  PROVE  Stream(slot)'
<1>0. /\ read_index \in [Slots -> Indices] /\ write_index \in [Slots -> Indices]
      /\ generation \in [Slots -> 0 .. MaxGeneration]
      /\ heard \in [Slots -> Seq(FrameSet) \cup {Torn}]
      /\ accepted \in [Slots -> 0 .. MaxAccepted] /\ pending \in [Slots -> Seq(FrameSet)]
  BY DEF BusInv, BusTypes, BusTypeOK
<1>a. adapted[slot] = <<>>
  BY <1>0 DEF BusInv, Attachments, Open
<1>1. 0 \in Indices /\ Len(<<>>) = 0
  BY Dimensions, ShortSequences DEF Indices
<1>2. /\ read_index'[slot] = 0 /\ write_index'[slot] = 0 /\ pending'[slot] = <<>>
      /\ accepted'[slot] = 0 /\ adapted'[slot] = <<>> /\ heard'[slot] = <<>>
      /\ blocks' = blocks
      /\ UNCHANGED <<stores, audio, visited>>
  BY <1>0, <1>a DEF Open, Clear
<1>3. ~Uses(slot)
  BY ClearedIsUnused DEF BusInv, Open
<1>4. ~(audio' = "mixing" /\ visited' = slot) /\ IndexStores(slot)' = {}
  BY <1>2, <1>3 DEF Uses, IndexStores
<1>5. OwnReadIndex(slot)' = 0 /\ InOrder(slot)'
  BY <1>2, <1>4 DEF OwnReadIndex, InOrder
<1>6. HeardTo(slot)' = 0 /\ Queued(slot)' = 0
  <2>1. Len(pending'[slot]) = 0 /\ Len(adapted'[slot]) = 0 /\ accepted'[slot] = 0
    BY <1>1, <1>2
  <2>2. HeardTo(slot)' = 0
    BY <1>2 DEF HeardTo
  <2>3. Queued(slot)' = 0
    BY <2>1 DEF Queued
  <2> QED BY <2>2, <2>3
<1>7. Line(generation'[slot], blocks'[slot], 0, 0, 0, 0)
  BY <1>1, LineBegins
<1> QED BY <1>1, <1>2, <1>4, <1>5, <1>6, <1>7 DEF Stream

LEMMA CommitKeepsStream ==
  ASSUME BusInv, Commit, NEW slot \in Slots, Stream(slot)
  PROVE  Stream(slot)'
<1>1. UNCHANGED <<generation, accepted, write_index, blocks, pending, adapted, heard, audio, visited>>
  BY DEF Commit, slotVars, ringVars, pumpVars
<1>2. OwnReadIndex(slot)' = OwnReadIndex(slot) /\ InOrder(slot)' /\ (Full(slot)' => Full(slot))
  BY CommitMovesIndex DEF BusInv, Stream
<1>3. audio' = "mixing" /\ visited' = slot => OwnReadIndex(slot) # write_index[slot]
  BY <1>1 DEF Stream
<1> QED BY <1>1, <1>2, <1>3, StreamStays

LEMMA AudioKeepsStream ==
  ASSUME BusInv, AudioStep, NEW slot \in Slots, Stream(slot)
  PROVE  Stream(slot)'
<1>0. /\ UNCHANGED <<generation, accepted, read_index, write_index, blocks, pending, adapted>>
      /\ visited \in Slots
  BY DEF AudioStep, Visit, Announce, Recheck, FindBlock, Mix, Leave, AudioTo, NextSlot,
    slotVars, sharedByAudio, ringVars, pumpVars, BusInv, BusTypes, BusTypeOK
<1>a. BusTypes /\ InOrder(slot)
  BY DEF BusInv, Stream
<1>b. Full(slot)' <=> Full(slot)
  BY <1>0 DEF Full, Increment
<1>1. CASE Mix /\ slot = visited
  <2>1. /\ OwnReadIndex(slot) # write_index[slot]
        /\ IsBlock(heard'[slot], generation[slot], HeardTo(slot))
        /\ HeardTo(slot) \in 0 .. MaxAccepted
        /\ Line(generation[slot], blocks[slot], Increment(OwnReadIndex(slot)),
                write_index[slot], HeardTo(slot) + Frames, Queued(slot))
    <3>1. Stream(visited)
      BY <1>1 DEF Stream, InOrder, IndexStores, OwnReadIndex, HeardTo, Queued, Full
    <3>2. /\ OwnReadIndex(visited) = OwnReadIndex(slot)
          /\ HeardTo(visited) = HeardTo(slot) /\ Queued(visited) = Queued(slot)
      BY <1>1
    <3> QED BY <1>1, <1>a, <3>1, <3>2, MixHearsNext
  <2>2. visited' = visited /\ audio' = "leaving"
    BY <1>1 DEF Mix, AudioTo
  <2>3. OwnReadIndex(slot)' = Increment(OwnReadIndex(slot)) /\ InOrder(slot)'
    <3>1. InOrder(visited) /\ OwnReadIndex(visited) # write_index[visited]
      BY <1>1, <1>a, <2>1
    <3>2. OwnReadIndex(visited)' = Increment(OwnReadIndex(visited)) /\ InOrder(visited)'
      BY <1>1, <1>a, <3>1, MixMovesIndex
    <3>3. slot = visited'
      BY <1>1, <2>2
    <3>4. OwnReadIndex(slot)' = OwnReadIndex(visited)' /\ (InOrder(slot)' <=> InOrder(visited)')
      BY <3>3
    <3> QED BY <1>1, <3>2, <3>4
  <2>4. heard'[slot][Frames] = <<generation[slot], HeardTo(slot) + Frames>> /\ heard'[slot] # <<>>
    <3>1. /\ Len(heard'[slot]) = Frames /\ Frames \in Nat \ {0}
          /\ \A i \in 1 .. Frames :
               heard'[slot][i] = <<generation[slot], HeardTo(slot) + i>>
      BY <2>1, Dimensions DEF IsBlock
    <3>2. Frames \in 1 .. Frames
      BY <3>1
    <3>3. heard'[slot] # <<>>
      BY <3>1, ShortSequences
    <3> QED BY <3>1, <3>2, <3>3
  <2>5. HeardTo(slot)' = HeardTo(slot) + Frames
    BY <2>4 DEF HeardTo
  <2>6. Queued(slot)' = Queued(slot)
    BY <1>0 DEF Queued
  <2>7. Line(generation'[slot], blocks'[slot], OwnReadIndex(slot)', write_index'[slot],
             HeardTo(slot)', Queued(slot)')
    BY <1>0, <2>1, <2>3, <2>5, <2>6
  <2>8. adapted'[slot] # <<>> =>
          ~Full(slot)' /\ IsBlock(adapted'[slot], generation'[slot], Queued(slot)')
    BY <1>0, <1>b, <2>6 DEF Stream
  <2>9. (\A i \in 1 .. Len(pending[slot]) :
           pending[slot][i] = <<generation[slot], accepted[slot] - Len(pending[slot]) + i>>)'
    BY <1>0 DEF Stream
  <2> QED BY <2>2, <2>3, <2>7, <2>8, <2>9 DEF Stream
<1>2. CASE Mix /\ slot # visited
  <2>1. heard'[slot] = heard[slot] /\ audio' # "mixing"
    <3>1. heard \in [Slots -> Seq(FrameSet) \cup {Torn}]
      BY <1>a DEF BusTypes
    <3> QED BY <1>2, <3>1 DEF Mix, AudioTo
  <2>2. IndexStores(slot)' = IndexStores(slot)
    BY <1>2, <1>a, IndexStored DEF Mix
  <2>3. \A i \in IndexStores(slot) : stores'[i] = stores[i]
    <3>1. \A i \in 1 .. Len(stores) : stores'[i] = stores[i]
      BY <1>2, <1>a, Stored DEF Mix
    <3> QED BY <3>1 DEF IndexStores
  <2>4. OwnReadIndex(slot)' = OwnReadIndex(slot) /\ InOrder(slot)'
    BY <1>0, <1>a, <2>2, <2>3, IndexStays
  <2> QED BY <1>0, <1>b, <2>1, <2>4, StreamStays
<1>3. CASE ~Mix
  <2>1. heard' = heard
    BY <1>3 DEF AudioStep, Visit, Announce, Recheck, FindBlock, Leave, NextSlot
  <2>2. UNCHANGED stores \/ \E value \in BOOLEAN : Store("consumer_reading", value)
    BY <1>3 DEF AudioStep, Visit, Announce, Recheck, FindBlock, Leave
  <2>3. OwnReadIndex(slot)' = OwnReadIndex(slot) /\ InOrder(slot)'
    <3>1. CASE UNCHANGED stores
      BY <1>0, <1>a, <3>1, ViewStays
    <3>2. CASE \E value \in BOOLEAN : Store("consumer_reading", value)
      BY <1>0, <1>a, <3>2, MarkKeepsIndex
    <3> QED BY <2>2, <3>1, <3>2
  <2>4. audio' = "mixing" /\ visited' = slot => OwnReadIndex(slot) # write_index[slot]
    <3>1. CASE FindBlock
      BY <3>1 DEF FindBlock, AudioTo
    <3>2. CASE ~FindBlock
      BY <1>3, <3>2 DEF AudioStep, Visit, Announce, Recheck, Leave, AudioTo, NextSlot
    <3> QED BY <3>1, <3>2
  <2> QED BY <1>0, <1>b, <2>1, <2>3, <2>4, StreamStays
<1> QED BY <1>1, <1>2, <1>3

\* The frames of a full block go from the remainder to the place to write.
LEMMA TakeFramesKeepsStream ==
  ASSUME BusInv, NEW slot \in Slots, TakeFrames(slot), Stream(slot)
  PROVE  Stream(slot)'
<1>0. /\ pending \in [Slots -> Seq(FrameSet)] /\ adapted \in [Slots -> Seq(FrameSet)]
      /\ blocks \in [Slots -> [Indices -> Seq(FrameSet) \cup {Torn}]]
      /\ read_index[slot] \in Indices /\ write_index[slot] \in Indices
      /\ accepted[slot] \in 0 .. MaxAccepted
  BY DEF BusInv, BusTypes, BusTypeOK
<1>a. Frames \in Nat \ {0} /\ MaxAccepted \in Nat
  BY Bounds, Dimensions
<1> DEFINE front == SubSeq(pending[slot], 1, Frames)
           rest == SubSeq(pending[slot], Frames + 1, Len(pending[slot]))
<1>1. /\ adapted'[slot] = front /\ pending'[slot] = rest
      /\ blocks'[slot] = Put(blocks[slot], write_index[slot], Torn)
      /\ UNCHANGED <<generation, accepted, read_index, write_index, stores, audio, visited, heard>>
      /\ adapted[slot] = <<>> /\ Len(pending[slot]) >= Frames /\ ~Full(slot)
  BY <1>0 DEF TakeFrames, CanDrain, Put, slotVars, sharedByAudio, audioVars
<1>2. pending[slot] \in Seq(FrameSet) /\ Len(pending[slot]) \in Nat
  BY <1>0, LenProperties
<1>3. \A i \in 1 .. Len(pending[slot]) : pending[slot][i] \in FrameSet
  BY <1>2, ElementOfSeq
<1>4. /\ front \in Seq(FrameSet) /\ Len(front) = Frames
      /\ \A i \in 1 .. Frames : front[i] = pending[slot][i]
  BY <1>a, <1>1, <1>2, <1>3, SubSeqProperties
<1>5. /\ rest \in Seq(FrameSet) /\ Len(rest) = Len(pending[slot]) - Frames
      /\ \A i \in 1 .. Len(pending[slot]) - Frames : rest[i] = pending[slot][Frames + i]
  <2>1. /\ rest \in Seq(FrameSet)
        /\ Len(rest) = IF Frames + 1 <= Len(pending[slot])
                       THEN Len(pending[slot]) - (Frames + 1) + 1 ELSE 0
        /\ \A i \in 1 .. Len(pending[slot]) - (Frames + 1) + 1 :
             rest[i] = pending[slot][(Frames + 1) + i - 1]
    BY <1>a, <1>1, <1>2, <1>3, SubSeqProperties
  <2>2. Len(pending[slot]) - (Frames + 1) + 1 = Len(pending[slot]) - Frames
    BY <1>a, <1>2
  <2>3. \A i \in Int : (Frames + 1) + i - 1 = Frames + i
    BY <1>a
  <2> HIDE DEF rest
  <2>4. Len(rest) = Len(pending[slot]) - Frames
    BY <1>a, <1>1, <1>2, <2>1
  <2>5. ASSUME NEW i \in 1 .. Len(pending[slot]) - Frames
        PROVE  rest[i] = pending[slot][Frames + i]
    <3>1. i \in 1 .. Len(pending[slot]) - (Frames + 1) + 1 /\ i \in Int
      BY <1>a, <1>2, <2>2
    <3>2. rest[i] = pending[slot][(Frames + 1) + i - 1] /\ (Frames + 1) + i - 1 = Frames + i
      BY <2>1, <2>3, <3>1
    <3> QED BY <3>2
  <2> QED BY <2>1, <2>4, <2>5
<1> HIDE DEF front, rest
<1>6. \A i \in 1 .. Len(pending[slot]) :
        pending[slot][i] = <<generation[slot], accepted[slot] - Len(pending[slot]) + i>>
  BY DEF Stream
<1>7. Queued(slot) = accepted[slot] - Len(pending[slot])
  BY <1>0, <1>1, <1>2, ShortSequences DEF Queued
<1>8. Queued(slot)' = Queued(slot)
  BY <1>0, <1>a, <1>1, <1>2, <1>4, <1>5, <1>7 DEF Queued
<1>9. IsBlock(front, generation[slot], Queued(slot))
  <2>1. front \in Seq(Nat \X Nat)
    BY <1>4, FramesArePairs
  <2>2. \A i \in 1 .. Frames : front[i] = <<generation[slot], Queued(slot) + i>>
    BY <1>a, <1>1, <1>2, <1>4, <1>6, <1>7
  <2> QED BY <1>4, <2>1, <2>2 DEF IsBlock
<1>10. \A i \in 1 .. Len(rest) : rest[i] = <<generation[slot], accepted[slot] - Len(rest) + i>>
  <2>1. ASSUME NEW i \in 1 .. Len(rest)
        PROVE  rest[i] = <<generation[slot], accepted[slot] - Len(rest) + i>>
    <3>1. /\ Frames + i \in 1 .. Len(pending[slot])
          /\ i \in 1 .. Len(pending[slot]) - Frames
      BY <1>a, <1>1, <1>2, <1>5
    <3>2. accepted[slot] - Len(pending[slot]) + (Frames + i) = accepted[slot] - Len(rest) + i
      BY <1>0, <1>a, <1>2, <1>5, <3>1
    <3> QED BY <1>5, <1>6, <3>1, <3>2
  <2> QED BY <2>1
<1>11. /\ OwnReadIndex(slot)' = OwnReadIndex(slot) /\ HeardTo(slot)' = HeardTo(slot)
       /\ OwnReadIndex(slot) \in Indices /\ InOrder(slot)'
  <2>1. OwnReadIndex(slot)' = OwnReadIndex(slot) /\ (InOrder(slot)' <=> InOrder(slot))
    BY <1>1, ViewStays
  <2>2. OwnReadIndex(slot) \in Indices
    BY OwnIndex DEF BusInv
  <2> QED BY <1>1, <2>1, <2>2 DEF HeardTo, Stream
<1>12. Full(slot)' <=> Full(slot)
  BY <1>1 DEF Full, Increment
<1>13. Line(generation[slot], blocks'[slot], OwnReadIndex(slot), write_index[slot], HeardTo(slot),
            Queued(slot))
  <2>1. Line(generation[slot], blocks[slot], OwnReadIndex(slot), write_index[slot], HeardTo(slot),
             Queued(slot))
    BY DEF Stream
  <2>2. blocks[slot] \in [Indices -> Seq(FrameSet) \cup {Torn}]
    BY <1>0
  <2> QED BY <1>0, <1>1, <1>11, <2>1, <2>2, LineBearsWriting
<1>14. audio' = "mixing" /\ visited' = slot => OwnReadIndex(slot)' # write_index'[slot]
  BY <1>1, <1>11 DEF Stream
<1>15. Line(generation'[slot], blocks'[slot], OwnReadIndex(slot)', write_index'[slot],
            HeardTo(slot)', Queued(slot)')
  BY <1>1, <1>8, <1>11, <1>13
<1>16. adapted'[slot] # <<>> =>
         ~Full(slot)' /\ IsBlock(adapted'[slot], generation'[slot], Queued(slot)')
  BY <1>1, <1>8, <1>9, <1>12
<1>17. (\A i \in 1 .. Len(pending[slot]) :
          pending[slot][i] = <<generation[slot], accepted[slot] - Len(pending[slot]) + i>>)'
  BY <1>1, <1>10
<1> QED BY <1>11, <1>14, <1>15, <1>16, <1>17 DEF Stream

\* A block enters the ring behind the others, which it cannot fill up to what is being read.
LEMMA EnqueueKeepsStream ==
  ASSUME BusInv, NEW slot \in Slots, Enqueue(slot), Stream(slot)
  PROVE  Stream(slot)'
<1>0. /\ adapted \in [Slots -> Seq(FrameSet)] /\ pending \in [Slots -> Seq(FrameSet)]
      /\ blocks \in [Slots -> [Indices -> Seq(FrameSet) \cup {Torn}]]
      /\ read_index[slot] \in Indices /\ write_index[slot] \in Indices
      /\ write_index \in [Slots -> Indices]
      /\ accepted[slot] \in 0 .. MaxAccepted
  BY DEF BusInv, BusTypes, BusTypeOK
<1>a. Frames \in Nat \ {0} /\ MaxAccepted \in Nat /\ QueueCapacity \in Nat \ {0}
  BY Bounds, Dimensions
<1>1. /\ adapted'[slot] = <<>> /\ write_index'[slot] = Increment(write_index[slot])
      /\ blocks'[slot] = Put(blocks[slot], write_index[slot], adapted[slot])
      /\ UNCHANGED <<generation, accepted, read_index, pending, stores, audio, visited, heard>>
      /\ adapted[slot] # <<>>
  BY <1>0 DEF Enqueue, Put, slotVars, sharedByAudio, audioVars
<1>2. /\ ~Full(slot) /\ IsBlock(adapted[slot], generation[slot], Queued(slot))
      /\ Line(generation[slot], blocks[slot], OwnReadIndex(slot), write_index[slot],
              HeardTo(slot), Queued(slot))
      /\ InOrder(slot) /\ BusTypes
  BY <1>1 DEF Stream, BusInv
<1>3. Len(adapted[slot]) = Frames /\ Len(pending[slot]) \in Nat
  BY <1>0, <1>2, LenProperties DEF IsBlock
<1>4. /\ Queued(slot) = accepted[slot] - Len(pending[slot]) - Frames
      /\ Queued(slot)' = Queued(slot) + Frames
      /\ Queued(slot) + Frames <= MaxAccepted
  BY <1>0, <1>a, <1>1, <1>3, ShortSequences DEF Queued
<1>5. /\ OwnReadIndex(slot) \in Indices
      /\ \A i \in IndexStores(slot) : stores[i].value \in Indices
  BY <1>2, OwnIndex
<1>6. ASSUME NEW index \in Indices,
             Ahead(index, write_index[slot]) <= Ahead(read_index[slot], write_index[slot])
      PROVE  /\ Increment(write_index[slot]) # index
             /\ Ahead(index, Increment(write_index[slot])) = Ahead(index, write_index[slot]) + 1
  <2>1. /\ Ahead(read_index[slot], write_index[slot]) \in 0 .. QueueCapacity
        /\ Ahead(read_index[slot], write_index[slot]) # QueueCapacity
    BY <1>0, <1>2, AheadSteps DEF Full
  <2>2. /\ Ahead(index, write_index[slot]) \in 0 .. QueueCapacity
        /\ Ahead(index, write_index[slot]) # QueueCapacity
    <3>1. Ahead(index, write_index[slot]) \in 0 .. QueueCapacity
      BY <1>0, AheadSteps
    <3> QED BY <1>a, <1>6, <2>1, <3>1
  <2> QED BY <1>0, <2>2, AheadSteps
<1>7. Increment(write_index[slot]) # OwnReadIndex(slot)
  BY <1>2, <1>5, <1>6, OwnIsNearest
<1>8. /\ OwnReadIndex(slot)' = OwnReadIndex(slot) /\ HeardTo(slot)' = HeardTo(slot)
      /\ IndexStores(slot)' = IndexStores(slot)
  <2>1. OwnReadIndex(slot)' = OwnReadIndex(slot) /\ IndexStores(slot)' = IndexStores(slot)
    BY <1>1, ViewStays
  <2> QED BY <1>1, <2>1 DEF HeardTo
<1>9. Line(generation[slot], blocks'[slot], OwnReadIndex(slot), Increment(write_index[slot]),
           HeardTo(slot), Queued(slot) + Frames)
  <2>1. blocks[slot] \in [Indices -> Seq(FrameSet) \cup {Torn}]
    BY <1>0
  <2> QED BY <1>0, <1>1, <1>2, <1>4, <1>5, <1>7, <2>1, LineGrows
<1>10. InOrder(slot)'
  <2> DEFINE w == write_index[slot]
             Sooner(index) == Ahead(index, w)
             Later(index) == Ahead(index, Increment(w))
  <2>1. /\ Sooner(read_index[slot]) \in Int
        /\ \A i \in IndexStores(slot) : Sooner(stores[i].value) \in Int
    <3>1. \A index \in Indices : Sooner(index) \in Int
      BY <1>0, <1>a, AheadSteps
    <3> QED BY <1>0, <1>5, <3>1
  <2>2. /\ \A i \in IndexStores(slot) : Sooner(stores[i].value) <= Sooner(read_index[slot])
        /\ \A i, j \in IndexStores(slot) : i <= j =>
             Sooner(stores[j].value) <= Sooner(stores[i].value)
    BY <1>2 DEF InOrder
  <2>3. /\ Later(read_index[slot]) = Sooner(read_index[slot]) + 1
        /\ \A i \in IndexStores(slot) : Later(stores[i].value) = Sooner(stores[i].value) + 1
    BY <1>0, <1>5, <1>6, <2>1, <2>2
  <2> HIDE DEF Sooner, Later
  <2>4. /\ \A i \in IndexStores(slot) : Later(stores[i].value) <= Later(read_index[slot])
        /\ \A i, j \in IndexStores(slot) : i <= j =>
             Later(stores[j].value) <= Later(stores[i].value)
    BY <2>1, <2>2, <2>3
  <2>5. /\ write_index'[slot] = Increment(w) /\ read_index'[slot] = read_index[slot]
        /\ stores' = stores
    BY <1>1
  <2> QED BY <1>8, <2>4, <2>5 DEF InOrder, Later
<1>11. (\A i \in 1 .. Len(pending[slot]) :
          pending[slot][i] = <<generation[slot], accepted[slot] - Len(pending[slot]) + i>>)'
  BY <1>1 DEF Stream
<1>12. Line(generation'[slot], blocks'[slot], OwnReadIndex(slot)', write_index'[slot],
            HeardTo(slot)', Queued(slot)')
  BY <1>1, <1>4, <1>8, <1>9
<1>13. audio' = "mixing" /\ visited' = slot => OwnReadIndex(slot)' # write_index'[slot]
  BY <1>1, <1>7, <1>8
<1> QED BY <1>1, <1>10, <1>11, <1>12, <1>13 DEF Stream

\* Accepted frames follow the remainder.
LEMMA DecideKeepsStream ==
  ASSUME BusInv, NEW slot \in Slots, Decide(slot), Stream(slot)
  PROVE  Stream(slot)'
<1>0. /\ pending \in [Slots -> Seq(FrameSet)] /\ pending[slot] \in Seq(FrameSet)
      /\ accepted \in [Slots -> 0 .. MaxAccepted] /\ accepted[slot] \in 0 .. MaxAccepted
      /\ source[slot] \in 0 .. MaxBlockFrames /\ generation[slot] \in 0 .. MaxGeneration
      /\ accepted[slot] + source[slot] <= MaxAccepted
      /\ generation[slot] >= 1
      /\ adapted[slot] = <<>>
  BY DEF BusInv, BusTypes, BusTypeOK, Attachments, Decide
<1>a. {MaxAccepted, MaxGeneration, MaxBlockFrames} \subseteq Nat
  BY Bounds, Dimensions
<1>1. UNCHANGED <<generation, read_index, write_index, blocks, adapted, stores, audio, visited, heard>>
  BY DEF Decide, sharedByAudio, audioVars
<1>2. CASE Refused(slot)
  <2>1. pending' = pending /\ accepted' = accepted
    BY <1>2 DEF Decide
  <2>2. audio' = "mixing" /\ visited' = slot => OwnReadIndex(slot) # write_index[slot]
    BY <1>1 DEF Stream
  <2>3. OwnReadIndex(slot)' = OwnReadIndex(slot) /\ InOrder(slot)' /\ (Full(slot)' => Full(slot))
    <3>1. Full(slot)' <=> Full(slot)
      BY <1>1 DEF Full, Increment
    <3> QED BY <1>1, <3>1, ViewStays DEF Stream
  <2> QED BY <1>1, <2>1, <2>2, <2>3, StreamStays
<1>3. CASE ~Refused(slot)
  <2> DEFINE all == pending[slot] \o NewFrames(slot)
  <2>1. pending'[slot] = all /\ accepted'[slot] = accepted[slot] + source[slot]
    BY <1>0, <1>3 DEF Decide
  <2>2. /\ NewFrames(slot) \in Seq(FrameSet) /\ Len(NewFrames(slot)) = source[slot]
        /\ \A i \in 1 .. source[slot] :
             NewFrames(slot)[i] = <<generation[slot], accepted[slot] + i>>
    <3>1. /\ accepted[slot] \in Nat /\ source[slot] \in Nat
          /\ generation[slot] \in 1 .. MaxGeneration
      BY <1>0, <1>a
    <3>2. NewFrames(slot) \in [1 .. source[slot] -> FrameSet]
      <4>1. \A i \in 1 .. source[slot] : accepted[slot] + i \in Nat
        BY <3>1
      <4>2. generation[slot] \in Nat
        BY <3>1, <1>a
      <4> QED BY <3>1, <4>1, <4>2, <1>0, <1>a DEF NewFrames, FrameSet
    <3>3. NewFrames(slot) \in Seq(FrameSet) /\ Len(NewFrames(slot)) = source[slot]
      BY <3>1, <3>2
    <3> QED BY <3>3 DEF NewFrames
  <2>3. /\ all \in Seq(FrameSet) /\ Len(all) = Len(pending[slot]) + source[slot]
        /\ \A i \in 1 .. Len(pending[slot]) + source[slot] :
             all[i] = IF i <= Len(pending[slot]) THEN pending[slot][i]
                      ELSE NewFrames(slot)[i - Len(pending[slot])]
    <3>1. \A s, t \in Seq(FrameSet) :
            /\ s \o t \in Seq(FrameSet) /\ Len(s \o t) = Len(s) + Len(t)
            /\ \A i \in 1 .. Len(s) + Len(t) :
                 (s \o t)[i] = IF i <= Len(s) THEN s[i] ELSE t[i - Len(s)]
      BY ConcatProperties
    <3>2. all \in Seq(FrameSet) /\ Len(all) = Len(pending[slot]) + Len(NewFrames(slot))
      BY <1>0, <2>2, <3>1
    <3>3. \A i \in 1 .. Len(pending[slot]) + Len(NewFrames(slot)) :
            all[i] = IF i <= Len(pending[slot]) THEN pending[slot][i]
                     ELSE NewFrames(slot)[i - Len(pending[slot])]
      BY <1>0, <2>2, <3>1, Zenon
    <3> QED BY <2>2, <3>2, <3>3
  <2> HIDE DEF all
  <2>4. Len(pending[slot]) \in Nat /\ source[slot] \in Nat /\ accepted[slot] \in Nat
    BY <1>0, <1>a, LenProperties
  <2>5. \A i \in 1 .. Len(pending[slot]) :
          pending[slot][i] = <<generation[slot], accepted[slot] - Len(pending[slot]) + i>>
    BY DEF Stream
  <2>6. \A i \in 1 .. Len(all) :
          all[i] = <<generation[slot], accepted'[slot] - Len(all) + i>>
    <3>1. ASSUME NEW i \in 1 .. Len(all)
          PROVE  all[i] = <<generation[slot], accepted'[slot] - Len(all) + i>>
      <4>1. accepted'[slot] - Len(all) + i = accepted[slot] - Len(pending[slot]) + i
        BY <2>1, <2>3, <2>4
      <4>2. CASE i <= Len(pending[slot])
        <5>1. i \in 1 .. Len(pending[slot])
          BY <2>4, <4>2
        <5> QED BY <2>3, <2>5, <4>1, <4>2, <5>1
      <4>3. CASE i > Len(pending[slot])
        <5>1. i - Len(pending[slot]) \in 1 .. source[slot]
          BY <2>3, <2>4, <4>3
        <5>2. all[i] = NewFrames(slot)[i - Len(pending[slot])]
          BY <2>3, <2>4, <4>3
        <5>3. all[i] = <<generation[slot], accepted[slot] + (i - Len(pending[slot]))>>
          BY <2>2, <5>1, <5>2
        <5>4. accepted[slot] + (i - Len(pending[slot])) = accepted[slot] - Len(pending[slot]) + i
          BY <2>4
        <5> QED BY <4>1, <5>3, <5>4
      <4> QED BY <2>3, <2>4, <4>2, <4>3
    <3> QED BY <3>1
  <2>7. Queued(slot)' = Queued(slot)
    BY <1>0, <1>1, <2>1, <2>3, <2>4, ShortSequences DEF Queued
  <2>8. OwnReadIndex(slot)' = OwnReadIndex(slot) /\ HeardTo(slot)' = HeardTo(slot) /\ InOrder(slot)'
    <3>1. OwnReadIndex(slot)' = OwnReadIndex(slot) /\ (InOrder(slot)' <=> InOrder(slot))
      BY <1>1, ViewStays
    <3> QED BY <1>1, <3>1 DEF HeardTo, Stream
  <2>9. (audio = "mixing" /\ visited = slot => OwnReadIndex(slot) # write_index[slot])'
    BY <1>1, <2>8 DEF Stream
  <2>10. adapted'[slot] = <<>>
    BY <1>0, <1>1
  <2>11. Line(generation[slot], blocks[slot], OwnReadIndex(slot), write_index[slot],
              HeardTo(slot), Queued(slot))
    BY DEF Stream
  <2>12. Line(generation'[slot], blocks'[slot], OwnReadIndex(slot)', write_index'[slot],
              HeardTo(slot)', Queued(slot)')
    BY <1>1, <2>7, <2>8, <2>11
  <2>13. (\A i \in 1 .. Len(pending[slot]) :
            pending[slot][i] = <<generation[slot], accepted[slot] - Len(pending[slot]) + i>>)'
    BY <1>1, <2>1, <2>6
  <2> QED BY <2>8, <2>9, <2>10, <2>12, <2>13 DEF Stream
<1> QED BY <1>2, <1>3

LEMMA StreamsKept ==
  BusInv /\ [BusNext]_busVars => (\A slot \in Slots : Live(slot) /\ ~overtaken[slot] => Stream(slot))'
<1> SUFFICES ASSUME BusInv, [BusNext]_busVars, NEW slot \in Slots, Live(slot)', ~overtaken'[slot]
             PROVE  Stream(slot)'
  OBVIOUS
<1>0. /\ state \in [Slots -> {"Idle", "Claiming", "Active"}] /\ claimed \in Slots
      /\ pump \in [Slots -> {"none", "idle", "draining", "deciding", "flushing"}]
      /\ overtaken \in [Slots -> BOOLEAN]
      /\ BusTypes /\ Attachments /\ Handshake
  BY DEF BusInv, BusTypes, BusTypeOK
<1>a. Live(slot) /\ ~overtaken[slot] => Stream(slot)
  BY DEF BusInv
<1> USE DEF slotVars, controlVars, sharedByAudio, audioVars, ringVars, pumpVars
<1>1. ASSUME AudioStep PROVE Stream(slot)'
  <2>1. UNCHANGED <<state, control, claimed, overtaken>>
    BY <1>1 DEF AudioStep, Visit, Announce, Recheck, FindBlock, Mix, Leave, AudioTo, NextSlot
  <2>2. Stream(slot)
    BY <1>a, <2>1 DEF Live
  <2> QED BY <1>1, <2>2, AudioKeepsStream
<1>2. ASSUME Commit PROVE Stream(slot)'
  <2>1. Stream(slot)
    BY <1>a, <1>2 DEF Commit, Live
  <2> QED BY <1>2, <2>1, CommitKeepsStream
<1>3. ASSUME Open, slot = claimed PROVE Stream(slot)'
  <2>1. ~overtaken[claimed]
    BY <1>3 DEF Open
  <2> QED BY <1>3, <2>1, OpenBeginsStream
<1>4. ASSUME TakeFrames(slot) \/ Enqueue(slot) \/ Decide(slot) PROVE Stream(slot)'
  <2>1. pump[slot] # "none" /\ overtaken' = overtaken
    BY <1>0, <1>4 DEF TakeFrames, Enqueue, Decide, Attachments
  <2>2. Stream(slot)
    BY <1>0, <1>a, <2>1, WorkersAreLive
  <2> QED BY <1>4, <2>2, TakeFramesKeepsStream, EnqueueKeepsStream, DecideKeepsStream
<1>5. ASSUME Live(slot), overtaken'[slot] = overtaken[slot],
             /\ generation'[slot] = generation[slot] /\ accepted'[slot] = accepted[slot]
             /\ read_index'[slot] = read_index[slot] /\ write_index'[slot] = write_index[slot]
             /\ blocks'[slot] = blocks[slot] /\ pending'[slot] = pending[slot]
             /\ adapted'[slot] = adapted[slot] /\ heard'[slot] = heard[slot]
             /\ UNCHANGED <<stores, audio, visited>>
      PROVE  Stream(slot)'
  <2>1. Stream(slot)
    BY <1>a, <1>5
  <2>2. OwnReadIndex(slot)' = OwnReadIndex(slot) /\ InOrder(slot)'
    BY <1>5, <2>1, ViewStays DEF Stream
  <2>3. audio' = "mixing" /\ visited' = slot => OwnReadIndex(slot) # write_index[slot]
    BY <1>5, <2>1 DEF Stream
  <2>4. Full(slot)' => Full(slot)
    BY <1>5 DEF Full, Increment
  <2> QED BY <1>5, <2>1, <2>2, <2>3, <2>4, StreamStays
<1> DEFINE Same ==
      /\ overtaken'[slot] = overtaken[slot]
      /\ generation'[slot] = generation[slot] /\ accepted'[slot] = accepted[slot]
      /\ read_index'[slot] = read_index[slot] /\ write_index'[slot] = write_index[slot]
      /\ blocks'[slot] = blocks[slot] /\ pending'[slot] = pending[slot]
      /\ adapted'[slot] = adapted[slot] /\ heard'[slot] = heard[slot]
      /\ UNCHANGED <<stores, audio, visited>>
<1>6. ASSUME NEW other \in Slots, Attach(other) \/ Detach(other) \/ Push(other) \/ StopDraining(other)
      PROVE  Stream(slot)'
  <2>1. Same
    BY <1>6 DEF Attach, Detach, Push, StopDraining, PumpTo
  <2>2. Live(slot)
    BY <1>0, <1>6 DEF Attach, Detach, Push, StopDraining, PumpTo, Live
  <2> QED BY <1>5, <2>1, <2>2
<1>7. ASSUME NEW other \in Slots, other # slot,
             TakeFrames(other) \/ Enqueue(other) \/ Decide(other)
      PROVE  Stream(slot)'
  <2>0. /\ pending \in [Slots -> Seq(FrameSet)] /\ adapted \in [Slots -> Seq(FrameSet)]
        /\ blocks \in [Slots -> [Indices -> Seq(FrameSet) \cup {Torn}]]
        /\ write_index \in [Slots -> Indices] /\ accepted \in [Slots -> 0 .. MaxAccepted]
    BY DEF BusInv, BusTypes, BusTypeOK
  <2>1. Same
    BY <1>7, <2>0 DEF TakeFrames, Enqueue, Decide
  <2>2. Live(slot)
    BY <1>7 DEF TakeFrames, Enqueue, Decide, Live
  <2> QED BY <1>5, <2>1, <2>2
<1>8. ASSUME UNCHANGED busVars PROVE Stream(slot)'
  <2>1. Same /\ Live(slot)
    BY <1>8 DEF busVars, Live
  <2> QED BY <1>5, <2>1
<1>9. ASSUME Open \/ Close, slot # claimed PROVE Stream(slot)'
  <2>0. /\ read_index \in [Slots -> Indices] /\ write_index \in [Slots -> Indices]
        /\ pending \in [Slots -> Seq(FrameSet)]
        /\ generation \in [Slots -> 0 .. MaxGeneration]
        /\ heard \in [Slots -> Seq(FrameSet) \cup {Torn}]
        /\ accepted \in [Slots -> 0 .. MaxAccepted]
    BY DEF BusInv, BusTypes, BusTypeOK
  <2>1. Same
    BY <1>0, <1>9, <2>0 DEF Open, Close, Clear
  <2>2. Live(slot)
    BY <1>0, <1>9 DEF Open, Close, Live
  <2> QED BY <1>5, <2>1, <2>2
<1>10. ASSUME Close, slot = claimed PROVE FALSE
  BY <1>0, <1>10 DEF Close, Live
\* The slot that is claimed waits for its clearing.
<1>11. ASSUME AwaitReader PROVE Stream(slot)'
  <2>1. /\ UNCHANGED <<state, claimed>> /\ control' \in {"opening", "closing"}
        /\ control \in {"attaching", "detaching"}
        /\ overtaken' = [overtaken EXCEPT ![claimed] = Unseen(claimed)]
    BY <1>11 DEF AwaitReader, Claimed
  <2>2. slot # claimed
    BY <1>0, <2>1 DEF Live, Attachments
  <2>3. Same
    BY <1>0, <1>11, <2>1, <2>2 DEF AwaitReader, Claimed
  <2>4. Live(slot)
    BY <1>0, <2>1, <2>2 DEF Live
  <2> QED BY <1>5, <2>3, <2>4
<1> QED
  BY <1>1, <1>2, <1>3, <1>4, <1>6, <1>7, <1>8, <1>9, <1>10, <1>11
  DEF BusNext, PumpStep, ControlStep

LEMMA BusBegins == BusInit => BusInv
<1> SUFFICES ASSUME BusInit PROVE BusInv
  OBVIOUS
<1>1. BusTypes /\ Attachments
  BY BusTypesBegin
<1>2. stores = <<>> /\ Len(stores) = 0 /\ audio = "visiting"
  BY ShortSequences DEF BusInit
<1>3. \A slot \in Slots : IndexStores(slot) = {}
  BY <1>2 DEF IndexStores
<1>4. Covered
  BY <1>2, <1>3 DEF Covered
<1>5. \A slot \in Slots : ~Uses(slot) /\ ~Live(slot)
  BY <1>2, <1>3 DEF BusInit, EachSlot, Uses, Live
<1> QED BY <1>1, <1>4, <1>5 DEF BusInv, Handshake

LEMMA BusKept == BusInv /\ [BusNext]_busVars => BusInv'
<1> SUFFICES ASSUME BusInv, [BusNext]_busVars PROVE BusInv'
  OBVIOUS
<1>1. BusTypes /\ Attachments /\ Covered /\ Handshake
  BY DEF BusInv
<1>2. BusTypes' /\ Attachments'
  BY <1>1, BusTypesKept, AttachmentsKept
<1>3. Covered' /\ Handshake'
  BY <1>1, CoveredKept, HandshakeKept
<1>4. (\A slot \in Slots : Live(slot) /\ ~overtaken[slot] => Stream(slot))'
  BY StreamsKept
<1> QED BY <1>2, <1>3, <1>4 DEF BusInv

\* Whoever overtakes whom, indices stay in their rings, a remainder in its buffer, and no place is
\* read as written before its block is there.
THEOREM BusTypeCorrect == BusSpec => []BusTypeOK
<1>1. BusInit => BusTypes /\ Attachments
  BY BusTypesBegin
<1>2. BusTypes /\ Attachments /\ [BusNext]_busVars => (BusTypes /\ Attachments)'
  BY BusTypesKept, AttachmentsKept
<1>3. BusTypes => BusTypeOK
  BY DEF BusTypes
<1> QED BY <1>1, <1>2, <1>3, PTL DEF BusSpec

\* A slot is cleared only when the audio thread is neither looking at its ring nor about to make an
\* index of it visible, unless the control thread claimed it while an announcement of the audio
\* thread was still in the store buffer.
THEOREM HandshakeIsLock == BusSpec => []SlotIsHeld
<1>1. BusInit => BusInv
  BY BusBegins
<1>2. BusInv /\ [BusNext]_busVars => BusInv'
  BY BusKept
<1>3. BusInv => SlotIsHeld
  <2> SUFFICES ASSUME BusInv, control \in {"opening", "closing"}, ~overtaken[claimed]
               PROVE  SlotIsHeld
    BY DEF SlotIsHeld
  <2>1. ~Uses(claimed)
    BY ClearedIsUnused DEF BusInv
  <2> QED BY <2>1 DEF Uses, SlotIsHeld
<1> QED BY <1>1, <1>2, <1>3, PTL DEF BusSpec

\* A step that mixes is Mix, on a slot that has its stream.
LEMMA MixesIsMix ==
  ASSUME BusInv, [BusNext]_busVars, NEW slot \in Slots, Mixes(slot)
  PROVE  /\ IsBlock(heard'[slot], generation[slot], HeardTo(slot))
         /\ HeardTo(slot) \in 0 .. MaxAccepted
<1>1. Mix
  <2>1. audio' # audio
    BY DEF Mixes
  <2>2. ASSUME \/ ControlStep \/ Commit \/ UNCHANGED busVars
               \/ \E other \in Slots :
                    Attach(other) \/ Detach(other) \/ Push(other) \/ PumpStep(other)
        PROVE  audio' = audio
    BY <2>2 DEF ControlStep, AwaitReader, Claimed, Open, Close, Commit, busVars, audioVars, Attach,
      Detach, Push, PumpStep, TakeFrames, Enqueue, StopDraining, Decide, PumpTo
  <2>3. AudioStep
    BY <2>1, <2>2 DEF BusNext
  <2> QED BY <2>3 DEF AudioStep, Visit, Announce, Recheck, FindBlock, Leave, Mixes
<1>2. slot = visited /\ ~overtaken[slot] /\ audio = "mixing"
  BY DEF Mixes
<1>3. Stream(slot)
  BY <1>2 DEF BusInv, Handshake, Uses
<1>4. Stream(visited)
  BY <1>2, <1>3 DEF Stream, InOrder, IndexStores, OwnReadIndex, HeardTo, Queued, Full
<1>5. HeardTo(visited) = HeardTo(slot)
  BY <1>2
<1> QED BY <1>1, <1>2, <1>4, <1>5, MixHearsNext DEF BusInv

\* What is mixed from a slot was pushed in its present attachment, and no DAW hears what an earlier
\* one left, unless the slot was claimed past an announcement of the audio thread.
THEOREM NoStaleAudio == BusSpec => StaleAudioStaysOut
<1>1. BusInit => BusInv
  BY BusBegins
<1>2. BusInv /\ [BusNext]_busVars => BusInv'
  BY BusKept
<1>3. BusInv /\ [BusNext]_busVars =>
        [\A slot \in Slots : Mixes(slot) =>
           /\ heard'[slot] # Torn
           /\ \A i \in 1 .. Len(heard'[slot]) : heard'[slot][i][1] = generation[slot]]_busVars
  <2> SUFFICES ASSUME BusInv, [BusNext]_busVars, NEW slot \in Slots, Mixes(slot)
               PROVE  /\ heard'[slot] # Torn
                      /\ \A i \in 1 .. Len(heard'[slot]) : heard'[slot][i][1] = generation[slot]
    OBVIOUS
  <2>1. IsBlock(heard'[slot], generation[slot], HeardTo(slot))
    BY MixesIsMix
  <2> QED BY <2>1, Dimensions DEF IsBlock
<1> QED BY <1>1, <1>2, <1>3, PTL DEF BusSpec, StaleAudioStaysOut

\* The accepted frames of an attachment are heard from the first one on, each once and none left out,
\* for every block size of the DAW, every capacity of the ring and every depth of the store buffer,
\* unless the slot was claimed past an announcement of the audio thread.
THEOREM WholeStreamIsHeard == BusSpec => StreamIsWhole
<1>1. BusInit => BusInv
  BY BusBegins
<1>2. BusInv /\ [BusNext]_busVars => BusInv'
  BY BusKept
<1>3. BusInv /\ [BusNext]_busVars =>
        [\A slot \in Slots : Mixes(slot) => Follows(heard'[slot], heard[slot])]_busVars
  <2> SUFFICES ASSUME BusInv, [BusNext]_busVars, NEW slot \in Slots, Mixes(slot)
               PROVE  Follows(heard'[slot], heard[slot])
    OBVIOUS
  <2>1. IsBlock(heard'[slot], generation[slot], HeardTo(slot)) /\ HeardTo(slot) \in 0 .. MaxAccepted
    BY MixesIsMix
  <2>2. /\ heard'[slot] # Torn /\ Len(heard'[slot]) = Frames
        /\ \A i \in 1 .. Frames : heard'[slot][i] = <<generation[slot], HeardTo(slot) + i>>
    BY <2>1, Dimensions DEF IsBlock
  <2>3. heard'[slot][1] = <<generation[slot], HeardTo(slot) + 1>>
    BY <2>2, Dimensions
  <2>4. \A i \in 2 .. Frames : HeardTo(slot) + 1 + i - 1 = HeardTo(slot) + i
    BY <2>1, Dimensions, Bounds
  <2>5. \A i \in 2 .. Frames : heard'[slot][i] = <<generation[slot], HeardTo(slot) + 1 + i - 1>>
    BY <2>2, <2>4, Dimensions
  <2>6. HeardTo(slot) + 1 = IF heard[slot] = <<>> THEN 1 ELSE heard[slot][Frames][2] + 1
    BY DEF HeardTo
  <2> QED BY <2>2, <2>3, <2>5, <2>6 DEF Follows
<1> QED BY <1>1, <1>2, <1>3, PTL DEF BusSpec, StreamIsWhole
=============================================================================
