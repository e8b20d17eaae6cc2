---------------------------- MODULE PhysicalAsio ----------------------------
(***************************************************************************)
(* A physical ASIO driver calls back without a context pointer, so that    *)
(* windows_asio_vendor_host.cpp keeps one transport for the process in a   *)
(* global, and a flag that says that the place is taken. Modelled here are *)
(* the hosts that share them: one is created, started, stopped and torn    *)
(* down by the engine's control thread, which opens the runtime of a new   *)
(* configuration before it lets go of the previous one, while the threads  *)
(* of the drivers call back.                                               *)
(*                                                                         *)
(* A host stands for the objects that live and die with it: the vendor     *)
(* host, its WindowsPhysicalAsioRuntime, the engine runtime around that    *)
(* and the control apartment, whose thread runs one task at a time while   *)
(* the caller waits. A runtime of another kind has no host: None stands    *)
(* for it. The pointer to the host events is set and cleared beside the    *)
(* transport's. Accesses to the globals are taken in program order.        *)
(***************************************************************************)
EXTENDS Naturals

CONSTANTS
  Hosts,    \* vendor hosts, and their drivers
  None,     \* no host, a null pointer
  MaxCalls  \* bound: calls of the control service

\* What the theorems take for granted about the constants.
Constants == None \notin Hosts /\ MaxCalls \in Nat

VARIABLES
  slot,       \* callback_slot
  transport,  \* callback_transport, by its host
  callback,   \* what the thread of a driver does: where it is and what it uses
  buffers,    \* hosts with buffers_created_
  transports, \* hosts with a transport_
  delivering, \* hosts whose driver calls back: those with running_, until stop()
  state,      \* the WindowsPhysicalAsioRuntimeState of each
  pc,         \* where the control thread is
  plan,       \* what it does: "replace" a stopped runtime, "restart" a running
              \* one, "rebuild" a stale one, or just "start"
  installed,  \* audio_runtime_, or previous_runtime while it is replaced
  candidate,  \* the host of the runtime being opened
  dying,      \* the host being destroyed
  then,       \* where its destruction returns
  calls       \* calls made so far

globals == <<slot, transport>>
control == <<pc, plan, installed, candidate, dying, then, calls>>
hosts   == <<buffers, transports, delivering, state>>
asioVars == <<globals, callback, hosts, control>>

Out == [at |-> "out", in |-> None]

AsioInit ==
  /\ slot = FALSE /\ transport = None
  /\ callback = [h \in Hosts |-> Out]
  /\ buffers = {} /\ transports = {} /\ delivering = {}
  /\ state = [h \in Hosts |-> "Ready"]
  /\ pc = "idle" /\ plan = "start" /\ then = "idle"
  /\ installed = None /\ candidate = None /\ dying = None
  /\ calls = 0

-----------------------------------------------------------------------------
(* The drivers' threads: buffer_switch()                                   *)

\* callbacks_in_flight counts the callbacks that are not out.
Enter(h) ==
  /\ h \in delivering /\ callback[h] = Out
  /\ callback' = [callback EXCEPT ![h] = [at |-> "entered", in |-> None]]
  /\ UNCHANGED <<globals, hosts, control>>

Load(h) ==
  /\ callback[h].at = "entered"
  /\ callback' = [callback EXCEPT ![h] = [at |-> "inside", in |-> transport]]
  /\ UNCHANGED <<globals, hosts, control>>

\* The transport, if there is one, has copied one half of its buffers through
\* the graph.
Leave(h) ==
  /\ callback[h].at = "inside"
  /\ callback' = [callback EXCEPT ![h] = Out]
  /\ UNCHANGED <<globals, hosts, control>>

Driver == \E h \in Hosts : Enter(h) \/ Load(h) \/ Leave(h)

-----------------------------------------------------------------------------
(* The runtime of a host                                                   *)

Running(h) == state[h] = "Running"

\* start(): the driver may refuse, and the runtime is ready for another try.
RuntimeStart(h, ok) ==
  /\ Running(h) => ok
  /\ state' = [state EXCEPT ![h] = IF ok THEN "Running" ELSE "Ready"]
  /\ delivering' = IF ok /\ ~Running(h) THEN delivering \union {h} ELSE delivering
  /\ UNCHANGED <<buffers, transports>>

\* stop(): a driver that refuses leaves the runtime running. A callback that is
\* inside goes on, whatever the driver answers.
RuntimeStop(h) ==
  \/ /\ Running(h)
     /\ state' = [state EXCEPT ![h] = "Stopped"]
     /\ delivering' = delivering \ {h}
     /\ UNCHANGED <<buffers, transports>>
  \/ UNCHANGED hosts

-----------------------------------------------------------------------------
(* The calls of the control service                                        *)

Call == pc = "idle" /\ calls < MaxCalls /\ calls' = calls + 1

\* configure_audio_runtime_locked(): a running runtime is stopped first, and kept.
Configure ==
  /\ Call
  /\ \/ /\ installed \in Hosts
        /\ plan' = IF Running(installed) THEN "restart" ELSE "replace"
        /\ IF Running(installed) THEN RuntimeStop(installed) ELSE UNCHANGED hosts
     \/ /\ installed = None
        /\ plan' \in {"restart", "replace"}
        /\ UNCHANGED hosts
  /\ pc' = "open"
  /\ UNCHANGED <<globals, callback, installed, candidate, dying, then>>

\* start_audio_runtime_locked(): a runtime whose graph is stale is rebuilt first.
Start ==
  /\ Call
  /\ installed \in Hosts /\ ~Running(installed)
  /\ \/ plan' = "start" /\ pc' = "start"
     \/ plan' = "rebuild" /\ pc' = "open"
  /\ UNCHANGED <<globals, callback, hosts, installed, candidate, dying, then>>

StartInstalled ==
  /\ pc = "start"
  /\ \E ok \in BOOLEAN : RuntimeStart(installed, ok)
  /\ pc' = "idle"
  /\ UNCHANGED <<globals, callback, plan, installed, candidate, dying, then, calls>>

Stop ==
  /\ Call
  /\ installed \in Hosts
  /\ RuntimeStop(installed)
  /\ UNCHANGED <<globals, callback, pc, plan, installed, candidate, dying, then>>

-----------------------------------------------------------------------------
(* Opening the runtime of the configuration                                *)

Destroy(h, next) == pc' = "destroy" /\ dying' = h /\ then' = next

\* The driver cannot be inspected, activated or negotiated with, or has channels
\* that the configuration leaves out: there is no host yet.
DriverUnavailable ==
  /\ pc = "open"
  /\ pc' = "restore"
  /\ UNCHANGED <<globals, callback, hosts, plan, installed, candidate, dying, then, calls>>

\* The configuration asks for a runtime of another kind, which opens, and starts if
\* it must, or does not.
OpenOther ==
  /\ pc = "open" /\ plan # "rebuild"
  /\ pc' \in {"restore", "install"}
  /\ UNCHANGED <<globals, callback, hosts, plan, installed, candidate, dying, then, calls>>

\* create(): the slot is taken, or the new host is destroyed again.
TakeSlot ==
  /\ pc = "open"
  /\ \E h \in Hosts \ {installed} : candidate' = h
  /\ IF slot
     THEN Destroy(candidate', "restore") /\ UNCHANGED slot
     ELSE slot' = TRUE /\ pc' = "buffers" /\ UNCHANGED <<dying, then>>
  /\ UNCHANGED <<transport, callback, hosts, plan, installed, calls>>

CreateBuffers ==
  /\ pc = "buffers"
  /\ \/ /\ buffers' = buffers \union {candidate}
        /\ transports' = transports \union {candidate}
        /\ transport' = candidate
        /\ pc' = "opened"
        /\ UNCHANGED <<dying, then>>
     \/ /\ buffers' \in {buffers, buffers \union {candidate}}
        /\ Destroy(candidate, "restore")
        /\ UNCHANGED <<transports, transport>>
  /\ UNCHANGED <<delivering, state>>
  /\ UNCHANGED <<slot, callback, plan, installed, candidate, calls>>

\* WindowsPhysicalAsioRuntime::open(): the driver and the graph may not agree.
\* What restarts is started now; if that fails the candidate is destroyed only
\* when the previous runtime has been started again.
Opened ==
  /\ pc = "opened"
  /\ \/ Destroy(candidate, "restore") /\ UNCHANGED hosts
     \/ /\ plan # "restart"
        /\ pc' = "install"
        /\ UNCHANGED <<hosts, dying, then>>
     \/ /\ plan = "restart"
        /\ \E ok \in BOOLEAN :
             /\ RuntimeStart(candidate, ok)
             /\ pc' = IF ok THEN "install" ELSE "restore"
        /\ UNCHANGED <<dying, then>>
  /\ UNCHANGED <<globals, callback, plan, installed, candidate, calls>>

\* restore_previous_runtime(), and the failure of a rebuild.
Restore ==
  /\ pc = "restore"
  /\ IF plan = "restart" /\ installed \in Hosts
     THEN \E ok \in BOOLEAN : RuntimeStart(installed, ok)
     ELSE UNCHANGED hosts
  /\ IF candidate \in Hosts THEN Destroy(candidate, "idle")
     ELSE pc' = "idle" /\ UNCHANGED <<dying, then>>
  /\ UNCHANGED <<globals, callback, plan, installed, candidate, calls>>

\* The candidate takes the place of the previous runtime, which is destroyed.
Install ==
  /\ pc = "install"
  /\ installed' = candidate /\ candidate' = None
  /\ LET next == IF plan = "rebuild" THEN "start" ELSE "idle"
     IN  IF installed \in Hosts THEN Destroy(installed, next)
         ELSE pc' = next /\ UNCHANGED <<dying, then>>
  /\ UNCHANGED <<globals, callback, hosts, plan, calls>>

-----------------------------------------------------------------------------
(* teardown()                                                              *)

\* What the driver answers to stop() is not asked for.
StopDying ==
  /\ pc = "destroy"
  /\ delivering' \in {delivering, delivering \ {dying}}
  /\ pc' = "unhook"
  /\ UNCHANGED <<globals, callback, buffers, transports, state, plan, installed, candidate, dying, then, calls>>

Unhook ==
  /\ pc = "unhook"
  /\ transport' = None
  /\ pc' = "quiet"
  /\ UNCHANGED <<slot, callback, hosts, plan, installed, candidate, dying, then, calls>>

Quiet ==
  /\ pc = "quiet"
  /\ \A h \in Hosts : callback[h] = Out
  /\ pc' = "free"
  /\ UNCHANGED <<globals, callback, hosts, plan, installed, candidate, dying, then, calls>>

Free ==
  /\ pc = "free"
  /\ transports' = transports \ {dying}
  /\ pc' = "dispose"
  /\ UNCHANGED <<globals, callback, buffers, delivering, state, plan, installed, candidate, dying, then, calls>>

\* The driver, disposed of its buffers and released, does not call back again.
Dispose ==
  /\ pc = "dispose"
  /\ buffers' = buffers \ {dying} /\ delivering' = delivering \ {dying}
  /\ state' = [state EXCEPT ![dying] = "Ready"]
  /\ slot' = FALSE
  /\ candidate' = IF candidate = dying THEN None ELSE candidate
  /\ dying' = None
  /\ pc' = then
  /\ UNCHANGED <<transport, transports, callback, plan, installed, then, calls>>

-----------------------------------------------------------------------------

Control ==
  \/ Configure \/ Start \/ StartInstalled \/ Stop
  \/ DriverUnavailable \/ OpenOther \/ TakeSlot \/ CreateBuffers \/ Opened \/ Restore \/ Install
  \/ StopDying \/ Unhook \/ Quiet \/ Free \/ Dispose

AsioNext == Driver \/ Control

AsioSpec == AsioInit /\ [][AsioNext]_asioVars

-----------------------------------------------------------------------------

TypeOK ==
  /\ slot \in BOOLEAN /\ transport \in Hosts \union {None}
  /\ callback \in [Hosts -> [at : {"out", "entered", "inside"}, in : Hosts \union {None}]]
  /\ {buffers, transports, delivering} \subseteq SUBSET Hosts
  /\ state \in [Hosts -> {"Ready", "Running", "Stopped"}]
  /\ pc \in {"idle", "start", "open", "buffers", "opened", "restore", "install",
             "destroy", "unhook", "quiet", "free", "dispose"}
  /\ plan \in {"start", "restart", "replace", "rebuild"}
  /\ then \in {"idle", "start", "restore"}
  /\ {installed, candidate, dying} \subseteq Hosts \union {None}
  /\ calls \in 0 .. MaxCalls

\* A transport, and the driver's buffers it copies, are there as long as any
\* driver's callback is inside it, whichever host's destruction cleared the pointer.
NoUseAfterFree ==
  \A h \in Hosts : callback[h].in # None =>
    callback[h].in \in transports \intersect buffers

\* current-system.md:102-104: a running runtime is reconfigured transactionally, and
\* "a failure restores the previous runtime": what runs between two calls is called.
RestoredRuntimeIsHeard ==
  (pc = "idle" /\ installed \in Hosts /\ Running(installed)) => transport = installed
=============================================================================
