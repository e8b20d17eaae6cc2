--------------------------- MODULE GraphSnapshot ---------------------------
(***************************************************************************)
(* core/graph/graph_snapshot.cpp: GraphSnapshotPublisher, the object       *)
(* through which control threads replace the processing graph while audio  *)
(* threads run it.                                                         *)
(*                                                                         *)
(* Control threads own graphs through shared_ptr and serialise on a spin   *)
(* lock.  Audio threads take no lock and no reference: they announce       *)
(* themselves in active_processors_, load a raw pointer and use it.  All   *)
(* of those accesses are memory_order_seq_cst, so an interleaving of       *)
(* atomic steps is the whole of the concurrency.                           *)
(*                                                                         *)
(* A graph is a value of Graphs, standing for the address of an object.  An *)
(* address nothing owns is free and may be handed out again by NewGraph.   *)
(***************************************************************************)
EXTENDS Naturals, FiniteSets

CONSTANTS
  Graphs,     \* addresses of Graph objects
  Controls,   \* threads calling publish() and current()
  Readers,    \* audio threads calling process()
  NoGraph,    \* nullptr
  NoThread    \* control_lock_ is clear

ASSUME GraphSnapshotAssumption ==
  /\ NoGraph \notin Graphs
  /\ NoThread \notin Controls
  /\ IsFiniteSet(Readers)

GraphPtr == Graphs \union {NoGraph}

VARIABLES
  control_lock,       \* control_lock_: the thread that holds it
  graph,              \* graph_: the owning pointer
  active_graph,       \* active_graph_: the raw pointer readers load
  active_processors,  \* active_processors_
  control_pc,         \* where each control thread is
  handle,             \* the shared_ptr each caller keeps for itself
  argument,           \* publish()'s by-value parameter
  previous,           \* publish()'s local `previous`
  reader_pc,          \* where each audio thread is in process()
  reader_graph        \* process()'s local raw pointer

publisherVars == <<control_lock, graph, active_graph>>
controlVars   == <<control_pc, handle, argument, previous>>
readerVars    == <<active_processors, reader_pc, reader_graph>>
vars          == <<publisherVars, controlVars, readerVars>>

ControlPC ==
  {"idle",                                                    \* outside
   "publish_lock", "move", "store", "drain", "reset",         \* publish()
   "current_lock", "copy", "unlock"}                          \* current()
ReaderPC == {"idle", "entered", "using"}

(***************************************************************************)
(* The graphs some shared_ptr owns.  A graph leaves this set exactly when  *)
(* its last owner is reset, moved from or overwritten: then it is deleted. *)
(***************************************************************************)
Live ==
  ({graph} \union {handle[c] : c \in Controls}
           \union {argument[c] : c \in Controls}
           \union {previous[c] : c \in Controls}) \ {NoGraph}

Init ==
  /\ control_lock = NoThread
  /\ graph \in GraphPtr
  /\ active_graph = graph
  /\ active_processors = 0
  /\ control_pc = [c \in Controls |-> "idle"]
  /\ handle = [c \in Controls |-> NoGraph]
  /\ argument = [c \in Controls |-> NoGraph]
  /\ previous = [c \in Controls |-> NoGraph]
  /\ reader_pc = [r \in Readers |-> "idle"]
  /\ reader_graph = [r \in Readers |-> NoGraph]

-----------------------------------------------------------------------------
(* Callers of the publisher, between calls.                                *)

\* A caller builds a graph: an address nothing owns, possibly a reused one.
NewGraph(c) ==
  /\ control_pc[c] = "idle"
  /\ \E g \in Graphs \ Live : handle' = [handle EXCEPT ![c] = g]
  /\ UNCHANGED <<publisherVars, control_pc, argument, previous, readerVars>>

DropHandle(c) ==
  /\ control_pc[c] = "idle"
  /\ handle' = [handle EXCEPT ![c] = NoGraph]
  /\ UNCHANGED <<publisherVars, control_pc, argument, previous, readerVars>>

-----------------------------------------------------------------------------
(* publish(): the argument is the caller's pointer, copied or moved.       *)

CallPublish(c) ==
  /\ control_pc[c] = "idle"
  /\ control_pc' = [control_pc EXCEPT ![c] = "publish_lock"]
  /\ argument' = [argument EXCEPT ![c] = handle[c]]
  /\ \E kept \in {handle[c], NoGraph} : handle' = [handle EXCEPT ![c] = kept]
  /\ UNCHANGED <<publisherVars, previous, readerVars>>

\* lock_control(): the successful test_and_set of the spin.
LockControl(c) ==
  /\ control_pc[c] \in {"publish_lock", "current_lock"}
  /\ control_lock = NoThread
  /\ control_lock' = c
  /\ control_pc' = [control_pc EXCEPT
       ![c] = IF control_pc[c] = "publish_lock" THEN "move" ELSE "copy"]
  /\ UNCHANGED <<graph, active_graph, handle, argument, previous, readerVars>>

\* previous takes the old graph, graph_ the new one.
MoveGraph(c) ==
  /\ control_pc[c] = "move"
  /\ previous' = [previous EXCEPT ![c] = graph]
  /\ graph' = argument[c]
  /\ argument' = [argument EXCEPT ![c] = NoGraph]
  /\ control_pc' = [control_pc EXCEPT ![c] = "store"]
  /\ UNCHANGED <<control_lock, active_graph, handle, readerVars>>

StoreActive(c) ==
  /\ control_pc[c] = "store"
  /\ active_graph' = graph
  /\ control_pc' = [control_pc EXCEPT ![c] = "drain"]
  /\ UNCHANGED <<control_lock, graph, handle, argument, previous, readerVars>>

\* Fault: publish() does not wait for the audio threads.
DrainedWithoutWaiting(c) ==
  /\ control_pc[c] = "drain"
  /\ control_pc' = [control_pc EXCEPT ![c] = "reset"]
  /\ UNCHANGED <<publisherVars, handle, argument, previous, readerVars>>

\* The load of active_processors_ that ends the spin.
Drained(c) ==
  /\ control_pc[c] = "drain"
  /\ active_processors = 0
  /\ control_pc' = [control_pc EXCEPT ![c] = "reset"]
  /\ UNCHANGED <<publisherVars, handle, argument, previous, readerVars>>

\* Fault: the destructor of the retired graph takes the publisher's lock.
ResetPreviousUnderLock(c) ==
  /\ control_pc[c] = "reset"
  /\ control_lock = NoThread
  /\ previous' = [previous EXCEPT ![c] = NoGraph]
  /\ control_pc' = [control_pc EXCEPT ![c] = "unlock"]
  /\ UNCHANGED <<publisherVars, handle, argument, readerVars>>

ResetPrevious(c) ==
  /\ control_pc[c] = "reset"
  /\ previous' = [previous EXCEPT ![c] = NoGraph]
  /\ control_pc' = [control_pc EXCEPT ![c] = "unlock"]
  /\ UNCHANGED <<publisherVars, handle, argument, readerVars>>

UnlockControl(c) ==
  /\ control_pc[c] = "unlock"
  /\ control_lock' = NoThread
  /\ control_pc' = [control_pc EXCEPT ![c] = "idle"]
  /\ UNCHANGED <<graph, active_graph, handle, argument, previous, readerVars>>

-----------------------------------------------------------------------------
(* current().                                                              *)

CallCurrent(c) ==
  /\ control_pc[c] = "idle"
  /\ control_pc' = [control_pc EXCEPT ![c] = "current_lock"]
  /\ UNCHANGED <<publisherVars, handle, argument, previous, readerVars>>

CopyCurrent(c) ==
  /\ control_pc[c] = "copy"
  /\ handle' = [handle EXCEPT ![c] = graph]
  /\ control_pc' = [control_pc EXCEPT ![c] = "unlock"]
  /\ UNCHANGED <<publisherVars, argument, previous, readerVars>>

-----------------------------------------------------------------------------
(* process(), on an audio thread.                                          *)

EnterProcess(r) ==
  /\ reader_pc[r] = "idle"
  /\ active_processors' = active_processors + 1
  /\ reader_pc' = [reader_pc EXCEPT ![r] = "entered"]
  /\ UNCHANGED <<publisherVars, controlVars, reader_graph>>

LoadActive(r) ==
  /\ reader_pc[r] = "entered"
  /\ reader_graph' = [reader_graph EXCEPT ![r] = active_graph]
  /\ reader_pc' = [reader_pc EXCEPT ![r] = "using"]
  /\ UNCHANGED <<publisherVars, controlVars, active_processors>>

\* fetch_sub, after graph->process() or, with no graph, after copy_from().
LeaveProcess(r) ==
  /\ reader_pc[r] = "using"
  /\ active_processors' = active_processors - 1
  /\ reader_graph' = [reader_graph EXCEPT ![r] = NoGraph]
  /\ reader_pc' = [reader_pc EXCEPT ![r] = "idle"]
  /\ UNCHANGED <<publisherVars, controlVars>>

-----------------------------------------------------------------------------
ControlStep(c) ==
  \/ NewGraph(c) \/ DropHandle(c)
  \/ CallPublish(c) \/ LockControl(c) \/ MoveGraph(c) \/ StoreActive(c)
  \/ Drained(c) \/ ResetPrevious(c) \/ UnlockControl(c)
  \/ CallCurrent(c) \/ CopyCurrent(c)

ReaderStep(r) == EnterProcess(r) \/ LoadActive(r) \/ LeaveProcess(r)

Next == (\E c \in Controls : ControlStep(c)) \/ (\E r \in Readers : ReaderStep(r))

Spec == Init /\ [][Next]_vars

(***************************************************************************)
(* A control thread inside a call keeps running, and so does an audio      *)
(* thread inside process(); nobody is obliged to make another call.  The   *)
(* drain spin samples the counter again and again, so it is given strong   *)
(* fairness: it succeeds if the counter is 0 again and again.              *)
(***************************************************************************)
Fairness ==
  /\ \A c \in Controls :
       /\ WF_vars(MoveGraph(c)) /\ WF_vars(StoreActive(c))
       /\ WF_vars(ResetPrevious(c)) /\ WF_vars(UnlockControl(c))
       /\ WF_vars(CopyCurrent(c))
       /\ SF_vars(Drained(c))
  /\ \A r \in Readers : WF_vars(LoadActive(r)) /\ WF_vars(LeaveProcess(r))

FairSpec == Spec /\ Fairness

-----------------------------------------------------------------------------
TypeOK ==
  /\ control_lock \in Controls \union {NoThread}
  /\ graph \in GraphPtr
  /\ active_graph \in GraphPtr
  /\ active_processors \in Nat
  /\ control_pc \in [Controls -> ControlPC]
  /\ handle \in [Controls -> GraphPtr]
  /\ argument \in [Controls -> GraphPtr]
  /\ previous \in [Controls -> GraphPtr]
  /\ reader_pc \in [Readers -> ReaderPC]
  /\ reader_graph \in [Readers -> GraphPtr]

\* An audio thread inside graph->process() runs a graph that still exists,
\* although it holds no reference to it (comment on graph_ in
\* graph_snapshot.h: reclamation stays on the publisher side).
NoUseAfterFree ==
  \A r \in Readers :
    reader_pc[r] = "using" /\ reader_graph[r] # NoGraph => reader_graph[r] \in Live

\* publish() is a barrier: once the spin has ended, every audio thread still
\* inside process() runs the new graph, so a publisher may free or reuse
\* whatever the retired graph referred to.
PublishIsBarrier ==
  \A c \in Controls : control_pc[c] = "reset" =>
    \A r \in Readers : reader_pc[r] = "using" => reader_graph[r] = graph

\* Nobody takes a half-published graph from current(): while the lock is
\* free, or held by a reader of graph_, the owner and the raw pointer agree.
CurrentIsActive ==
  (\/ control_lock = NoThread
   \/ \E c \in Controls : control_pc[c] = "copy") => graph = active_graph

\* If the audio threads leave a gap again and again, publish() gets through
\* its spin, frees the previous graph and releases the lock.
PublishReturns ==
  \A c \in Controls :
    []<>(active_processors = 0) => (control_pc[c] = "drain" ~> control_pc[c] = "idle")
=============================================================================
