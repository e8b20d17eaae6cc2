------------------------ MODULE GraphSnapshotProofs ------------------------
(***************************************************************************)
(* The publisher never frees a graph an audio thread is running, for any   *)
(* number of graphs, control threads and audio threads.                    *)
(*                                                                         *)
(* The four safety properties are not inductive: each speaks of one thread *)
(* at one place.  Inv below says where every raw pointer may come from     *)
(* (the active graph, or the graph a draining publisher still owns), that  *)
(* the lock admits one thread, and that active_processors_ counts exactly  *)
(* the audio threads inside process().                                     *)
(***************************************************************************)
EXTENDS GraphSnapshot, FiniteSetTheorems, TLAPS

Inside == {r \in Readers : reader_pc[r] # "idle"}

Locked(c) == control_pc[c] \in {"move", "store", "drain", "reset", "copy", "unlock"}

\* A thread is in the critical section exactly when it holds the lock.
LockInv == \A c \in Controls : Locked(c) <=> control_lock = c

\* The publisher's local pointer owns something only between move and reset.
PreviousInv ==
  \A c \in Controls :
    control_pc[c] \notin {"store", "drain", "reset"} => previous[c] = NoGraph

CountInv == active_processors = Cardinality(Inside)

\* Only between the move and the store do the owner and the raw pointer differ.
ActiveInv ==
  /\ (\A c \in Controls : control_pc[c] # "store") => active_graph = graph
  /\ \A c \in Controls : control_pc[c] = "store" => active_graph = previous[c]

\* Where the pointer an audio thread runs came from.
ReaderInv ==
  \A r \in Readers : reader_pc[r] = "using" =>
    \/ reader_graph[r] = active_graph
    \/ \E c \in Controls : control_pc[c] = "drain" /\ reader_graph[r] = previous[c]

Inv == TypeOK /\ LockInv /\ PreviousInv /\ CountInv /\ ActiveInv /\ ReaderInv

\* The lock admits one thread.
LEMMA OneLocked ==
  ASSUME GraphSnapshotAssumption, LockInv, NEW c \in Controls, NEW d \in Controls,
         Locked(c), Locked(d)
  PROVE  c = d
BY DEF LockInv

LEMMA InsideFinite == ASSUME GraphSnapshotAssumption PROVE IsFiniteSet(Inside)
BY FS_Subset DEF GraphSnapshotAssumption, Inside

LEMMA InitInv == ASSUME GraphSnapshotAssumption, Init PROVE Inv
<1>1. Inside = {}
  BY DEF Init, Inside
<1>2. CountInv
  BY <1>1, FS_EmptySet DEF CountInv, Init
<1> QED
  BY <1>2 DEF Init, Inv, TypeOK, LockInv, PreviousInv, ActiveInv, ReaderInv, Locked,
    GraphSnapshotAssumption, GraphPtr, ControlPC, ReaderPC

-----------------------------------------------------------------------------
(* A control step leaves the audio threads alone, so CountInv survives; the *)
(* lemmas below treat the other conjuncts, one step of publish() at a time. *)

LEMMA ControlCount ==
  ASSUME CountInv, UNCHANGED readerVars
  PROVE  CountInv'
<1>1. Inside' = Inside
  BY DEF Inside, readerVars
<1> QED
  BY <1>1 DEF CountInv, readerVars

LEMMA CallerSteps ==
  ASSUME GraphSnapshotAssumption, Inv, NEW c \in Controls,
         NewGraph(c) \/ DropHandle(c) \/ CallPublish(c) \/ CallCurrent(c) \/ CopyCurrent(c)
  PROVE  Inv'
<1> USE DEF Inv
<1>1. UNCHANGED readerVars /\ UNCHANGED publisherVars /\ UNCHANGED previous
  BY DEF NewGraph, DropHandle, CallPublish, CallCurrent, CopyCurrent
<1>2. TypeOK'
  BY DEF TypeOK, NewGraph, DropHandle, CallPublish, CallCurrent, CopyCurrent,
    GraphPtr, ControlPC, readerVars, publisherVars
<1>3. /\ \A d \in Controls : Locked(d)' <=> Locked(d)
      /\ \A d \in Controls, p \in {"store", "drain", "reset"} :
           control_pc'[d] = p <=> control_pc[d] = p
  BY DEF NewGraph, DropHandle, CallPublish, CallCurrent, CopyCurrent, Locked, TypeOK, ControlPC
<1>4. LockInv'
  BY <1>1, <1>3 DEF LockInv, publisherVars
<1>5. PreviousInv'
  BY <1>1, <1>3 DEF PreviousInv
<1>6. ActiveInv'
  BY <1>1, <1>3 DEF ActiveInv, publisherVars
<1>7. ReaderInv'
  BY <1>1, <1>3 DEF ReaderInv, readerVars, publisherVars
<1> QED
  BY <1>1, <1>2, <1>4, <1>5, <1>6, <1>7, ControlCount

LEMMA LockStep ==
  ASSUME GraphSnapshotAssumption, Inv, NEW c \in Controls, LockControl(c)
  PROVE  Inv'
<1> USE DEF Inv, LockControl
<1>1. TypeOK'
  BY DEF TypeOK, ControlPC, readerVars
<1>2. LockInv'
  BY DEF LockInv, Locked, TypeOK, GraphSnapshotAssumption
<1>3. PreviousInv'
  BY DEF PreviousInv, TypeOK
<1>4. ActiveInv'
  BY DEF ActiveInv, TypeOK
<1>5. ReaderInv'
  BY DEF ReaderInv, TypeOK, readerVars
<1> QED
  BY <1>1, <1>2, <1>3, <1>4, <1>5, ControlCount

LEMMA MoveStep ==
  ASSUME GraphSnapshotAssumption, Inv, NEW c \in Controls, MoveGraph(c)
  PROVE  Inv'
<1> USE DEF Inv, MoveGraph
<1>1. TypeOK'
  BY DEF TypeOK, ControlPC, GraphPtr, readerVars
<1>2. \A d \in Controls : Locked(d) => d = c
  BY OneLocked DEF Locked
<1>3. LockInv'
  BY DEF LockInv, Locked, TypeOK
<1>4. PreviousInv'
  BY DEF PreviousInv, TypeOK
<1>5. active_graph = graph
  BY <1>2 DEF ActiveInv, Locked
<1>6. ActiveInv'
  BY <1>2, <1>5 DEF ActiveInv, Locked, TypeOK
<1>7. ReaderInv'
  BY <1>2 DEF ReaderInv, Locked, TypeOK, readerVars
<1> QED
  BY <1>1, <1>3, <1>4, <1>6, <1>7, ControlCount

\* A reader of the graph retired here is from now on a reader of previous[c].
LEMMA StoreStep ==
  ASSUME GraphSnapshotAssumption, Inv, NEW c \in Controls, StoreActive(c)
  PROVE  Inv'
<1> USE DEF Inv, StoreActive
<1>1. TypeOK'
  BY DEF TypeOK, ControlPC, GraphPtr, readerVars
<1>2. \A d \in Controls : Locked(d) => d = c
  BY OneLocked DEF Locked
<1>3. LockInv'
  BY DEF LockInv, Locked, TypeOK
<1>4. PreviousInv'
  BY DEF PreviousInv, TypeOK
<1>5. ActiveInv'
  BY <1>2 DEF ActiveInv, Locked, TypeOK
<1>6. ReaderInv'
  <2> SUFFICES ASSUME NEW r \in Readers, reader_pc[r] = "using"
      PROVE  \/ reader_graph[r] = active_graph'
             \/ \E d \in Controls : control_pc'[d] = "drain" /\ reader_graph[r] = previous[d]
    BY DEF ReaderInv, readerVars
  <2>1. reader_graph[r] = active_graph
    BY <1>2 DEF ReaderInv, Locked
  <2>2. active_graph = previous[c]
    BY DEF ActiveInv
  <2> QED
    BY <2>1, <2>2 DEF TypeOK
<1> QED
  BY <1>1, <1>3, <1>4, <1>5, <1>6, ControlCount

\* The counter being 0 means that there is no reader left to worry about.
LEMMA DrainStep ==
  ASSUME GraphSnapshotAssumption, Inv, NEW c \in Controls, Drained(c)
  PROVE  Inv'
<1> USE DEF Inv, Drained
<1>1. TypeOK'
  BY DEF TypeOK, ControlPC, readerVars, publisherVars
<1>2. LockInv'
  BY DEF LockInv, Locked, TypeOK, publisherVars
<1>3. PreviousInv'
  BY DEF PreviousInv, TypeOK
<1>4. ActiveInv'
  BY DEF ActiveInv, TypeOK, publisherVars
<1>5. Inside = {}
  BY InsideFinite, FS_EmptySet DEF CountInv
<1>6. ReaderInv'
  BY <1>5 DEF ReaderInv, Inside, readerVars
<1> QED
  BY <1>1, <1>2, <1>3, <1>4, <1>6, ControlCount

LEMMA ResetStep ==
  ASSUME GraphSnapshotAssumption, Inv, NEW c \in Controls, ResetPrevious(c)
  PROVE  Inv'
<1> USE DEF Inv, ResetPrevious
<1>1. TypeOK'
  BY DEF TypeOK, ControlPC, GraphPtr, readerVars, publisherVars
<1>2. LockInv'
  BY DEF LockInv, Locked, TypeOK, publisherVars
<1>3. PreviousInv'
  BY DEF PreviousInv, TypeOK
<1>4. ActiveInv'
  BY DEF ActiveInv, TypeOK, publisherVars
<1>5. ReaderInv'
  BY DEF ReaderInv, TypeOK, readerVars, publisherVars
<1> QED
  BY <1>1, <1>2, <1>3, <1>4, <1>5, ControlCount

LEMMA UnlockStep ==
  ASSUME GraphSnapshotAssumption, Inv, NEW c \in Controls, UnlockControl(c)
  PROVE  Inv'
<1> USE DEF Inv, UnlockControl
<1>1. TypeOK'
  BY DEF TypeOK, ControlPC, readerVars
<1>2. LockInv'
  BY OneLocked DEF LockInv, Locked, TypeOK, GraphSnapshotAssumption
<1>3. PreviousInv'
  BY DEF PreviousInv, TypeOK
<1>4. ActiveInv'
  BY DEF ActiveInv, TypeOK
<1>5. ReaderInv'
  BY DEF ReaderInv, TypeOK, readerVars
<1> QED
  BY <1>1, <1>2, <1>3, <1>4, <1>5, ControlCount

-----------------------------------------------------------------------------
(* The audio threads.                                                       *)

LEMMA EnterStep ==
  ASSUME GraphSnapshotAssumption, Inv, NEW r \in Readers, EnterProcess(r)
  PROVE  Inv'
<1> USE DEF Inv, EnterProcess
<1>1. TypeOK'
  BY DEF TypeOK, ReaderPC, controlVars, publisherVars
<1>2. LockInv' /\ PreviousInv' /\ ActiveInv'
  BY DEF LockInv, PreviousInv, ActiveInv, Locked, controlVars, publisherVars
<1>3. ReaderInv'
  BY DEF ReaderInv, TypeOK, controlVars, publisherVars
<1>4. Inside' = Inside \union {r} /\ r \notin Inside
  BY DEF Inside, TypeOK
<1>5. CountInv'
  BY <1>4, InsideFinite, FS_AddElement DEF CountInv
<1> QED
  BY <1>1, <1>2, <1>3, <1>5

LEMMA LoadStep ==
  ASSUME GraphSnapshotAssumption, Inv, NEW r \in Readers, LoadActive(r)
  PROVE  Inv'
<1> USE DEF Inv, LoadActive
<1>1. TypeOK'
  BY DEF TypeOK, ReaderPC, controlVars, publisherVars
<1>2. LockInv' /\ PreviousInv' /\ ActiveInv'
  BY DEF LockInv, PreviousInv, ActiveInv, Locked, controlVars, publisherVars
<1>3. ReaderInv'
  BY DEF ReaderInv, TypeOK, controlVars, publisherVars
<1>4. Inside' = Inside
  BY DEF Inside, TypeOK
<1>5. CountInv'
  BY <1>4 DEF CountInv
<1> QED
  BY <1>1, <1>2, <1>3, <1>5

LEMMA LeaveStep ==
  ASSUME GraphSnapshotAssumption, Inv, NEW r \in Readers, LeaveProcess(r)
  PROVE  Inv'
<1> USE DEF Inv, LeaveProcess
<1>1. Inside' = Inside \ {r} /\ r \in Inside
  BY DEF Inside, TypeOK
<1>2. active_processors' = Cardinality(Inside') /\ active_processors' \in Nat
  <2>1. IsFiniteSet(Inside')
    BY <1>1, InsideFinite, FS_RemoveElement
  <2> QED
    BY <1>1, <2>1, InsideFinite, FS_RemoveElement, FS_CardinalityType DEF CountInv
<1>3. TypeOK'
  BY <1>2 DEF TypeOK, ReaderPC, GraphPtr, controlVars, publisherVars
<1>4. LockInv' /\ PreviousInv' /\ ActiveInv'
  BY DEF LockInv, PreviousInv, ActiveInv, Locked, controlVars, publisherVars
<1>5. ReaderInv'
  BY DEF ReaderInv, TypeOK, controlVars, publisherVars
<1> QED
  BY <1>2, <1>3, <1>4, <1>5 DEF CountInv

LEMMA StepInv == ASSUME GraphSnapshotAssumption, Inv, [Next]_vars PROVE Inv'
<1>1. ASSUME NEW c \in Controls, ControlStep(c) PROVE Inv'
  BY <1>1, CallerSteps, LockStep, MoveStep, StoreStep, DrainStep, ResetStep, UnlockStep
    DEF ControlStep
<1>2. ASSUME NEW r \in Readers, ReaderStep(r) PROVE Inv'
  BY <1>2, EnterStep, LoadStep, LeaveStep DEF ReaderStep
<1>3. ASSUME UNCHANGED vars PROVE Inv'
  <2>1. Inside' = Inside
    BY <1>3 DEF Inside, vars, readerVars
  <2> QED
    BY <1>3, <2>1 DEF Inv, TypeOK, LockInv, PreviousInv, CountInv, ActiveInv, ReaderInv, Locked,
      vars, publisherVars, controlVars, readerVars
<1> QED
  BY <1>1, <1>2, <1>3 DEF Next

-----------------------------------------------------------------------------
THEOREM InvHolds == Spec => []Inv
BY GraphSnapshotAssumption, InitInv, StepInv, PTL DEF Spec

\* Every variable keeps its type; in particular active_processors_, an
\* unsigned counter, is never decremented below 0.
THEOREM TypeCorrect == Spec => []TypeOK
<1>1. Inv => TypeOK
  BY DEF Inv
<1> QED
  BY <1>1, InvHolds, PTL

\* No audio thread runs a graph that has been deleted.
THEOREM UseAfterFreeFreedom == Spec => []NoUseAfterFree
<1>1. Inv => NoUseAfterFree
  <2> SUFFICES ASSUME Inv, NEW r \in Readers, reader_pc[r] = "using", reader_graph[r] # NoGraph
      PROVE  reader_graph[r] \in Live
    BY DEF NoUseAfterFree
  <2>1. active_graph = graph \/ \E c \in Controls : active_graph = previous[c]
    BY DEF Inv, ActiveInv
  <2>2. reader_graph[r] = graph \/ \E c \in Controls : reader_graph[r] = previous[c]
    BY <2>1 DEF Inv, ReaderInv
  <2> QED
    BY <2>2 DEF Live
<1> QED
  BY <1>1, InvHolds, PTL

\* When publish() leaves its spin, no audio thread runs the retired graph.
THEOREM PublishBarrier == Spec => []PublishIsBarrier
<1>1. Inv => PublishIsBarrier
  <2> SUFFICES ASSUME Inv, NEW c \in Controls, control_pc[c] = "reset",
                      NEW r \in Readers, reader_pc[r] = "using"
      PROVE  reader_graph[r] = graph
    BY DEF PublishIsBarrier
  <2>1. \A d \in Controls : control_pc[d] \notin {"store", "drain"}
    BY OneLocked, GraphSnapshotAssumption DEF Inv, Locked
  <2> QED
    BY <2>1 DEF Inv, ActiveInv, ReaderInv
<1> QED
  BY <1>1, InvHolds, PTL

\* current() never returns a graph that publish() has not yet made active.
THEOREM CurrentAgrees == Spec => []CurrentIsActive
<1>1. Inv => CurrentIsActive
  <2> SUFFICES ASSUME Inv,
                      control_lock = NoThread \/ \E c \in Controls : control_pc[c] = "copy"
      PROVE  graph = active_graph
    BY DEF CurrentIsActive
  <2>1. \A d \in Controls : control_pc[d] # "store"
    BY OneLocked, GraphSnapshotAssumption
      DEF Inv, LockInv, Locked, GraphSnapshotAssumption
  <2> QED
    BY <2>1 DEF Inv, ActiveInv
<1> QED
  BY <1>1, InvHolds, PTL
=============================================================================
