---------------------------- MODULE BlockChannel ----------------------------
(***************************************************************************)
(* What one direction of the shared memory between a driver and its        *)
(* session promises: a bounded first-in first-out queue of audio blocks.   *)
(* A block that does not fit is lost before it is queued, never after;     *)
(* a malformed one is taken out like any other, and heard as silence; and  *)
(* nothing but an empty or a closed queue is silent otherwise.             *)
(***************************************************************************)
EXTENDS Naturals, Sequences

CONSTANTS Capacity,   \* blocks the queue can hold
          Blocks,     \* what a slot can be filled with
          WellFormed, \* the blocks the consumer accepts
          Silence     \* the cleared destination buffer

VARIABLES queue,       \* blocks sent and not yet received
          open,        \* neither side has left
          destination  \* the consumer's buffer after its last pop

vars == <<queue, open, destination>>

Init ==
  /\ queue = <<>>
  /\ open = TRUE
  /\ destination = Silence

Send(block) ==
  /\ Len(queue) < Capacity
  /\ queue' = Append(queue, block)
  /\ UNCHANGED <<open, destination>>

Receive ==
  /\ queue # <<>>
  /\ destination' = IF Head(queue) \in WellFormed THEN Head(queue) ELSE Silence
  /\ queue' = Tail(queue)
  /\ UNCHANGED open

ReceiveNothing ==
  /\ queue = <<>> \/ open = FALSE
  /\ destination' = Silence
  /\ UNCHANGED <<queue, open>>

Close ==
  /\ open' = FALSE
  /\ UNCHANGED <<queue, destination>>

Next ==
  \/ \E block \in Blocks : Send(block)
  \/ Receive
  \/ ReceiveNothing
  \/ Close

Spec == Init /\ [][Next]_vars
=============================================================================
