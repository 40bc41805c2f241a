-------------------------------- MODULE Fifo --------------------------------
(***************************************************************************)
(* What queue.h promises its callers: a bounded first-in first-out buffer. *)
(* A successful queue_add appends, a successful queue_get hands out and    *)
(* removes the oldest value.  queue_destroy closes the queue and discards  *)
(* what is left.  Calls that return 0 change nothing.                      *)
(***************************************************************************)
EXTENDS Integers, Sequences

CONSTANTS
  Capacity,   \* how many values it holds at most
  Values      \* what may be put in

VARIABLES
  buffer,   \* the values in the queue, oldest first
  taken,    \* the value handed out last
  closed    \* queue_destroy has begun to discard

vars == <<buffer, taken, closed>>

Init == buffer = <<>> /\ taken = -1 /\ closed = FALSE

Put == /\ ~closed /\ Len(buffer) < Capacity
       /\ \E v \in Values : buffer' = Append(buffer, v)
       /\ UNCHANGED <<taken, closed>>

Take == /\ ~closed /\ buffer # <<>>
        /\ taken' = Head(buffer)
        /\ buffer' = Tail(buffer)
        /\ UNCHANGED closed

Close == /\ ~closed
         /\ closed' = TRUE
         /\ UNCHANGED <<buffer, taken>>

Discard == /\ closed /\ buffer # <<>>
           /\ buffer' = Tail(buffer)
           /\ UNCHANGED <<taken, closed>>

Next == Put \/ Take \/ Close \/ Discard

Spec == Init /\ [][Next]_vars
=============================================================================
