---------------------------- MODULE BoundedFifo ----------------------------
(***************************************************************************)
(* What AggregationFrameRing and AggregationRecordRing promise their one   *)
(* producer and one consumer: a bounded first-in first-out queue on which  *)
(* every call takes effect at one instant.  A push is refused only by a    *)
(* full queue, a pop finds nothing only in an empty one, and a popped      *)
(* element is the oldest one, whole.                                       *)
(***************************************************************************)
EXTENDS Naturals, Sequences

CONSTANTS
  Capacity,   \* elements the queue holds
  Elements,   \* what can be queued
  Nothing     \* the result of a pop that found nothing

VARIABLES
  queue,      \* the elements accepted and not yet returned, oldest first
  pushed,     \* outcome of the last push: TRUE if it was accepted
  popped      \* result of the last pop

vars == <<queue, pushed, popped>>

Init ==
  /\ queue = <<>>
  /\ pushed = TRUE
  /\ popped = Nothing

Push(e) ==
  /\ Len(queue) < Capacity
  /\ queue' = Append(queue, e)
  /\ pushed' = TRUE
  /\ UNCHANGED popped

RefusePush ==
  /\ Len(queue) = Capacity
  /\ pushed' = FALSE
  /\ UNCHANGED <<queue, popped>>

Pop ==
  /\ queue # <<>>
  /\ popped' = Head(queue)
  /\ queue' = Tail(queue)
  /\ UNCHANGED pushed

FindEmpty ==
  /\ queue = <<>>
  /\ popped' = Nothing
  /\ UNCHANGED <<queue, pushed>>

Next ==
  \/ \E e \in Elements : Push(e)
  \/ RefusePush
  \/ Pop
  \/ FindEmpty

Spec == Init /\ [][Next]_vars

=============================================================================
