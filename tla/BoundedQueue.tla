---------------------------- MODULE BoundedQueue ----------------------------
(***************************************************************************)
(* What CircularBuffer promises (the unit tests of circular_buffer_test):  *)
(* a FIFO of at most cap elements; a push onto a full queue drops the      *)
(* oldest element, PopFront removes the oldest, Clear empties it.  The     *)
(* capacity is fixed when the queue is built.                              *)
(***************************************************************************)
EXTENDS Naturals, Sequences

CONSTANT Values
VARIABLES items, cap

Init == items = <<>> /\ cap \in Nat /\ cap > 0

PushBack(v) ==
  /\ items' = IF Len(items) = cap THEN Append(Tail(items), v)
                                  ELSE Append(items, v)
  /\ UNCHANGED cap

PopFront == items # <<>> /\ items' = Tail(items) /\ UNCHANGED cap

Clear == items' = <<>> /\ UNCHANGED cap

Next == (\E v \in Values : PushBack(v)) \/ PopFront \/ Clear

Spec == Init /\ [][Next]_<<items, cap>>

=============================================================================
