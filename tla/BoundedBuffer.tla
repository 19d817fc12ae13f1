--------------------------- MODULE BoundedBuffer ---------------------------
(***************************************************************************)
(* What producer-consumer.h promises of a pc_queue_t: a FIFO buffer of     *)
(* fixed capacity.  pcq_enqueue adds an element once there is room for it, *)
(* pcq_dequeue removes the oldest element once there is one.  A call that  *)
(* cannot proceed sleeps, so an operation that is not possible is simply   *)
(* not enabled here.  The oldest element is the head of contents.          *)
(***************************************************************************)
EXTENDS Naturals, Sequences

CONSTANTS Elements,     \* what may be queued
          Capacity      \* pcq_capacity

VARIABLE contents

Init == contents = <<>>

Enqueue(e) == /\ Len(contents) < Capacity
              /\ contents' = Append(contents, e)

Dequeue == /\ contents # <<>>
           /\ contents' = Tail(contents)

Next == \/ \E e \in Elements : Enqueue(e)
        \/ Dequeue

Spec == Init /\ [][Next]_contents
============================================================================
