---------------------------- MODULE BoundedQueue ----------------------------
(***************************************************************************)
(* What a single-producer single-consumer queue of capacity Capacity       *)
(* promises: an enqueue appends one value at the back while the queue is   *)
(* not full, a dequeue removes the value at the front, and no value        *)
(* already in the queue changes.                                           *)
(***************************************************************************)
EXTENDS Naturals, Sequences

CONSTANTS Capacity, Values

VARIABLE queue   \* the values enqueued and not yet dequeued, oldest first

Init == queue = <<>>

Enqueue(v) ==
    /\ Len(queue) < Capacity
    /\ queue' = Append(queue, v)

Dequeue ==
    /\ queue # <<>>
    /\ queue' = Tail(queue)

Next == (\E v \in Values : Enqueue(v)) \/ Dequeue

Spec == Init /\ [][Next]_queue

=============================================================================
