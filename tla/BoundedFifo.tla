---------------------------- MODULE BoundedFifo ----------------------------
(***************************************************************************)
(* What a bounded ring promises its one producer and one consumer: a FIFO  *)
(* queue of at most Capacity payloads.  SpscRing is shown to implement it. *)
(***************************************************************************)
EXTENDS Naturals, Sequences

CONSTANTS Payload, Capacity

VARIABLE queue

Init == queue = << >>

Push(v) == /\ Len(queue) < Capacity
           /\ queue' = Append(queue, v)

Pop == /\ queue # << >>
       /\ queue' = Tail(queue)

Next == (\E v \in Payload : Push(v)) \/ Pop

Spec == Init /\ [][Next]_queue
=============================================================================
