----------------------------- MODULE ReadyQueue -----------------------------
(* What the scheduler's ready queue promises: a queue of thread slots from *)
(* which only the head leaves, and to which a slot is added only at the    *)
(* tail.  A step may do both, in either order, any number of them twice    *)
(* (preempt queues the interrupted thread, takes the next one and may put  *)
(* it back).                                                               *)
EXTENDS Naturals, Sequences

CONSTANT Slots, Capacity

VARIABLE queue

Init == queue = <<>>

Enqueue(q, slot) == IF Len(q) < Capacity THEN Append(q, slot) ELSE q

Add == \E slot \in Slots : queue' = Enqueue(queue, slot)
Take == queue # <<>> /\ queue' = Tail(queue)
TakeThenAdd == \E slot \in Slots : queue # <<>> /\ queue' = Enqueue(Tail(queue), slot)
Rotate == \E slot \in Slots :
            LET q == Enqueue(queue, slot)
            IN  queue' = Tail(q) \/ queue' = Enqueue(Tail(q), Head(q))

Next == Add \/ Take \/ TakeThenAdd \/ Rotate
Spec == Init /\ [][Next]_queue
=============================================================================
