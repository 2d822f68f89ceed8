-------------------------------- MODULE Fifo --------------------------------
(***************************************************************************)
(* What the queues of a KCP instance promise: a sequence that grows at its *)
(* end, shrinks at its front, and lets its elements be changed in place.   *)
(***************************************************************************)
EXTENDS Naturals, Sequences

CONSTANT Values

VARIABLE queue

Init == queue = <<>>

Push == \E v \in Values : queue' = Append(queue, v)
Take == \E n \in 1..Len(queue) : queue' = SubSeq(queue, n + 1, Len(queue))
Change == \E i \in DOMAIN queue, v \in Values : queue' = [queue EXCEPT ![i] = v]

Next == Push \/ Take \/ Change

Spec == Init /\ [][Next]_queue
=============================================================================
