--------------------------------- MODULE Fifo --------------------------------
(***************************************************************************)
(* What an interrupt queue promises: a bounded first-in first-out queue.   *)
(***************************************************************************)
EXTENDS Integers, Sequences

CONSTANTS Byte, Capacity

VARIABLE queue

Init == queue = <<>>

Put(b) == Len(queue) < Capacity /\ queue' = Append(queue, b)
Get    == queue # <<>> /\ queue' = Tail(queue)

Next == Get \/ \E b \in Byte : Put(b)

Spec == Init /\ [][Next]_queue
=============================================================================
