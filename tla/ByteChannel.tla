---------------------------- MODULE ByteChannel ----------------------------
(***************************************************************************)
(* What either direction of the JTAG UART promises: a bounded queue that   *)
(* hands over, in order and once each, the characters put into it.         *)
(* Character number i is the i-th one put in, counting from 0.             *)
(***************************************************************************)
EXTENDS Integers, Sequences

CONSTANT Capacity

VARIABLES queue, next

Init == queue = <<>> /\ next = 0

\* A writer puts in the next k characters.
Put(k) ==
    /\ Len(queue) + k <= Capacity
    /\ queue' = queue \o [d \in 1 .. k |-> next + d - 1]
    /\ next' = next + k

\* A reader takes the k oldest characters.
Take(k) ==
    /\ queue' = SubSeq(queue, k + 1, Len(queue))
    /\ UNCHANGED next

Next == \E k \in 1 .. Capacity : Put(k) \/ (k <= Len(queue) /\ Take(k))

Spec == Init /\ [][Next]_<<queue, next>>
=============================================================================
