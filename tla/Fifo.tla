-------------------------------- MODULE Fifo --------------------------------
(* What kernel/pipe.c promises to its readers and writers: a bounded queue *)
(* of bytes, and nothing in it is lost, repeated or reordered.             *)
EXTENDS Naturals, Sequences

CONSTANTS Byte, Capacity

VARIABLE q

Init == q = <<>>

Put(b) == Len(q) < Capacity /\ q' = Append(q, b)
Get == q # <<>> /\ q' = Tail(q)

Next == Get \/ \E b \in Byte : Put(b)
Spec == Init /\ [][Next]_q
=============================================================================
