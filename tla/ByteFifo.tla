----------------------------- MODULE ByteFifo -----------------------------
(* What a system buffer promises: a queue of at most Capacity bytes of a   *)
(* stream, appended in order and removed in order.  The bytes of the       *)
(* stream are numbered, so a byte is its own position.                     *)
EXTENDS Naturals, Sequences

CONSTANT Capacity

VARIABLES
    queue,      \* the bytes held
    next        \* the number of the next byte of the stream

fvars == <<queue, next>>

FInit ==
    /\ Len(queue) <= Capacity
    /\ queue = [i \in 1..Len(queue) |-> i - 1]
    /\ next = Len(queue)

Put(n) ==
    /\ Len(queue) + n <= Capacity
    /\ queue' = queue \o [i \in 1..n |-> next + i - 1]
    /\ next' = next + n

Take(n) ==
    /\ n <= Len(queue)
    /\ queue' = SubSeq(queue, n + 1, Len(queue))
    /\ UNCHANGED next

Clear == queue' = << >> /\ next' = 0

FNext == Clear \/ \E n \in 1..Capacity : Put(n) \/ Take(n)

FSpec == FInit /\ [][FNext]_fvars
===========================================================================
