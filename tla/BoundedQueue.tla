---------------------------- MODULE BoundedQueue ----------------------------
(***************************************************************************)
(* What the shared-memory statistics ring of Monitor promises its users: a *)
(* FIFO queue of statistics batches that holds at most Capacity of them,   *)
(* gives every batch to one taker, and may be emptied by a restart.        *)
(***************************************************************************)
EXTENDS Naturals, Sequences

CONSTANTS Items,      \* the batches that can be queued
          Capacity    \* how many fit

VARIABLE queue

TypeOK == queue \in Seq(Items)

Init == queue = << >>

Put(x) ==
    /\ Len(queue) < Capacity
    /\ queue' = Append(queue, x)

Take ==
    /\ queue # << >>
    /\ queue' = Tail(queue)

Reset == queue' = << >>

Next == (\E x \in Items : Put(x)) \/ Take \/ Reset

Spec == Init /\ [][Next]_queue
=============================================================================
