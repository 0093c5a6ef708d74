----------------------------- MODULE BoundedQueue -----------------------------
(***************************************************************************)
(* What a hardware FIFO promises: a queue of at most Capacity items.  In a *)
(* cycle it may take one item, deliver the oldest one, or do both; a full  *)
(* queue takes none, even in a cycle in which it delivers.                 *)
(***************************************************************************)
EXTENDS Integers, Sequences

CONSTANTS Capacity, Data

VARIABLE queue

QInit == queue = << >>

Put(d) == Len(queue) < Capacity /\ queue' = Append(queue, d)

Get == queue # << >> /\ queue' = Tail(queue)

PutGet(d) == /\ queue # << >>
             /\ Len(queue) < Capacity
             /\ queue' = Append(Tail(queue), d)

Flush == queue' = << >>

QNext == (\E d \in Data : Put(d) \/ PutGet(d)) \/ Get \/ Flush

QSpec == QInit /\ [][QNext]_queue
===============================================================================
