----------------------------- MODULE BoundedFifo -----------------------------
(***************************************************************************)
(* What osi/include/fixed_queue.h promises: a queue of at most Capacity    *)
(* elements, in which elements are inserted at the back, taken from the    *)
(* front or extracted from the middle, each in one atomic step.            *)
(***************************************************************************)
EXTENDS Naturals, Sequences

CONSTANTS Threads, Items, Capacity, Null

VARIABLES queue,   \* the elements, oldest first
          got      \* got[t]: the element t's current or last call removed

vars == <<queue, got>>

Init == queue = <<>> /\ got = [t \in Threads |-> Null]

Begin(t) ==
  /\ got' = [got EXCEPT ![t] = Null]
  /\ UNCHANGED queue

Insert(d) ==
  /\ Len(queue) < Capacity
  /\ queue' = Append(queue, d)
  /\ UNCHANGED got

Take(t) ==
  /\ queue # <<>>
  /\ got' = [got EXCEPT ![t] = Head(queue)]
  /\ queue' = Tail(queue)

\* The i-th element leaves; the others keep their order.
Without(q, i) ==
  [k \in 1..(Len(q) - 1) |-> IF k < i THEN q[k] ELSE q[k + 1]]

Extract(t, i) ==
  /\ got' = [got EXCEPT ![t] = queue[i]]
  /\ queue' = Without(queue, i)

Next == \/ \E t \in Threads : \/ Begin(t)
                              \/ Take(t)
                              \/ \E i \in 1..Len(queue) : Extract(t, i)
        \/ \E d \in Items : Insert(d)

Spec == Init /\ [][Next]_vars

=============================================================================
