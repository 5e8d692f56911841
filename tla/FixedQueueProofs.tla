-------------------------- MODULE FixedQueueProofs --------------------------
(***************************************************************************)
(* Proofs about osi/src/fixed_queue.cc for every finite set of threads,    *)
(* every set of items and every capacity.  The inductive invariant is the  *)
(* conservation of places and elements: each step of an operation moves    *)
(* one token between a semaphore, the list and the threads that are in the *)
(* middle of a call, so the sums cannot change.                            *)
(***************************************************************************)
EXTENDS FixedQueue, FiniteSetTheorems, SequenceTheorems, TLAPS

USE FixedQueueAssumption DEF FixedQueueAssumption

In(x, S) == IF x \in S THEN 1 ELSE 0

\* The number of threads at a set of labels is a natural number, zero exactly
\* when no thread is there.
LEMMA CountType ==
  ASSUME NEW S
  PROVE  /\ IsFiniteSet(At(S))
         /\ Cardinality(At(S)) \in Nat
         /\ Cardinality(At(S)) = 0 <=> At(S) = {}
<1>1. IsFiniteSet(At(S))
  BY FS_Subset DEF At
<1> QED
  BY <1>1, FS_CardinalityType, FS_EmptySet

\* When one thread moves from one label to another, the number of threads at a
\* set of labels changes by what that move contributes.
LEMMA CountMove ==
  ASSUME NEW S, NEW t \in Threads, NEW label,
         pc \in [Threads -> PCs], pc' = [pc EXCEPT ![t] = label]
  PROVE  Cardinality(At(S))' = Cardinality(At(S)) + In(label, S) - In(pc[t], S)
<1>1. IsFiniteSet(At(S)) /\ Cardinality(At(S)) \in Nat
  BY CountType
<1>2. CASE pc[t] \in S /\ label \in S
  <2>1. At(S)' = At(S)
    BY <1>2 DEF At
  <2> QED
    BY <1>1, <1>2, <2>1 DEF In
<1>3. CASE pc[t] \in S /\ label \notin S
  <2>1. At(S)' = At(S) \ {t} /\ t \in At(S)
    BY <1>3 DEF At
  <2>2. Cardinality(At(S) \ {t}) = Cardinality(At(S)) - 1
    BY <1>1, <2>1, FS_RemoveElement
  <2> QED
    BY <1>1, <1>3, <2>1, <2>2 DEF In
<1>4. CASE pc[t] \notin S /\ label \in S
  <2>1. At(S)' = At(S) \cup {t} /\ t \notin At(S)
    BY <1>4 DEF At
  <2>2. Cardinality(At(S) \cup {t}) = Cardinality(At(S)) + 1
    BY <1>1, <2>1, FS_AddElement
  <2> QED
    BY <1>1, <1>4, <2>1, <2>2 DEF In
<1>5. CASE pc[t] \notin S /\ label \notin S
  <2>1. At(S)' = At(S)
    BY <1>5 DEF At
  <2> QED
    BY <1>1, <1>5, <2>1 DEF In
<1> QED
  BY <1>2, <1>3, <1>4, <1>5

\* The four counts of the inductive invariant, after thread t went to |label|.
Counts(a, n, m, l) ==
  /\ Cardinality(At(Appending))' = Cardinality(At(Appending)) + a
  /\ Cardinality(At(Announcing))' = Cardinality(At(Announcing)) + n
  /\ Cardinality(At(Removing))' = Cardinality(At(Removing)) + m
  /\ Cardinality(At(Releasing))' = Cardinality(At(Releasing)) + l

\* How one thread's move changes the four counts together.
LEMMA CountsMove ==
  ASSUME TypeOK, NEW t \in Threads, NEW label, Goto(t, label)
  PROVE  Counts(In(label, Appending) - In(pc[t], Appending),
                In(label, Announcing) - In(pc[t], Announcing),
                In(label, Removing) - In(pc[t], Removing),
                In(label, Releasing) - In(pc[t], Releasing))
<1>1. pc \in [Threads -> PCs] /\ pc' = [pc EXCEPT ![t] = label]
  BY DEF TypeOK, Goto
<1>2. \A S : /\ Cardinality(At(S))' = Cardinality(At(S)) + In(label, S) - In(pc[t], S)
             /\ Cardinality(At(S)) \in Nat
  BY <1>1, CountMove, CountType
<1>3. \A S, x : In(x, S) \in Int
  BY DEF In
<1> QED
  BY <1>2, <1>3 DEF Counts

\* A thread that stays where it is leaves the counts alone.
LEMMA CountsStay ==
  ASSUME UNCHANGED pc PROVE Counts(0, 0, 0, 0)
<1>1. \A S : At(S)' = At(S) /\ Cardinality(At(S)) \in Nat
  BY CountType DEF At
<1> QED
  BY <1>1 DEF Counts

\* How a step changes the semaphores and the length of the list.
Deltas(de, dd, dl) ==
  /\ enqueue_sem' = enqueue_sem + de
  /\ dequeue_sem' = dequeue_sem + dd
  /\ Len(list)' = Len(list) + dl

\* A step that moves tokens so that both sums stay the same preserves them.
LEMMA BalanceStep ==
  ASSUME Balanced,
         NEW a \in Int, NEW n \in Int, NEW m \in Int, NEW l \in Int,
         NEW de \in Int, NEW dd \in Int, NEW dl \in Int,
         Counts(a, n, m, l),
         Deltas(de, dd, dl),
         de + a + dl + l = 0,
         dd + m + n = dl
  PROVE  PlacesBalance' /\ ElementsBalance'
<1>1. /\ Cardinality(At(Appending)) \in Nat
      /\ Cardinality(At(Announcing)) \in Nat
      /\ Cardinality(At(Removing)) \in Nat
      /\ Cardinality(At(Releasing)) \in Nat
  BY CountType
<1>2. Len(list) \in Nat
  BY LenProperties DEF Balanced, TypeOK
<1>3. enqueue_sem \in Nat /\ dequeue_sem \in Nat
  BY DEF Balanced, TypeOK
<1>4. PICK es \in Nat, ds \in Nat, len \in Nat, ap \in Nat, an \in Nat,
           rm \in Nat, rl \in Nat :
        /\ es = enqueue_sem /\ ds = dequeue_sem /\ len = Len(list)
        /\ ap = Cardinality(At(Appending)) /\ an = Cardinality(At(Announcing))
        /\ rm = Cardinality(At(Removing)) /\ rl = Cardinality(At(Releasing))
  BY <1>1, <1>2, <1>3, Zenon
<1>5. es + ap + len + rl = Capacity /\ ds + rm + an = len
  BY <1>4, Zenon DEF Balanced, PlacesBalance, ElementsBalance
<1>6. /\ (es + de) + (ap + a) + (len + dl) + (rl + l) = Capacity
      /\ (ds + dd) + (rm + m) + (an + n) = len + dl
  BY <1>5
<1> QED
  BY <1>4, <1>6, Zenon DEF PlacesBalance, ElementsBalance, Counts, Deltas

\* list_remove of one element leaves a list that is one shorter.
LEMMA WithoutProperties ==
  ASSUME NEW q \in Seq(Items), NEW i \in 1..Len(q)
  PROVE  Without(q, i) \in Seq(Items) /\ Len(Without(q, i)) = Len(q) - 1
<1>1. Len(q) \in Nat /\ q \in [1..Len(q) -> Items]
  BY LenProperties
<1>2. Len(q) - 1 \in Nat
  BY <1>1
<1>3. Without(q, i) \in [1..(Len(q) - 1) -> Items]
  BY <1>1, <1>2 DEF Without
<1> QED
  BY <1>2, <1>3

\* The balances imply what list_front CHECKs: a thread that holds a dequeue
\* token finds an element, and the list never outgrows its capacity.
LEMMA BalanceSuffices ==
  ASSUME Balanced
  PROVE  /\ WithinCapacity
         /\ FrontExists
         /\ \A t \in Threads : pc[t] \in Removing => list # <<>>
         /\ \A t \in Threads : pc[t] \in Appending => Len(list) < Capacity
<1>1. \A S : /\ Cardinality(At(S)) \in Nat
             /\ (\E t \in Threads : pc[t] \in S) => Cardinality(At(S)) > 0
  <2>1. SUFFICES ASSUME NEW S
                 PROVE  /\ Cardinality(At(S)) \in Nat
                        /\ (\E t \in Threads : pc[t] \in S) => Cardinality(At(S)) > 0
    OBVIOUS
  <2>2. /\ Cardinality(At(S)) \in Nat
        /\ Cardinality(At(S)) = 0 <=> At(S) = {}
    BY CountType
  <2>3. (\E t \in Threads : pc[t] \in S) => At(S) # {}
    BY DEF At
  <2> QED
    BY <2>2, <2>3
<1>2. Len(list) \in Nat
  BY LenProperties DEF Balanced, TypeOK
<1>3. PICK es \in Nat, ds \in Nat, len \in Nat, ap \in Nat, an \in Nat,
           rm \in Nat, rl \in Nat :
        /\ es = enqueue_sem /\ ds = dequeue_sem /\ len = Len(list)
        /\ ap = Cardinality(At(Appending)) /\ an = Cardinality(At(Announcing))
        /\ rm = Cardinality(At(Removing)) /\ rl = Cardinality(At(Releasing))
  BY <1>1, <1>2, Zenon DEF Balanced, TypeOK
<1>4. es + ap + len + rl = Capacity /\ ds + rm + an = len
  BY <1>3, Zenon DEF Balanced, PlacesBalance, ElementsBalance
<1>5. /\ len <= Capacity
      /\ rm > 0 => len # 0
      /\ ap > 0 => len < Capacity
  BY <1>4
<1>6. Len(list) # 0 => list # <<>>
  BY EmptySeq, Zenon
<1>7. /\ \A t \in Threads : pc[t] \in Removing => list # <<>>
      /\ \A t \in Threads : pc[t] \in Appending => Len(list) < Capacity
      /\ Len(list) <= Capacity
  BY <1>1, <1>3, <1>5, <1>6, Zenon
<1> QED
  BY <1>7 DEF WithinCapacity, FrontExists, At

\* An empty queue with all places free satisfies the inductive invariant.
LEMMA InitIInv == Init => IInv
<1> SUFFICES ASSUME Init PROVE IInv
  OBVIOUS
<1>1. TypeOK
  BY EmptySeq DEF Init, TypeOK, PCs
<1>2. \A S : "idle" \notin S => Cardinality(At(S)) = 0
  BY CountType DEF Init, At
<1>3. /\ Cardinality(At(Appending)) = 0 /\ Cardinality(At(Announcing)) = 0
      /\ Cardinality(At(Removing)) = 0 /\ Cardinality(At(Releasing)) = 0
  BY <1>2 DEF Appending, Announcing, Removing, Releasing
<1>4. Len(list) = 0
  BY EmptySeq DEF Init
<1>5. PlacesBalance /\ ElementsBalance
  BY <1>3, <1>4 DEF Init, PlacesBalance, ElementsBalance
<1> QED
  BY <1>1, <1>5 DEF Init, IInv, Balanced, OneSleeper

\* A token and the mutex: one element leaves the list.
LEMMA RemoveDataBalanced ==
  ASSUME Balanced, UNCHANGED <<use, enqueue_sem, data>>, calls' \in Nat,
         NEW t \in Threads, pc[t] \in {"idle", "rem_wait"},
         NEW d, RemoveData(t, d)
  PROVE  Balanced'
<1> USE DEF Appending, Announcing, Removing, Releasing, In
<1>0. TypeOK /\ Len(list) \in Nat
  BY LenProperties DEF Balanced, TypeOK
<1>1. PICK i \in 1..Len(list) :
        list' = Without(list, i) /\ ret' = [ret EXCEPT ![t] = list[i]]
  BY DEF RemoveData
<1>2. dequeue_sem > 0 /\ dequeue_sem' = dequeue_sem - 1 /\ Goto(t, "deq_post")
  BY DEF RemoveData
<1>3. list' \in Seq(Items) /\ Len(list)' = Len(list) - 1 /\ list[i] \in Items
  BY <1>0, <1>1, WithoutProperties, LenProperties DEF TypeOK
<1>4. Deltas(0, -1, -1)
  BY <1>0, <1>2, <1>3 DEF TypeOK, Deltas
<1>5. TypeOK'
  BY <1>0, <1>1, <1>2, <1>3 DEF TypeOK, Goto, PCs
<1>6. Counts(0, 0, 0, 1)
  BY <1>0, <1>2, CountsMove
<1>7. PlacesBalance' /\ ElementsBalance'
  BY <1>4, <1>6, BalanceStep
<1> QED
  BY <1>0, <1>2, <1>5, <1>7 DEF Balanced, TypeOK, Goto

\* Every step of a call preserves the balances.
LEMMA StepBalanced ==
  ASSUME Balanced, NEW t \in Threads, Step(t), UNCHANGED use
  PROVE  Balanced'
<1> USE DEF Appending, Announcing, Removing, Releasing, In
<1>0. TypeOK /\ Len(list) \in Nat
  BY LenProperties DEF Balanced, TypeOK
<1>1. CASE EnqueueWait(t)
  <2>2. list' \in Seq(Items) /\ Len(list)' = Len(list) + 0
    BY <1>0, <1>1 DEF TypeOK, EnqueueWait
  <2>3. TypeOK'
    BY <1>0, <1>1, <2>2 DEF TypeOK, EnqueueWait, Goto, PCs
  <2>4. Counts(1, 0, 0, 0)
    BY <1>0, <1>1, CountsMove DEF EnqueueWait
  <2>5. Deltas(-1, 0, 0)
    BY <1>0, <1>1, <2>2 DEF EnqueueWait, TypeOK, Deltas
  <2>6. PlacesBalance' /\ ElementsBalance'
    BY <2>4, <2>5, BalanceStep
  <2> QED
    BY <1>0, <1>1, <2>3, <2>6 DEF Balanced, TypeOK, EnqueueWait, Goto
<1>2. CASE EnqueueAppend(t)
  <2>1. data[t] \in Items
    BY <1>2 DEF Balanced, EnqueueAppend
  <2>2. list' \in Seq(Items) /\ Len(list)' = Len(list) + 1
    BY <1>0, <1>2, <2>1, AppendProperties DEF TypeOK, EnqueueAppend
  <2>3. TypeOK'
    BY <1>0, <1>2, <2>2 DEF TypeOK, EnqueueAppend, Goto, PCs
  <2>4. Counts(-1, 1, 0, 0)
    BY <1>0, <1>2, CountsMove DEF EnqueueAppend
  <2>5. Deltas(0, 0, 1)
    BY <1>0, <1>2, <2>2 DEF EnqueueAppend, TypeOK, Deltas
  <2>6. PlacesBalance' /\ ElementsBalance'
    BY <2>4, <2>5, BalanceStep
  <2> QED
    BY <1>0, <1>2, <2>3, <2>6 DEF Balanced, TypeOK, EnqueueAppend, Goto
<1>3. CASE EnqueuePost(t)
  <2>2. list' \in Seq(Items) /\ Len(list)' = Len(list) + 0
    BY <1>0, <1>3 DEF TypeOK, EnqueuePost
  <2>3. TypeOK'
    BY <1>0, <1>3, <2>2 DEF TypeOK, EnqueuePost, Goto, PCs
  <2>4. Counts(0, -1, 0, 0)
    BY <1>0, <1>3, CountsMove DEF EnqueuePost
  <2>5. Deltas(0, 1, 0)
    BY <1>0, <1>3, <2>2 DEF EnqueuePost, TypeOK, Deltas
  <2>6. PlacesBalance' /\ ElementsBalance'
    BY <2>4, <2>5, BalanceStep
  <2> QED
    BY <1>0, <1>3, <2>3, <2>6 DEF Balanced, TypeOK, EnqueuePost, Goto
<1>4. CASE DequeueWait(t)
  <2>2. list' \in Seq(Items) /\ Len(list)' = Len(list) + 0
    BY <1>0, <1>4 DEF TypeOK, DequeueWait
  <2>3. TypeOK'
    BY <1>0, <1>4, <2>2 DEF TypeOK, DequeueWait, Goto, PCs
  <2>4. Counts(0, 0, 1, 0)
    BY <1>0, <1>4, CountsMove DEF DequeueWait
  <2>5. Deltas(0, -1, 0)
    BY <1>0, <1>4, <2>2 DEF DequeueWait, TypeOK, Deltas
  <2>6. PlacesBalance' /\ ElementsBalance'
    BY <2>4, <2>5, BalanceStep
  <2> QED
    BY <1>0, <1>4, <2>3, <2>6 DEF Balanced, TypeOK, DequeueWait, Goto
<1>5. CASE DequeueRemove(t)
  <2>1. list # <<>>
    BY <1>5, BalanceSuffices DEF DequeueRemove
  <2>2. /\ list' \in Seq(Items) /\ Len(list)' = Len(list) + (-1)
        /\ Head(list) \in Items
    BY <1>0, <1>5, <2>1, HeadTailProperties DEF TypeOK, DequeueRemove
  <2>3. TypeOK'
    BY <1>0, <1>5, <2>2 DEF TypeOK, DequeueRemove, Goto, PCs
  <2>4. Counts(0, 0, -1, 1)
    BY <1>0, <1>5, CountsMove DEF DequeueRemove
  <2>5. Deltas(0, 0, -1)
    BY <1>0, <1>5, <2>2 DEF DequeueRemove, TypeOK, Deltas
  <2>6. PlacesBalance' /\ ElementsBalance'
    BY <2>4, <2>5, BalanceStep
  <2> QED
    BY <1>0, <1>5, <2>3, <2>6 DEF Balanced, TypeOK, DequeueRemove, Goto
<1>6. CASE DequeuePost(t)
  <2>2. list' \in Seq(Items) /\ Len(list)' = Len(list) + 0
    BY <1>0, <1>6 DEF TypeOK, DequeuePost
  <2>3. TypeOK'
    BY <1>0, <1>6, <2>2 DEF TypeOK, DequeuePost, Goto, PCs
  <2>4. Counts(0, 0, 0, -1)
    BY <1>0, <1>6, CountsMove DEF DequeuePost
  <2>5. Deltas(1, 0, 0)
    BY <1>0, <1>6, <2>2 DEF DequeuePost, TypeOK, Deltas
  <2>6. PlacesBalance' /\ ElementsBalance'
    BY <2>4, <2>5, BalanceStep
  <2> QED
    BY <1>0, <1>6, <2>3, <2>6 DEF Balanced, TypeOK, DequeuePost, Goto
<1>7. CASE FlushRemove(t)
  <2>1. list # <<>>
    BY <1>7, BalanceSuffices DEF FlushRemove
  <2>2. /\ list' \in Seq(Items) /\ Len(list)' = Len(list) + (-1)
        /\ Head(list) \in Items
    BY <1>0, <1>7, <2>1, HeadTailProperties DEF TypeOK, FlushRemove
  <2>3. TypeOK'
    BY <1>0, <1>7, <2>2 DEF TypeOK, FlushRemove, Goto, PCs
  <2>4. Counts(0, 0, -1, 1)
    BY <1>0, <1>7, CountsMove DEF FlushRemove
  <2>5. Deltas(0, 0, -1)
    BY <1>0, <1>7, <2>2 DEF FlushRemove, TypeOK, Deltas
  <2>6. PlacesBalance' /\ ElementsBalance'
    BY <2>4, <2>5, BalanceStep
  <2> QED
    BY <1>0, <1>7, <2>3, <2>6 DEF Balanced, TypeOK, FlushRemove, Goto
<1>8. CASE FlushPost(t)
  <2>2. list' \in Seq(Items) /\ Len(list)' = Len(list) + 0
    BY <1>0, <1>8 DEF TypeOK, FlushPost
  <2>3. TypeOK'
    BY <1>0, <1>8, <2>2 DEF TypeOK, FlushPost, Goto, PCs
  <2>4. Counts(0, 0, 0, -1)
    BY <1>0, <1>8, CountsMove DEF FlushPost
  <2>5. Deltas(1, 0, 0)
    BY <1>0, <1>8, <2>2 DEF FlushPost, TypeOK, Deltas
  <2>6. PlacesBalance' /\ ElementsBalance'
    BY <2>4, <2>5, BalanceStep
  <2> QED
    BY <1>0, <1>8, <2>3, <2>6 DEF Balanced, TypeOK, FlushPost, Goto
<1>9. CASE FlushCheck(t)
  <2>1. PICK label \in {"idle", "flush_try"} : Goto(t, label)
    BY <1>9 DEF FlushCheck
  <2>2. pc[t] = "flush_check" /\ UNCHANGED <<list, enqueue_sem, dequeue_sem, data, ret, calls>>
    BY <1>9 DEF FlushCheck
  <2>3. TypeOK'
    BY <1>0, <2>1, <2>2 DEF TypeOK, Goto, PCs
  <2>4. Counts(0, 0, 0, 0)
    BY <1>0, <2>1, <2>2, CountsMove
  <2>5. Deltas(0, 0, 0)
    BY <1>0, <2>2 DEF TypeOK, Deltas
  <2>6. PlacesBalance' /\ ElementsBalance'
    BY <2>4, <2>5, BalanceStep
  <2> QED
    BY <1>0, <2>1, <2>2, <2>3, <2>6 DEF Balanced, TypeOK, Goto
<1>10. CASE FlushTry(t) /\ dequeue_sem > 0
  <2>1. /\ pc[t] = "flush_try" /\ Goto(t, "flush_lock")
        /\ dequeue_sem' = dequeue_sem + (-1)
        /\ UNCHANGED <<list, enqueue_sem, data, ret, calls>>
    BY <1>0, <1>10 DEF FlushTry, TypeOK
  <2>2. Deltas(0, -1, 0)
    BY <1>0, <2>1 DEF TypeOK, Deltas
  <2>3. TypeOK'
    BY <1>0, <1>10, <2>1 DEF TypeOK, Goto, PCs
  <2>4. Counts(0, 0, 1, 0)
    BY <1>0, <2>1, CountsMove
  <2>5. PlacesBalance' /\ ElementsBalance'
    BY <2>2, <2>4, BalanceStep
  <2> QED
    BY <1>0, <2>1, <2>3, <2>5 DEF Balanced, TypeOK, Goto
<1>11. CASE FlushTry(t) /\ ~(dequeue_sem > 0)
  <2>1. PICK label \in {"flush_check", "flush_wait"} : Goto(t, label)
    BY <1>11 DEF FlushTry
  <2>2. /\ pc[t] = "flush_try" /\ (ret' = ret \/ ret' = [ret EXCEPT ![t] = Null])
        /\ UNCHANGED <<list, enqueue_sem, dequeue_sem, data, calls>>
    BY <1>0, <1>11 DEF FlushTry, TypeOK
  <2>3. Deltas(0, 0, 0)
    BY <1>0, <2>2 DEF TypeOK, Deltas
  <2>4. TypeOK'
    BY <1>0, <2>1, <2>2 DEF TypeOK, Goto, PCs, Blocking
  <2>5. Counts(0, 0, 0, 0)
    BY <1>0, <2>1, <2>2, CountsMove
  <2>6. PlacesBalance' /\ ElementsBalance'
    BY <2>3, <2>5, BalanceStep
  <2> QED
    BY <1>0, <2>1, <2>2, <2>4, <2>6 DEF Balanced, TypeOK, Goto
<1>12. CASE FlushWakes(t)
  <2>1. /\ pc[t] = "flush_wait" /\ Goto(t, "flush_lock")
        /\ dequeue_sem > 0 /\ dequeue_sem' = dequeue_sem + (-1)
        /\ UNCHANGED <<list, enqueue_sem, data, ret, calls>>
    BY <1>0, <1>12 DEF FlushWakes, TypeOK
  <2>2. Deltas(0, -1, 0)
    BY <1>0, <2>1 DEF TypeOK, Deltas
  <2>3. TypeOK'
    BY <1>0, <2>1 DEF TypeOK, Goto, PCs
  <2>4. Counts(0, 0, 1, 0)
    BY <1>0, <2>1, CountsMove
  <2>5. PlacesBalance' /\ ElementsBalance'
    BY <2>2, <2>4, BalanceStep
  <2> QED
    BY <1>0, <2>1, <2>3, <2>5 DEF Balanced, TypeOK, Goto
<1>13. CASE TryRemoveWakes(t)
  <2>1. calls' \in Nat
    BY <1>0, <1>13 DEF TryRemoveWakes, TypeOK
  <2> QED
    BY <1>13, <2>1, RemoveDataBalanced DEF TryRemoveWakes
<1> QED
  BY <1>1, <1>2, <1>3, <1>4, <1>5, <1>6, <1>7, <1>8, <1>9, <1>10, <1>11, <1>12, <1>13 DEF Step

\* Beginning a call preserves the balances; the try_ operations
\* take their token in the same step.
LEMMA BeginBalanced ==
  ASSUME Balanced, NEW t \in Threads, Begin(t), UNCHANGED use
  PROVE  Balanced'
<1> USE DEF Appending, Announcing, Removing, Releasing, In
<1>0. TypeOK /\ Len(list) \in Nat
  BY LenProperties DEF Balanced, TypeOK
<1>1. ASSUME NEW d \in Items \cup {Null}, NEW label \in {"enq_wait", "deq_wait", "rem_wait", "flush_check"},
             Call(t), Goto(t, label), data' = [data EXCEPT ![t] = d],
             label = "enq_wait" => d \in Items,
             UNCHANGED <<list, enqueue_sem, dequeue_sem>>
      PROVE  Balanced'
  <2>1. TypeOK'
    BY <1>0, <1>1 DEF TypeOK, Goto, Call, PCs, Blocking
  <2>2. Counts(0, 0, 0, 0)
    BY <1>0, <1>1, CountsMove DEF Call
  <2>3. Deltas(0, 0, 0)
    BY <1>0, <1>1 DEF TypeOK, Deltas
  <2>4. PlacesBalance' /\ ElementsBalance'
    BY <2>2, <2>3, BalanceStep
  <2> QED
    BY <1>0, <1>1, <2>1, <2>4 DEF Balanced, TypeOK, Goto, Call
<1>2. ASSUME Call(t), UNCHANGED <<list, enqueue_sem, dequeue_sem, pc, data>>
      PROVE  Balanced'
  <2>1. TypeOK'
    BY <1>0, <1>2 DEF TypeOK, Call
  <2>2. Counts(0, 0, 0, 0)
    BY <1>2, CountsStay
  <2>3. Deltas(0, 0, 0)
    BY <1>0, <1>2 DEF TypeOK, Deltas
  <2>4. PlacesBalance' /\ ElementsBalance'
    BY <2>2, <2>3, BalanceStep
  <2> QED
    BY <1>0, <1>2, <2>1, <2>4 DEF Balanced, TypeOK
<1>3. ASSUME NEW d \in Items, Enqueue(t, d) PROVE Balanced'
  BY <1>1, <1>3 DEF Enqueue
<1>4. ASSUME NEW d \in Items, TryEnqueue(t, d) PROVE Balanced'
  <2>1. CASE enqueue_sem > 0
    <3>1. /\ Call(t) /\ Goto(t, "enq_lock") /\ data' = [data EXCEPT ![t] = d]
          /\ enqueue_sem' = enqueue_sem + (-1)
          /\ UNCHANGED <<list, dequeue_sem>>
      BY <1>0, <1>4, <2>1 DEF TryEnqueue, TypeOK
    <3>2. TypeOK' /\ Deltas(-1, 0, 0)
      BY <1>0, <2>1, <3>1 DEF TypeOK, Goto, Call, PCs, Deltas
    <3>3. Counts(1, 0, 0, 0)
      BY <1>0, <3>1, CountsMove DEF Call
    <3>4. PlacesBalance' /\ ElementsBalance'
      BY <3>2, <3>3, BalanceStep
    <3> QED
      BY <1>0, <3>1, <3>2, <3>4 DEF Balanced, TypeOK, Goto, Call
  <2>2. CASE ~(enqueue_sem > 0)
    BY <1>1, <1>2, <1>4, <2>2 DEF TryEnqueue
  <2> QED
    BY <2>1, <2>2
<1>5. ASSUME NEW d \in Items, TryRemove(t, d) PROVE Balanced'
  <2>1. CASE ret' = [ret EXCEPT ![t] = Null] /\ UNCHANGED <<list, dequeue_sem, pc, data>>
    BY <1>2, <1>5, <2>1 DEF TryRemove, Call
  <2>2. CASE RemoveData(t, d) /\ UNCHANGED data
    <3>1. calls' \in Nat
      BY <1>0, <1>5 DEF TryRemove, TypeOK
    <3> QED
      BY <1>5, <2>2, <3>1, RemoveDataBalanced DEF TryRemove
  <2>3. CASE /\ ret' = [ret EXCEPT ![t] = Null] /\ Goto(t, "rem_wait")
             /\ data' = [data EXCEPT ![t] = d] /\ UNCHANGED <<list, dequeue_sem>>
    BY <1>1, <1>5, <2>3 DEF TryRemove, Call
  <2> QED
    BY <1>5, <2>1, <2>2, <2>3 DEF TryRemove
<1>6. CASE Dequeue(t)
  <2>1. data' = [data EXCEPT ![t] = data[t]] /\ data[t] \in Items \cup {Null}
    BY <1>0, <1>6 DEF Dequeue, TypeOK
  <2> QED
    BY <1>1, <1>6, <2>1 DEF Dequeue
<1>7. CASE TryDequeue(t)
  <2>3. data \in [Threads -> Items \cup {Null}]
    BY <1>0 DEF TypeOK
  <2>1. CASE TryDequeueFails(t)
    BY <1>2, <2>1 DEF TryDequeueFails
  <2>2. CASE /\ Call(t) /\ dequeue_sem > 0 /\ dequeue_sem' = dequeue_sem - 1
             /\ Goto(t, "deq_lock") /\ UNCHANGED <<list, enqueue_sem, data>>
    <3>1. Deltas(0, -1, 0)
      BY <1>0, <2>2 DEF TypeOK, Deltas
    <3>2. TypeOK'
      BY <1>0, <2>2 DEF TypeOK, Goto, Call, PCs
    <3>3. Counts(0, 0, 1, 0)
      BY <1>0, <2>2, CountsMove DEF Call
    <3>4. PlacesBalance' /\ ElementsBalance'
      BY <3>1, <3>3, BalanceStep
    <3> QED
      BY <1>0, <2>2, <3>2, <3>4 DEF Balanced, TypeOK, Goto, Call
  <2> QED
    BY <1>1, <1>7, <2>1, <2>2, <2>3 DEF TryDequeue
<1>8. CASE Flush(t)
  <2>1. data' = [data EXCEPT ![t] = data[t]] /\ data[t] \in Items \cup {Null}
    BY <1>0, <1>8 DEF Flush, TypeOK
  <2> QED
    BY <1>1, <1>8, <2>1 DEF Flush
<1> QED
  BY <1>3, <1>4, <1>5, <1>6, <1>7, <1>8 DEF Begin

\* The mutex keeps the list as the sleeping fixed_queue_try_remove_from_queue saw it.
LEMMA SleeperStays ==
  ASSUME IInv, NEW t \in Threads, Begin(t) \/ Step(t)
  PROVE  OneSleeper'
<1> USE DEF IInv, Balanced, TypeOK
<1>1. CASE /\ MutexFree /\ pc' = pc
  BY <1>1 DEF MutexFree, OneSleeper, At
<1>2. ASSUME MutexFree, NEW label, label # "rem_wait", Goto(t, label)
      PROVE  OneSleeper'
  BY <1>2 DEF MutexFree, OneSleeper, At, Goto
<1>3. ASSUME MutexFree, NEW d \in Items, Contains(list, d), Goto(t, "rem_wait"),
             data' = [data EXCEPT ![t] = d], UNCHANGED list
      PROVE  OneSleeper'
  BY <1>3 DEF MutexFree, OneSleeper, At, Goto, Contains
<1>4. ASSUME UNCHANGED list, NEW label, label # "rem_wait", Goto(t, label), pc[t] # "rem_wait",
             \E d : data' = [data EXCEPT ![t] = d]
      PROVE  OneSleeper'
  <2>1. At({"rem_wait"})' = At({"rem_wait"})
    BY <1>4 DEF At, Goto
  <2> QED
    BY <1>4, <2>1 DEF OneSleeper, Goto
<1>5. ASSUME UNCHANGED <<list, pc, data>> PROVE OneSleeper'
  BY <1>5 DEF OneSleeper, At
<1>6. data = [data EXCEPT ![t] = data[t]]
  OBVIOUS
<1>7. CASE TryRemoveWakes(t)
  BY <1>7 DEF TryRemoveWakes, RemoveData, Goto, OneSleeper, At
<1>8. CASE Step(t) /\ ~TryRemoveWakes(t)
  <2>1. CASE EnqueueAppend(t)
    BY <1>2, <2>1 DEF EnqueueAppend
  <2>2. CASE DequeueRemove(t)
    BY <1>2, <2>2 DEF DequeueRemove
  <2>3. CASE FlushRemove(t)
    BY <1>2, <2>3 DEF FlushRemove
  <2>4. CASE FlushCheck(t)
    BY <1>2, <2>4 DEF FlushCheck
  <2>5. CASE FlushTry(t)
    BY <1>4, <1>6, <2>5 DEF FlushTry
  <2>6. CASE FlushPost(t) \/ FlushWakes(t) \/ DequeueWait(t) \/ DequeuePost(t)
    BY <1>4, <1>6, <2>6 DEF FlushPost, FlushWakes, DequeueWait, DequeuePost
  <2>7. CASE EnqueueWait(t) \/ EnqueuePost(t)
    BY <1>4, <1>6, <2>7 DEF EnqueueWait, EnqueuePost
  <2> QED
    BY <1>8, <2>1, <2>2, <2>3, <2>4, <2>5, <2>6, <2>7 DEF Step
<1>9. CASE Begin(t)
  <2>1. ASSUME NEW d \in Items, Enqueue(t, d) PROVE OneSleeper'
    BY <1>4, <2>1 DEF Enqueue, Call
  <2>2. ASSUME NEW d \in Items, TryEnqueue(t, d) PROVE OneSleeper'
    BY <1>4, <1>5, <1>6, <2>2 DEF TryEnqueue, Call
  <2>3. ASSUME NEW d \in Items, TryRemove(t, d) PROVE OneSleeper'
    <3>1. MutexFree
      BY <2>3 DEF TryRemove
    <3>2. CASE RemoveData(t, d)
      BY <1>2, <3>1, <3>2 DEF RemoveData
    <3> QED
      BY <1>1, <1>3, <2>3, <3>1, <3>2 DEF TryRemove
  <2>4. CASE Dequeue(t) \/ Flush(t)
    BY <1>4, <1>6, <2>4 DEF Dequeue, Flush, Call
  <2>5. CASE TryDequeue(t)
    BY <1>4, <1>5, <1>6, <2>5 DEF TryDequeue, TryDequeueFails, Call
  <2> QED
    BY <1>9, <2>1, <2>2, <2>3, <2>4, <2>5 DEF Begin
<1> QED
  BY <1>7, <1>8, <1>9

\* The balances hold in every reachable state, for any number of threads, any
\* capacity and any sequence of calls.
THEOREM QueueInvariant == Spec => []IInv
<1>1. IInv /\ [Next]_vars => IInv'
  <2> SUFFICES ASSUME IInv, [Next]_vars PROVE IInv'
    OBVIOUS
  <2>1. CASE Next
    BY <2>1, StepBalanced, BeginBalanced, SleeperStays DEF Next, IInv
  <2>2. CASE UNCHANGED vars
    <3>1. \A S : At(S)' = At(S)
      BY <2>2 DEF At, vars
    <3> QED
      BY <2>2, <3>1 DEF vars, IInv, Balanced, TypeOK, PlacesBalance, ElementsBalance, OneSleeper
  <2> QED
    BY <2>1, <2>2
<1> QED
  BY InitIInv, <1>1, PTL DEF Spec

\* fixed_queue.cc never calls list_front on an empty list and never holds more
\* than |capacity| elements.
THEOREM QueueSafety == Spec => [](FrontExists /\ WithinCapacity)
<1>1. IInv => FrontExists /\ WithinCapacity
  BY BalanceSuffices DEF IInv
<1> QED
  BY <1>1, QueueInvariant, PTL

\* Once every call has returned or blocked, the semaphores count exactly the
\* elements and the free places, so no caller is blocked in vain.
THEOREM QueueNoLostWakeup == Spec => []NoLostWakeup
<1>1. IInv => NoLostWakeup
  <2> SUFFICES ASSUME IInv, At({"idle"} \cup Blocking) = Threads
               PROVE  /\ list # <<>> => dequeue_sem > 0
                      /\ Len(list) # Capacity => enqueue_sem > 0
    BY DEF NoLostWakeup
  <2>1. /\ At(Appending) = {} /\ At(Announcing) = {}
        /\ At(Removing) = {} /\ At(Releasing) = {}
    BY DEF At, Blocking, Appending, Announcing, Removing, Releasing
  <2>2. /\ Cardinality(At(Appending)) = 0 /\ Cardinality(At(Announcing)) = 0
        /\ Cardinality(At(Removing)) = 0 /\ Cardinality(At(Releasing)) = 0
    BY <2>1, FS_EmptySet, Zenon
  <2>3. list \in Seq(Items) /\ enqueue_sem \in Nat /\ dequeue_sem \in Nat
    BY DEF IInv, Balanced, TypeOK
  <2>4. /\ Len(list) \in Nat
        /\ list # <<>> => Len(list) # 0
    BY <2>3, LenProperties, EmptySeq
  <2>5. PICK es \in Nat, ds \in Nat, len \in Nat :
          es = enqueue_sem /\ ds = dequeue_sem /\ len = Len(list)
    BY <2>3, <2>4, Zenon
  <2>6. es + 0 + len + 0 = Capacity /\ ds + 0 + 0 = len
    BY <2>2, <2>5, Zenon DEF IInv, Balanced, PlacesBalance, ElementsBalance
  <2>7. (len # 0 => ds > 0) /\ (len # Capacity => es > 0)
    BY <2>6
  <2> QED
    BY <2>4, <2>5, <2>7, Zenon
<1> QED
  BY <1>1, QueueInvariant, PTL

\* Every step of an operation is an atomic operation of the bounded queue of
\* fixed_queue.h or is invisible to its users.
THEOREM QueueRefines == Spec => ImplementsFifo
<1>1. Init => Fifo!Init
  BY DEF Init, Fifo!Init
<1>2. IInv /\ [Next]_vars => [Fifo!Next]_(Fifo!vars)
  <2> SUFFICES ASSUME IInv, [Next]_vars PROVE [Fifo!Next]_(Fifo!vars)
    OBVIOUS
  <2>1. ASSUME NEW t \in Threads, Call(t), UNCHANGED list PROVE Fifo!Begin(t)
    BY <2>1 DEF Call, Fifo!Begin
  <2>2. ASSUME NEW t \in Threads, EnqueueAppend(t) PROVE Fifo!Insert(data[t]) /\ data[t] \in Items
    BY <2>2, BalanceSuffices DEF EnqueueAppend, Fifo!Insert, IInv, Balanced, Appending
  <2>3. ASSUME NEW t \in Threads, DequeueRemove(t) PROVE Fifo!Take(t)
    BY <2>3, BalanceSuffices DEF IInv, DequeueRemove, Fifo!Take, Removing
  <2>4. ASSUME NEW t \in Threads, FlushRemove(t) PROVE Fifo!Take(t)
    BY <2>4, BalanceSuffices DEF IInv, FlushRemove, Fifo!Take, Removing
  <2>5. ASSUME NEW t \in Threads, NEW d \in Items, TryRemove(t, d)
        PROVE  Fifo!Begin(t) \/ \E i \in 1..Len(list) : Fifo!Extract(t, i)
    BY <2>5 DEF TryRemove, RemoveData, Fifo!Begin, Fifo!Extract, Without, Fifo!Without
  <2>12. ASSUME NEW t \in Threads, TryRemoveWakes(t)
         PROVE  \E i \in 1..Len(list) : Fifo!Extract(t, i)
    BY <2>12 DEF TryRemoveWakes, RemoveData, Fifo!Extract, Without, Fifo!Without
  <2>6. ASSUME NEW t \in Threads, FlushTry(t)
        PROVE  Fifo!Begin(t) \/ UNCHANGED Fifo!vars
    BY <2>6 DEF FlushTry, Fifo!Begin, Fifo!vars
  <2>7. ASSUME NEW t \in Threads,
               \/ EnqueueWait(t) \/ EnqueuePost(t) \/ DequeueWait(t)
               \/ DequeuePost(t) \/ FlushCheck(t) \/ FlushPost(t) \/ FlushWakes(t)
        PROVE  UNCHANGED Fifo!vars
    BY <2>7 DEF EnqueueWait, EnqueuePost, DequeueWait, DequeuePost, FlushCheck,
                FlushPost, FlushWakes, Fifo!vars
  <2>8. ASSUME NEW t \in Threads, Begin(t)
        PROVE  Fifo!Begin(t) \/ \E i \in 1..Len(list) : Fifo!Extract(t, i)
    <3>1. ASSUME NEW d \in Items, Enqueue(t, d) PROVE Fifo!Begin(t)
      BY <2>1, <3>1 DEF Enqueue
    <3>2. ASSUME NEW d \in Items, TryEnqueue(t, d) PROVE Fifo!Begin(t)
      BY <2>1, <3>2 DEF TryEnqueue
    <3>3. ASSUME Dequeue(t) \/ TryDequeue(t) \/ Flush(t) PROVE Fifo!Begin(t)
      BY <2>1, <3>3 DEF Dequeue, TryDequeue, TryDequeueFails, Flush
    <3> QED
      BY <2>5, <2>8, <3>1, <3>2, <3>3 DEF Begin
  <2>9. CASE UNCHANGED vars
    BY <2>9 DEF vars, Fifo!vars
  <2>10. ASSUME NEW t \in Threads, Step(t) PROVE [Fifo!Next]_(Fifo!vars)
    BY <2>2, <2>3, <2>4, <2>6, <2>7, <2>10, <2>12 DEF Step, Fifo!Next
  <2>11. ASSUME NEW t \in Threads, Begin(t) PROVE Fifo!Next
    BY <2>8, <2>11 DEF Fifo!Next
  <2> QED
    BY <2>9, <2>10, <2>11 DEF Next
<1> QED
  BY <1>1, <1>2, QueueInvariant, PTL DEF Spec, ImplementsFifo, Fifo!Spec

=============================================================================
