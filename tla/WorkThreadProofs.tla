--------------------------- MODULE WorkThreadProofs ---------------------------
(***************************************************************************)
(* Proofs about osi/src/thread.cc for any number of posting threads, any   *)
(* capacity of the work queue and any number of items.  The argument: the  *)
(* items of a thread stand in one line from its thread_post to their       *)
(* dispatch, and when the draining loop starts, the items it must dispatch *)
(* are among the first |capacity| ones of the queue.                       *)
(***************************************************************************)
EXTENDS WorkThread, ListLemmas, FiniteSetTheorems

Enqueueing == {"enq_wait", "enq_lock", "enq_post"}

\* The users whose next step in the queue is |label|.
At(label) == {u \in Users : pc[u] = label}

\* The item that the worker has removed and not yet dispatched.
InFlight == IF pc[Worker] = "deq_post" THEN {ret[Worker]} ELSE {}

\* The items of the thread_post calls that have not appended theirs.
Waiting == {data[u] : u \in At("enq_wait") \cup At("enq_lock")}

\* The items that were appended and not dropped.
Kept == Range(executed) \cup InFlight \cup Range(list)

-----------------------------------------------------------------------------
\* Where the worker and the posters can be in the queue in each phase.
Phases ==
  /\ \A p \in Posters : pc[p] \in {"idle"} \cup Enqueueing
  /\ wpc \in {"starting", "loop", "drain", "exited"} => pc[Worker] = "idle"
  /\ wpc = "fetching" => pc[Worker] \in {"deq_wait", "deq_lock", "deq_post"}
  /\ wpc = "taking" => pc[Worker] \in {"deq_lock", "deq_post"}
  /\ wpc \in {"running", "draining"} => pc[Worker] \in {"idle"} \cup Enqueueing
  /\ stop_fd => stopping
  /\ wpc \in {"drain", "taking", "draining", "exited"} => stopping
  /\ wpc = "draining" => count <= Capacity
  /\ Quiet /\ stopping => \A p \in Posters : pc[p] = "idle"

\* The places and the elements of the queue, counted as in FixedQueue.
Balance ==
  /\ enqueue_sem + Cardinality(At("enq_lock")) + Len(list)
       + Cardinality(At("deq_post")) = Capacity
  /\ dequeue_sem + Cardinality(At("deq_lock")) + Cardinality(At("enq_post"))
       = Len(list)

\* The pairs of items whose order is right.
PostOrder == {p \in Item \X Item : p[1][1] = p[2][1] => p[1][2] < p[2][2]}

\* The items stand in one line: dispatched, removed, in the list, waiting.
LineOrder ==
  /\ InOrder(PostOrder, executed) /\ InOrder(PostOrder, list)
  /\ AllBefore(PostOrder, Range(executed), InFlight \cup Range(list) \cup Waiting)
  /\ AllBefore(PostOrder, InFlight, Range(list) \cup Waiting)
  /\ AllBefore(PostOrder, Range(list), Waiting)

\* The numbers of the items.  The item of a thread_post in progress is the last
\* of its thread, and not among those whose thread_post returned.
Numbers ==
  /\ InFlight \subseteq Item
  /\ \A d \in Kept \cup early : d[2] <= posted[d[1]]
  /\ \A u \in Users : pc[u] \in Enqueueing => data[u] = <<u, posted[u]>> /\ posted[u] > 0
  /\ \A d \in early : pc[d[1]] \in Enqueueing => d[2] < posted[d[1]]

\* How many of the places that the draining loop still looks at it has used up
\* since it last counted.
Used == IF wpc = "draining" \/ pc[Worker] = "deq_post" THEN 1 ELSE 0

\* The items whose thread_post returned before thread_stop are kept until they
\* are dispatched, and the draining loop reaches each of them before its count
\* runs out.
Drained ==
  /\ \A u \in At("enq_post") : data[u] \in Kept
  /\ early \subseteq Kept
  /\ wpc = "exited" => early \subseteq Range(executed)
  /\ wpc \in {"drain", "taking", "draining"} =>
       \A i \in DOMAIN list : list[i] \in early => i + Used + count <= Capacity
  /\ wpc = "taking" /\ pc[Worker] = "deq_post" /\ ret[Worker] \in early => count < Capacity

OneJoiner == \A i, j \in Joiners : i = j

\* The only joiner that finds is_joined set has joined the thread before.
JoinOrder ==
  /\ is_joined => \A j \in Joiners : jpc[j] # "idle"
  /\ \A j \in Joiners : jpc[j] = "returned" => wpc = "exited"

IInv == /\ TypeOK /\ Phases /\ Balance /\ LineOrder /\ Numbers
        /\ Quiet => Drained
        /\ OneJoiner => JoinOrder

-----------------------------------------------------------------------------
LEMMA UsersFinite == IsFiniteSet(Users)
  BY WorkThreadAssumption, FS_AddElement DEF WorkThreadAssumption, Users

\* The number of users at a label.
LEMMA CountType ==
  ASSUME NEW l
  PROVE  /\ IsFiniteSet(At(l)) /\ Cardinality(At(l)) \in Nat
         /\ Cardinality(At(l)) = 0 <=> At(l) = {}
<1>1. IsFiniteSet(At(l))
  BY UsersFinite, FS_Subset DEF At
<1> QED
  BY <1>1, FS_CardinalityType, FS_EmptySet

Bit(l, m) == IF l = m THEN 1 ELSE 0

Moves(u, from, to) == pc[u] = from /\ pc' = [pc EXCEPT ![u] = to]

\* When one user goes from one label to another, one count goes down and
\* another one up.
LEMMA CountMove ==
  ASSUME NEW u \in Users, NEW from, NEW to, NEW l,
         pc \in [Users -> Q!PCs], pc[u] = from, pc' = [pc EXCEPT ![u] = to]
  PROVE  Cardinality(At(l))' = Cardinality(At(l)) + Bit(l, to) - Bit(l, from)
<1>1. IsFiniteSet(At(l)) /\ Cardinality(At(l)) \in Nat
  BY CountType
<1>2. CASE l = from /\ l = to
  <2>1. At(l)' = At(l)
    BY <1>2 DEF At
  <2> QED
    BY <1>1, <1>2, <2>1 DEF Bit
<1>3. CASE l = from /\ l # to
  <2>1. At(l)' = At(l) \ {u} /\ u \in At(l)
    BY <1>3 DEF At
  <2>2. Cardinality(At(l) \ {u}) = Cardinality(At(l)) - 1
    BY <1>1, <2>1, FS_RemoveElement
  <2> QED
    BY <1>1, <1>3, <2>1, <2>2 DEF Bit
<1>4. CASE l # from /\ l = to
  <2>1. At(l)' = At(l) \cup {u} /\ u \notin At(l)
    BY <1>4 DEF At
  <2>2. Cardinality(At(l) \cup {u}) = Cardinality(At(l)) + 1
    BY <1>1, <2>1, FS_AddElement
  <2> QED
    BY <1>1, <1>4, <2>1, <2>2 DEF Bit
<1>5. CASE l # from /\ l # to
  <2>1. At(l)' = At(l)
    BY <1>5 DEF At
  <2> QED
    BY <1>1, <1>5, <2>1 DEF Bit
<1> QED
  BY <1>2, <1>3, <1>4, <1>5

\* The counts of the four labels that hold a token, after a move.
Counts(lock, post, take, put) ==
  /\ Cardinality(At("enq_lock"))' = Cardinality(At("enq_lock")) + lock
  /\ Cardinality(At("enq_post"))' = Cardinality(At("enq_post")) + post
  /\ Cardinality(At("deq_lock"))' = Cardinality(At("deq_lock")) + take
  /\ Cardinality(At("deq_post"))' = Cardinality(At("deq_post")) + put

LEMMA CountsMove ==
  ASSUME NEW u \in Users, NEW from, NEW to, pc \in [Users -> Q!PCs], Moves(u, from, to)
  PROVE  Counts(Bit("enq_lock", to) - Bit("enq_lock", from),
                Bit("enq_post", to) - Bit("enq_post", from),
                Bit("deq_lock", to) - Bit("deq_lock", from),
                Bit("deq_post", to) - Bit("deq_post", from))
<1>1. \A l : /\ Cardinality(At(l))' = Cardinality(At(l)) + Bit(l, to) - Bit(l, from)
             /\ Cardinality(At(l)) \in Nat
  BY CountMove, CountType DEF Moves
<1>2. \A l, m : Bit(l, m) \in Int
  BY DEF Bit
<1> QED
  BY <1>1, <1>2 DEF Counts

LEMMA CountsStay ==
  ASSUME UNCHANGED pc PROVE Counts(0, 0, 0, 0)
<1>1. \A l : At(l)' = At(l) /\ Cardinality(At(l)) \in Nat
  BY CountType DEF At
<1> QED
  BY <1>1 DEF Counts

\* How a step changes the semaphores and the length of the list.
Deltas(de, dd, dl) ==
  /\ enqueue_sem' = enqueue_sem + de
  /\ dequeue_sem' = dequeue_sem + dd
  /\ Len(list)' = Len(list) + dl

\* A step that moves tokens so that both sums stay the same keeps the balance.
LEMMA BalanceKept ==
  ASSUME Balance, enqueue_sem \in Nat, dequeue_sem \in Nat, Len(list) \in Nat,
         NEW a \in Int, NEW n \in Int, NEW m \in Int, NEW r \in Int,
         NEW de \in Int, NEW dd \in Int, NEW dl \in Int,
         Counts(a, n, m, r), Deltas(de, dd, dl),
         de + a + dl + r = 0, dd + m + n = dl
  PROVE  Balance'
<1>1. PICK es \in Nat, ds \in Nat, len \in Nat, lo \in Nat, po \in Nat,
           ta \in Nat, pu \in Nat :
        /\ es = enqueue_sem /\ ds = dequeue_sem /\ len = Len(list)
        /\ lo = Cardinality(At("enq_lock")) /\ po = Cardinality(At("enq_post"))
        /\ ta = Cardinality(At("deq_lock")) /\ pu = Cardinality(At("deq_post"))
  BY CountType, Zenon
<1>2. es + lo + len + pu = Capacity /\ ds + ta + po = len
  BY <1>1, Zenon DEF Balance
<1>3. /\ (es + de) + (lo + a) + (len + dl) + (pu + r) = Capacity
      /\ (ds + dd) + (ta + m) + (po + n) = len + dl
  BY <1>2, WorkThreadAssumption DEF WorkThreadAssumption
<1> QED
  BY <1>1, <1>3, Zenon DEF Balance, Counts, Deltas

\* What the balance says of the list.
LEMMA BalanceSays ==
  ASSUME TypeOK, Balance
  PROVE  /\ Len(list) \in Nat /\ Len(list) <= Capacity
         /\ pc[Worker] = "deq_lock" => list # <<>>
         /\ dequeue_sem = 0 /\ (\A u \in Users : pc[u] = "idle") => list = <<>>
<1>1. Listed(Item, list) /\ Worker \in Users
  BY ElementsOf DEF TypeOK, Q!TypeOK, Users
<1>2. PICK es \in Nat, ds \in Nat, len \in Nat, lo \in Nat, po \in Nat,
           ta \in Nat, pu \in Nat :
        /\ es = enqueue_sem /\ ds = dequeue_sem /\ len = Len(list)
        /\ lo = Cardinality(At("enq_lock")) /\ po = Cardinality(At("enq_post"))
        /\ ta = Cardinality(At("deq_lock")) /\ pu = Cardinality(At("deq_post"))
  <2>1. enqueue_sem \in Nat /\ dequeue_sem \in Nat /\ Len(list) \in Nat
    BY <1>1, Zenon DEF TypeOK, Q!TypeOK, Listed
  <2> QED
    BY <2>1, CountType, Zenon
<1>3. es + lo + len + pu = Capacity /\ ds + ta + po = len
  BY <1>2, Zenon DEF Balance
<1>4. len <= Capacity /\ (ta # 0 => len # 0)
  BY <1>3, WorkThreadAssumption DEF WorkThreadAssumption
<1>5. pc[Worker] = "deq_lock" => ta # 0
  BY <1>1, <1>2, CountType, Zenon DEF At
<1>6. (\A u \in Users : pc[u] = "idle") => ta = 0 /\ po = 0
  <2>1. (\A u \in Users : pc[u] = "idle") => At("deq_lock") = {} /\ At("enq_post") = {}
    BY DEF At
  <2> QED
    BY <2>1, <1>2, CountType, Zenon
<1>7. ds = 0 /\ ta = 0 /\ po = 0 => len = 0
  BY <1>3
<1> QED
  BY <1>1, <1>2, <1>4, <1>5, <1>6, <1>7, Zenon DEF Listed

-----------------------------------------------------------------------------
\* The steps, by what they do to the queue.
LEMMA Steps ==
  ASSUME [Next]_vars
  PROVE  \/ \E p \in Posters : Post(p)
         \/ \E u \in Users : PostStep(u)
         \/ ReadReady \/ FetchStep \/ Fetched \/ SelfPost \/ DrainTry \/ DrainTaken
         \/ Stop \/ Start \/ Finished \/ LeaveLoop \/ DrainFinished
         \/ \E j \in Joiners : Join(j) \/ JoinReturns(j)
         \/ UNCHANGED vars
  BY DEF Next, WorkerStep, Users

\* The steps that do not touch the queue.
Aside ==
  \/ Stop \/ Start \/ Finished \/ LeaveLoop \/ DrainFinished
  \/ \E j \in Joiners : Join(j) \/ JoinReturns(j)
  \/ UNCHANGED vars

LEMMA AsideLeaves ==
  ASSUME Aside PROVE UNCHANGED <<queueVars, posted, early, executed>>
  BY DEF Aside, Stop, Start, Finished, LeaveLoop, DrainFinished, Join, JoinReturns, vars,
         queueVars

\* A thread_post starts with the next item of its thread.
LEMMA NextItem ==
  ASSUME TypeOK, NEW u \in Users, posted[u] < PerPoster + SelfPosts
  PROVE  /\ <<u, posted[u] + 1>> \in Item
         /\ [posted EXCEPT ![u] = @ + 1] \in [Users -> 0..(PerPoster + SelfPosts)]
  BY WorkThreadAssumption DEF WorkThreadAssumption, TypeOK, Item

\* The item of a thread_post in progress, and the one the worker removed.
LEMMA EnqueuedItem ==
  ASSUME IInv, NEW u \in Users, pc[u] \in Enqueueing
  PROVE  data[u] \in Item /\ data[u] = <<u, posted[u]>>
<1>1. data[u] = <<u, posted[u]>> /\ posted[u] \in 1..(PerPoster + SelfPosts)
  BY WorkThreadAssumption DEF WorkThreadAssumption, IInv, TypeOK, Numbers
<1> QED
  BY <1>1 DEF Item

LEMMA RemovedItem ==
  ASSUME IInv, pc[Worker] = "deq_post"
  PROVE  ret[Worker] \in Item
<1>1. ret[Worker] \in InFlight /\ InFlight \subseteq Item
  BY DEF IInv, InFlight, Numbers
<1> QED
  BY <1>1

\* The queue stays well typed: in particular a removal finds an element.
LEMMA QueueTypeStep ==
  ASSUME IInv, [Next]_vars
  PROVE  Q!TypeOK'
<1> USE DEF Q!TypeOK, Q!PCs, Q!Blocking, Q!Appending, Q!Announcing, Q!Removing, Q!Releasing
<1>1. Worker \in Users /\ Posters \subseteq Users
  BY DEF Users
<1>2. Q!TypeOK
  BY DEF IInv, TypeOK
<1>3. ASSUME NEW u \in Users, posted[u] < PerPoster + SelfPosts, PostItem(u)
      PROVE  Q!TypeOK'
  <2>1. <<u, posted[u] + 1>> \in Item
    BY <1>3, NextItem DEF IInv
  <2> QED
    BY <1>2, <1>3, <2>1 DEF PostItem, Q!Enqueue, Q!Call, Q!Goto
<1>4. ASSUME NEW p \in Posters, Post(p)
      PROVE  Q!TypeOK'
  <2>1. posted[p] < PerPoster + SelfPosts
    BY <1>1, <1>4, WorkThreadAssumption DEF WorkThreadAssumption, Post, IInv, TypeOK
  <2> QED
    BY <1>1, <1>3, <1>4, <2>1 DEF Post
<1>5. CASE SelfPost
  <2>1. posted[Worker] < PerPoster + SelfPosts
    BY <1>1, <1>5, WorkThreadAssumption DEF WorkThreadAssumption, SelfPost, IInv, TypeOK
  <2> QED
    BY <1>1, <1>3, <1>5, <2>1 DEF SelfPost
<1>6. ASSUME NEW u \in Users, PostStep(u)
      PROVE  Q!TypeOK'
  <2>1. CASE Q!EnqueueWait(u) \/ Q!EnqueuePost(u)
    BY <1>2, <2>1 DEF Q!EnqueueWait, Q!EnqueuePost, Q!Goto
  <2>2. CASE Q!EnqueueAppend(u)
    <3>1. data[u] \in Item
      BY <2>2, EnqueuedItem DEF Q!EnqueueAppend, Enqueueing
    <3>2. list' \in Seq(Item)
      BY <2>2, <3>1, <1>2 DEF Q!EnqueueAppend
    <3> QED
      BY <1>2, <2>2, <3>2 DEF Q!EnqueueAppend, Q!Goto
  <2> QED
    BY <1>6, <2>1, <2>2 DEF PostStep
<1>7. CASE ReadReady
  BY <1>1, <1>2, <1>7 DEF ReadReady, Q!Dequeue, Q!Call, Q!Goto
<1>8. CASE FetchStep
  <2>1. CASE Q!DequeueWait(Worker)
    BY <1>1, <1>2, <2>1 DEF Q!DequeueWait, Q!Goto
  <2>2. CASE Q!DequeueRemove(Worker)
    <3>1. list # <<>>
      BY <2>2, BalanceSays DEF IInv, Q!DequeueRemove
    <3>2. TailOf(Item, Tail(list), list)
      BY <1>2, <3>1, Tailed
    <3>3. list' \in Seq(Item) /\ Head(list) \in Item
      BY <2>2, <3>2, Zenon DEF Q!DequeueRemove, TailOf
    <3> QED
      BY <1>1, <1>2, <2>2, <3>3 DEF Q!DequeueRemove, Q!Goto
  <2> QED
    BY <1>8, <2>1, <2>2 DEF FetchStep
<1>9. CASE Q!DequeuePost(Worker)
  BY <1>1, <1>2, <1>9 DEF Q!DequeuePost, Q!Goto
<1>10. CASE DrainTry
  BY <1>1, <1>2, <1>10 DEF DrainTry, Q!TryDequeue, Q!TryDequeueFails, Q!Call, Q!Goto
<1>11. CASE Aside
  BY <1>2, <1>11, AsideLeaves DEF queueVars
<1> QED
  BY <1>4, <1>5, <1>6, <1>7, <1>8, <1>9, <1>10, <1>11, Steps
  DEF Aside, Fetched, DrainTaken

\* The variables of the queue with their types, one by one.
LEMMA QueueTyped ==
  ASSUME TypeOK
  PROVE  /\ list \in Seq(Item) /\ enqueue_sem \in Nat /\ dequeue_sem \in Nat
         /\ pc \in [Users -> Q!PCs] /\ data \in [Users -> Item \cup {Null}]
         /\ ret \in [Users -> Item \cup {Null}]
  BY DEF TypeOK, Q!TypeOK

\* The types of the thread's own variables.
LEMMA OwnTypeStep ==
  ASSUME IInv, [Next]_vars
  PROVE  TypeOK'
<1>1. Worker \in Users /\ Posters \subseteq Users /\ TypeOK /\ Q!TypeOK'
  BY QueueTypeStep DEF Users, IInv
<1>2. ASSUME NEW u \in Users, posted[u] < PerPoster + SelfPosts, PostItem(u),
             UNCHANGED <<wpc, stop_fd, stopping, count, early, executed, is_joined, jpc, joins>>
      PROVE  TypeOK'
  <2>1. posted' \in [Users -> 0..(PerPoster + SelfPosts)]
    BY <1>1, <1>2, NextItem DEF PostItem
  <2> QED
    BY <1>1, <1>2, <2>1 DEF TypeOK
<1>3. ASSUME NEW p \in Posters, Post(p)
      PROVE  TypeOK'
  <2>1. posted[p] < PerPoster + SelfPosts
    BY <1>1, <1>3, WorkThreadAssumption DEF WorkThreadAssumption, Post, TypeOK
  <2> QED
    BY <1>1, <1>2, <1>3, <2>1 DEF Post
<1>4. CASE SelfPost
  <2>1. posted[Worker] < PerPoster + SelfPosts
    BY <1>1, <1>4, WorkThreadAssumption DEF WorkThreadAssumption, SelfPost, TypeOK
  <2> QED
    BY <1>1, <1>2, <1>4, <2>1 DEF SelfPost
<1>5. ASSUME NEW u \in Users, PostStep(u)
      PROVE  TypeOK'
  <2>1. early' \subseteq Item
    <3>1. CASE UNCHANGED early
      BY <1>1, <3>1 DEF TypeOK
    <3>2. CASE Q!EnqueuePost(u) /\ early' = IF stopping THEN early ELSE early \cup {data[u]}
      BY <1>1, <3>2, EnqueuedItem DEF TypeOK, Q!EnqueuePost, Enqueueing
    <3> QED
      BY <1>5, <3>1, <3>2 DEF PostStep
  <2> QED
    BY <1>1, <1>5, <2>1 DEF TypeOK, PostStep
<1>6. CASE ReadReady \/ FetchStep
  BY <1>1, <1>6 DEF TypeOK, ReadReady, FetchStep
<1>7. CASE Fetched \/ DrainTaken
  <2>1. executed' \in Seq(Item)
    <3>1. pc[Worker] = "deq_post" /\ executed' \in {executed, Append(executed, ret[Worker])}
      BY <1>7 DEF Fetched, DrainTaken, Q!DequeuePost
    <3>2. ret[Worker] \in Item /\ executed \in Seq(Item)
      BY <1>1, <3>1, RemovedItem DEF TypeOK
    <3> QED
      BY <3>1, <3>2
  <2> QED
    BY <1>1, <1>7, <2>1 DEF TypeOK, Fetched, DrainTaken
<1>8. CASE DrainTry
  BY <1>1, <1>8 DEF TypeOK, DrainTry
<1>9. CASE Stop \/ Start \/ Finished \/ LeaveLoop
  <2>1. count' \in 0..(Capacity + 1)
    BY <1>1, <1>9, WorkThreadAssumption DEF WorkThreadAssumption, TypeOK, Stop, Start,
       Finished, LeaveLoop
  <2> QED
    BY <1>1, <1>9, <2>1 DEF TypeOK, Stop, Start, Finished, LeaveLoop
<1>10. CASE DrainFinished
  <2>1. count' \in 0..(Capacity + 1)
    BY <1>1, <1>10, WorkThreadAssumption DEF WorkThreadAssumption, IInv, Phases, TypeOK,
       DrainFinished
  <2> QED
    BY <1>1, <1>10, <2>1 DEF TypeOK, DrainFinished
<1>11. ASSUME NEW j \in Joiners, Join(j) \/ JoinReturns(j)
       PROVE  TypeOK'
  <2>1. joins' \in [Joiners -> 0..JoinCalls]
    <3>1. joins \in [Joiners -> 0..JoinCalls] /\ JoinCalls \in Nat
      BY <1>1, WorkThreadAssumption DEF WorkThreadAssumption, TypeOK
    <3> QED
      BY <1>11, <3>1 DEF Join, JoinReturns
  <2>2. jpc' \in [Joiners -> {"idle", "joining", "returned"}] /\ is_joined' \in BOOLEAN
    BY <1>1, <1>11 DEF TypeOK, Join, JoinReturns
  <2> QED
    BY <1>1, <1>11, <2>1, <2>2 DEF TypeOK, Join, JoinReturns
<1>12. CASE UNCHANGED vars
  BY <1>1, <1>12 DEF TypeOK, vars
<1> QED
  BY <1>3, <1>4, <1>5, <1>6, <1>7, <1>8, <1>9, <1>10, <1>11, <1>12, Steps

\* The phases of the worker and of the posters.
LEMMA PhasesStep ==
  ASSUME IInv, [Next]_vars
  PROVE  Phases'
<1> USE DEF Enqueueing
<1>1. /\ Worker \in Users /\ Posters \subseteq Users /\ Worker \notin Posters
      /\ pc \in [Users -> Q!PCs] /\ Phases /\ count \in 0..(Capacity + 1)
      /\ Capacity \in Nat
  BY QueueTyped, WorkThreadAssumption DEF WorkThreadAssumption, Users, IInv, TypeOK
<1>2. ASSUME NEW p \in Posters, Post(p)
      PROVE  Phases'
  BY <1>1, <1>2 DEF Phases, Post, PostItem, Q!Enqueue, Q!Call, Q!Goto
<1>3. CASE SelfPost
  BY <1>1, <1>3 DEF Phases, SelfPost, PostItem, Q!Enqueue, Q!Call, Q!Goto
<1>4. ASSUME NEW u \in Users, PostStep(u)
      PROVE  Phases'
  BY <1>1, <1>4 DEF Phases, PostStep, Q!EnqueueWait, Q!EnqueueAppend, Q!EnqueuePost, Q!Goto, Users
<1>5. CASE ReadReady
  BY <1>1, <1>5 DEF Phases, ReadReady, Q!Dequeue, Q!Call, Q!Goto
<1>6. CASE FetchStep
  BY <1>1, <1>6 DEF Phases, FetchStep, Q!DequeueWait, Q!DequeueRemove, Q!Goto
<1>7. CASE Fetched \/ DrainTaken
  BY <1>1, <1>7 DEF Phases, Fetched, DrainTaken, Q!DequeuePost, Q!Goto
<1>8. CASE DrainTry
  BY <1>1, <1>8 DEF Phases, DrainTry, Q!TryDequeue, Q!TryDequeueFails, Q!Call, Q!Goto
<1>9. CASE Aside
  BY <1>1, <1>9 DEF Phases, Aside, Stop, Start, Finished, LeaveLoop, DrainFinished, Join,
     JoinReturns, vars, queueVars
<1> QED
  BY <1>2, <1>3, <1>4, <1>5, <1>6, <1>7, <1>8, <1>9, Steps DEF Aside

\* The tokens of the queue.
LEMMA BalanceStep ==
  ASSUME IInv, [Next]_vars
  PROVE  Balance'
<1> USE DEF Bit, Q!Goto
<1>1. /\ Worker \in Users /\ Posters \subseteq Users /\ pc \in [Users -> Q!PCs] /\ Balance
      /\ list \in Seq(Item) /\ Len(list) \in Nat /\ enqueue_sem \in Nat /\ dequeue_sem \in Nat
  BY QueueTyped, BalanceSays DEF Users, IInv
<1>2. ASSUME NEW u \in Users, PostItem(u)
      PROVE  Balance'
  <2>1. Counts(0, 0, 0, 0)
    <3>1. Moves(u, "idle", "enq_wait")
      BY <1>2 DEF PostItem, Q!Enqueue, Q!Call, Moves
    <3> QED
      BY <1>1, <3>1, CountsMove
  <2>2. Deltas(0, 0, 0)
    BY <1>1, <1>2 DEF PostItem, Q!Enqueue, Deltas
  <2> QED
    BY <1>1, <2>1, <2>2, BalanceKept
<1>3. ASSUME NEW u \in Users, PostStep(u)
      PROVE  Balance'
  <2>1. CASE Q!EnqueueWait(u)
    <3>1. Counts(1, 0, 0, 0)
      <4>1. Moves(u, "enq_wait", "enq_lock")
        BY <2>1 DEF Q!EnqueueWait, Moves
      <4> QED
        BY <1>1, <4>1, CountsMove
    <3>2. Deltas(-1, 0, 0)
      BY <1>1, <2>1 DEF Q!EnqueueWait, Deltas
    <3> QED
      BY <1>1, <3>1, <3>2, BalanceKept
  <2>2. CASE Q!EnqueueAppend(u)
    <3>1. Counts(-1, 1, 0, 0)
      <4>1. Moves(u, "enq_lock", "enq_post")
        BY <2>2 DEF Q!EnqueueAppend, Moves
      <4> QED
        BY <1>1, <4>1, CountsMove
    <3>2. data[u] \in Item
      BY <2>2, EnqueuedItem DEF Q!EnqueueAppend, Enqueueing
    <3>3. Deltas(0, 0, 1)
      BY <1>1, <2>2, <3>2 DEF Q!EnqueueAppend, Deltas
    <3> QED
      BY <1>1, <3>1, <3>3, BalanceKept
  <2>3. CASE Q!EnqueuePost(u)
    <3>1. Counts(0, -1, 0, 0)
      <4>1. Moves(u, "enq_post", "idle")
        BY <2>3 DEF Q!EnqueuePost, Moves
      <4> QED
        BY <1>1, <4>1, CountsMove
    <3>2. Deltas(0, 1, 0)
      BY <1>1, <2>3 DEF Q!EnqueuePost, Deltas
    <3> QED
      BY <1>1, <3>1, <3>2, BalanceKept
  <2> QED
    BY <1>3, <2>1, <2>2, <2>3 DEF PostStep
<1>4. CASE ReadReady
  <2>1. Counts(0, 0, 0, 0)
    <3>1. Moves(Worker, "idle", "deq_wait")
      BY <1>4 DEF ReadReady, Q!Dequeue, Q!Call, Moves
    <3> QED
      BY <1>1, <3>1, CountsMove
  <2>2. Deltas(0, 0, 0)
    BY <1>1, <1>4 DEF ReadReady, Q!Dequeue, Deltas
  <2> QED
    BY <1>1, <2>1, <2>2, BalanceKept
<1>5. CASE Q!DequeueWait(Worker)
  <2>1. Counts(0, 0, 1, 0)
    <3>1. Moves(Worker, "deq_wait", "deq_lock")
      BY <1>5 DEF Q!DequeueWait, Moves
    <3> QED
      BY <1>1, <3>1, CountsMove
  <2>2. Deltas(0, -1, 0)
    BY <1>1, <1>5 DEF Q!DequeueWait, Deltas
  <2> QED
    BY <1>1, <2>1, <2>2, BalanceKept
<1>6. CASE Q!DequeueRemove(Worker)
  <2>1. Counts(0, 0, -1, 1)
    <3>1. Moves(Worker, "deq_lock", "deq_post")
      BY <1>6 DEF Q!DequeueRemove, Moves
    <3> QED
      BY <1>1, <3>1, CountsMove
  <2>2. list # <<>>
    BY <1>6, BalanceSays DEF IInv, Q!DequeueRemove
  <2>3. Deltas(0, 0, -1)
    BY <1>1, <1>6, <2>2 DEF Q!DequeueRemove, Deltas
  <2> QED
    BY <1>1, <2>1, <2>3, BalanceKept
<1>7. CASE Q!DequeuePost(Worker)
  <2>1. Counts(0, 0, 0, -1)
    <3>1. Moves(Worker, "deq_post", "idle")
      BY <1>7 DEF Q!DequeuePost, Moves
    <3> QED
      BY <1>1, <3>1, CountsMove
  <2>2. Deltas(1, 0, 0)
    BY <1>1, <1>7 DEF Q!DequeuePost, Deltas
  <2> QED
    BY <1>1, <2>1, <2>2, BalanceKept
<1>8. CASE DrainTry
  <2>1. CASE Q!TryDequeueFails(Worker)
    <3>1. Counts(0, 0, 0, 0) /\ Deltas(0, 0, 0)
      BY <1>1, <2>1, CountsStay DEF Q!TryDequeueFails, Deltas
    <3> QED
      BY <1>1, <3>1, BalanceKept
  <2>2. CASE dequeue_sem > 0 /\ Q!TryDequeue(Worker)
    <3>1. /\ pc[Worker] = "idle" /\ pc' = [pc EXCEPT ![Worker] = "deq_lock"]
          /\ dequeue_sem' = dequeue_sem - 1 /\ UNCHANGED <<list, enqueue_sem>>
      BY <1>1, <2>2 DEF Q!TryDequeue, Q!TryDequeueFails, Q!Call
    <3>2. Counts(0, 0, 1, 0)
      <4>1. Moves(Worker, "idle", "deq_lock")
        BY <3>1 DEF Moves
      <4> QED
        BY <1>1, <4>1, CountsMove
    <3>3. Deltas(0, -1, 0)
      BY <1>1, <3>1 DEF Deltas
    <3> QED
      BY <1>1, <3>2, <3>3, BalanceKept
  <2> QED
    BY <1>8, <2>1, <2>2 DEF DrainTry
<1>9. CASE Aside
  BY <1>1, <1>9, AsideLeaves DEF queueVars, Balance, At
<1> QED
  BY <1>1, <1>2, <1>3, <1>4, <1>5, <1>6, <1>7, <1>8, <1>9, Steps
  DEF Aside, Post, SelfPost, FetchStep, Fetched, DrainTaken

\* With one joiner, a thread_join that returned finds that the thread has exited.
LEMMA JoinStep ==
  ASSUME IInv, OneJoiner, [Next]_vars
  PROVE  JoinOrder'
<1>1. JoinOrder /\ jpc \in [Joiners -> {"idle", "joining", "returned"}]
  BY DEF IInv, TypeOK
<1>2. wpc = "exited" => wpc' = "exited"
  <2>1. wpc = "exited" => pc[Worker] = "idle"
    BY DEF IInv, Phases
  <2> QED
    BY <2>1, Steps DEF Post, PostStep, ReadReady, FetchStep, Fetched, SelfPost, DrainTry,
       DrainTaken, Stop, Start, Finished, LeaveLoop, DrainFinished, Join, JoinReturns, vars
<1>3. ASSUME NEW j \in Joiners, Join(j)
      PROVE  JoinOrder'
  <2>1. \A i \in Joiners : i = j
    BY DEF OneJoiner
  <2> QED
    BY <1>1, <1>3, <2>1 DEF Join, JoinOrder
<1>4. ASSUME NEW j \in Joiners, JoinReturns(j)
      PROVE  JoinOrder'
  BY <1>1, <1>4 DEF JoinReturns, JoinOrder
<1>5. CASE UNCHANGED <<jpc, is_joined>>
  BY <1>1, <1>2, <1>5 DEF JoinOrder
<1> QED
  BY <1>3, <1>4, <1>5, Steps DEF Post, PostStep, ReadReady, FetchStep, Fetched, SelfPost,
     DrainTry, DrainTaken, Stop, Start, Finished, LeaveLoop, DrainFinished, vars

-----------------------------------------------------------------------------
\* What a step does to the line of items: it enters at the back, goes from
\* the waiting to the list, from the list to the worker, is dispatched, or is
\* dropped at the end of the draining loop.  Turns says what the worker does in
\* the steps that leave the line alone.
Enters(u) ==
  /\ PostItem(u) /\ posted[u] < PerPoster + SelfPosts
  /\ Waiting' \subseteq Waiting \cup {<<u, posted[u] + 1>>} /\ InFlight' = InFlight
  /\ Range(list)' = Range(list) /\ Range(executed)' = Range(executed)
  /\ UNCHANGED <<list, executed, early, wpc, count>>
Appends(u) ==
  /\ Q!EnqueueAppend(u) /\ AppendedTo(Item, list', list, data[u]) /\ data[u] \in Waiting
  /\ Waiting' \subseteq Waiting /\ InFlight' = InFlight /\ Range(executed)' = Range(executed)
  /\ UNCHANGED <<executed, early, posted, wpc, count>>
  /\ \A v \in Users : pc'[v] \in {"enq_wait", "enq_lock"} => v # u /\ pc'[v] = pc[v]
Removes ==
  /\ Q!DequeueRemove(Worker) /\ TailOf(Item, list', list)
  /\ InFlight = {} /\ InFlight' = {Head(list)} /\ Waiting' = Waiting
  /\ Range(executed)' = Range(executed)
  /\ UNCHANGED <<executed, early, posted, wpc, count>>
Dispatches ==
  /\ Q!DequeuePost(Worker) /\ executed' = Append(executed, ret[Worker])
  /\ AppendedTo(Item, executed', executed, ret[Worker])
  /\ InFlight = {ret[Worker]} /\ InFlight' = {} /\ Waiting' = Waiting
  /\ Range(list)' = Range(list)
  /\ UNCHANGED <<list, early, posted, count>>
  /\ \/ wpc = "fetching" /\ wpc' = "running"
     \/ wpc = "taking" /\ wpc' = "draining"
Drops ==
  /\ Q!DequeuePost(Worker) /\ wpc = "taking" /\ wpc' = "exited" /\ count > Capacity
  /\ InFlight = {ret[Worker]} /\ InFlight' = {} /\ Waiting' = Waiting
  /\ Range(list)' = Range(list) /\ Range(executed)' = Range(executed)
  /\ UNCHANGED <<list, executed, early, posted, count>>
Turns ==
  \/ /\ UNCHANGED <<wpc, count>>
     /\ pc'[Worker] = "deq_post" <=> pc[Worker] = "deq_post"
     /\ pc[Worker] = "deq_post" => ret'[Worker] = ret[Worker]
  \/ wpc' \in {"loop", "fetching"} /\ UNCHANGED early
  \/ /\ wpc = "loop" /\ wpc' = "drain" /\ count' = 0
     /\ pc'[Worker] # "deq_post" /\ UNCHANGED early
  \/ /\ wpc = "draining" /\ wpc' = "drain" /\ count' = count + 1
     /\ pc'[Worker] # "deq_post" /\ UNCHANGED early
  \/ /\ wpc = "drain" /\ wpc' = "taking" /\ count' = count
     /\ pc'[Worker] # "deq_post" /\ UNCHANGED early
  \/ wpc = "drain" /\ wpc' = "exited" /\ dequeue_sem = 0 /\ UNCHANGED early
Rests ==
  /\ InFlight' = InFlight /\ Waiting' = Waiting
  /\ Range(list)' = Range(list) /\ Range(executed)' = Range(executed)
  /\ UNCHANGED <<list, executed, posted>>
  /\ \A u \in Users : pc'[u] \in Enqueueing => pc[u] \in Enqueueing /\ data'[u] = data[u]
  /\ \A u \in At("enq_post")' : u \in At("enq_post") /\ data'[u] = data[u]
  /\ Turns
  /\ \/ UNCHANGED early
     \/ \E u \in Users : pc[u] = "enq_post" /\ pc'[u] = "idle" /\ early' = early \cup {data[u]}
                         /\ ~stopping

\* The two sets that depend on where the users are.
LEMMA SameSets ==
  ASSUME NEW u \in Users, NEW from, NEW to, TypeOK, Moves(u, from, to)
  PROVE  /\ from # "deq_post" /\ to # "deq_post" /\ (u = Worker \/ UNCHANGED ret)
              => InFlight' = InFlight
         /\ {from, to} \cap {"enq_wait", "enq_lock"} = {} /\ UNCHANGED data => Waiting' = Waiting
<1>1. pc \in [Users -> Q!PCs] /\ Worker \in Users
  BY QueueTyped DEF Users
<1>2. ASSUME from # "deq_post", to # "deq_post", u = Worker \/ UNCHANGED ret
      PROVE  InFlight' = InFlight
  BY <1>1, <1>2 DEF Moves, InFlight
<1>3. ASSUME {from, to} \cap {"enq_wait", "enq_lock"} = {}, UNCHANGED data
      PROVE  Waiting' = Waiting
  <2>1. At("enq_wait")' = At("enq_wait") /\ At("enq_lock")' = At("enq_lock")
    BY <1>1, <1>3 DEF Moves, At
  <2> QED
    BY <1>3, <2>1 DEF Waiting
<1> QED
  BY <1>2, <1>3

LEMMA LineStep ==
  ASSUME IInv, [Next]_vars
  PROVE  \/ \E u \in Users : Enters(u) \/ Appends(u)
         \/ Removes \/ Dispatches \/ Drops \/ Rests
<1>1. /\ Worker \in Users /\ Posters \subseteq Users /\ pc \in [Users -> Q!PCs] /\ TypeOK
      /\ list \in Seq(Item) /\ executed \in Seq(Item) /\ data \in [Users -> Item \cup {Null}]
      /\ ret \in [Users -> Item \cup {Null}]
  BY QueueTyped DEF Users, IInv, TypeOK
<1>2. ASSUME NEW u \in Users, PostItem(u), posted[u] < PerPoster + SelfPosts,
             UNCHANGED <<executed, early, wpc, count>>
      PROVE  Enters(u)
  <2>1. Moves(u, "idle", "enq_wait") /\ data' = [data EXCEPT ![u] = <<u, posted[u] + 1>>]
        /\ ret' = [ret EXCEPT ![u] = Null] /\ list' = list
    BY <1>2 DEF PostItem, Q!Enqueue, Q!Call, Q!Goto, Moves
  <2>2. InFlight' = InFlight
    BY <1>1, <2>1 DEF Moves, InFlight
  <2>3. Waiting' \subseteq Waiting \cup {<<u, posted[u] + 1>>}
    BY <1>1, <2>1 DEF Moves, Waiting, At
  <2> QED
    BY <1>2, <2>1, <2>2, <2>3 DEF Enters
<1>3. ASSUME NEW p \in Posters, Post(p)
      PROVE  Enters(p)
  <2>1. posted[p] < PerPoster + SelfPosts
    BY <1>1, <1>3, WorkThreadAssumption DEF WorkThreadAssumption, Post, TypeOK
  <2> QED
    BY <1>1, <1>2, <1>3, <2>1 DEF Post
<1>4. CASE SelfPost
  <2>1. posted[Worker] < PerPoster + SelfPosts
    BY <1>1, <1>4, WorkThreadAssumption DEF WorkThreadAssumption, SelfPost, TypeOK
  <2> QED
    BY <1>1, <1>2, <1>4, <2>1 DEF SelfPost
<1>5. ASSUME NEW u \in Users, PostStep(u)
      PROVE  Appends(u) \/ Rests
  <2>1. CASE Q!EnqueueWait(u) /\ UNCHANGED early
    <3>1. Moves(u, "enq_wait", "enq_lock") /\ UNCHANGED <<list, data, ret>>
      BY <2>1 DEF Q!EnqueueWait, Q!Goto, Moves
    <3>2. InFlight' = InFlight
      BY <1>1, <3>1, SameSets
    <3>3. At("enq_wait")' \cup At("enq_lock")' = At("enq_wait") \cup At("enq_lock")
      BY <1>1, <3>1 DEF Moves, At
    <3>4. Waiting' = Waiting
      BY <3>1, <3>3 DEF Waiting
    <3> QED
      BY <1>1, <1>5, <2>1, <3>1, <3>2, <3>4 DEF Rests, Turns, At, PostStep, Moves, Enqueueing
  <2>2. CASE Q!EnqueueAppend(u) /\ UNCHANGED early
    <3>1. Moves(u, "enq_lock", "enq_post") /\ UNCHANGED <<data, ret>>
          /\ list' = Append(list, data[u])
      BY <2>2 DEF Q!EnqueueAppend, Q!Goto, Moves
    <3>2. InFlight' = InFlight
      BY <1>1, <3>1, SameSets
    <3>3. Waiting' \subseteq Waiting /\ data[u] \in Waiting
      BY <1>1, <3>1 DEF Moves, Waiting, At
    <3>4. data[u] \in Item
      BY <3>1, EnqueuedItem DEF Moves, Enqueueing
    <3>5. AppendedTo(Item, list', list, data[u])
      BY <1>1, <3>1, <3>4, Appended
    <3> QED
      BY <1>1, <1>5, <2>2, <3>1, <3>2, <3>3, <3>5 DEF Appends, PostStep, Moves
  <2>3. CASE Q!EnqueuePost(u) /\ early' = IF stopping THEN early ELSE early \cup {data[u]}
    <3>1. Moves(u, "enq_post", "idle") /\ UNCHANGED <<list, data, ret>>
      BY <2>3 DEF Q!EnqueuePost, Q!Goto, Moves
    <3>2. InFlight' = InFlight /\ Waiting' = Waiting
      BY <1>1, <3>1, SameSets
    <3> QED
      BY <1>1, <1>5, <2>3, <3>1, <3>2 DEF Rests, Turns, At, PostStep, Moves, Enqueueing
  <2> QED
    BY <1>5, <2>1, <2>2, <2>3 DEF PostStep
<1>6. ASSUME NEW from, NEW to, Moves(Worker, from, to), UNCHANGED <<list, data, executed, posted, early>>,
             {from, to} \subseteq {"idle", "deq_wait", "deq_lock"}, Turns
      PROVE  Rests
  <2>1. InFlight' = InFlight /\ Waiting' = Waiting
    BY <1>1, <1>6, SameSets
  <2> QED
    BY <1>1, <1>6, <2>1 DEF Rests, At, Moves, Enqueueing
<1>7. CASE ReadReady
  <2>1. Turns
    BY <1>7 DEF ReadReady, Turns
  <2> QED
    BY <1>7, <1>6, <2>1 DEF ReadReady, Q!Dequeue, Q!Call, Q!Goto, Moves
<1>8. CASE FetchStep
  <2>1. CASE Q!DequeueWait(Worker)
    <3>1. Moves(Worker, "deq_wait", "deq_lock") /\ UNCHANGED <<list, data, wpc, count>>
      BY <1>8, <2>1 DEF FetchStep, Q!DequeueWait, Q!Goto, Moves
    <3>2. Turns
      BY <1>1, <3>1 DEF Moves, Turns
    <3> QED
      BY <1>8, <1>6, <3>1, <3>2 DEF FetchStep
  <2>2. CASE Q!DequeueRemove(Worker)
    <3>1. Moves(Worker, "deq_lock", "deq_post") /\ UNCHANGED data /\ list' = Tail(list)
          /\ ret' = [ret EXCEPT ![Worker] = Head(list)]
      BY <2>2 DEF Q!DequeueRemove, Q!Goto, Moves
    <3>2. Waiting' = Waiting
      BY <1>1, <3>1, SameSets
    <3>3. InFlight = {} /\ InFlight' = {Head(list)}
      BY <1>1, <3>1 DEF Moves, InFlight
    <3>4. list # <<>>
      BY <3>1, BalanceSays DEF IInv, Moves
    <3>5. TailOf(Item, list', list)
      BY <1>1, <3>1, <3>4, Tailed
    <3> QED
      BY <1>8, <2>2, <3>2, <3>3, <3>5 DEF Removes, FetchStep
  <2> QED
    BY <1>8, <2>1, <2>2 DEF FetchStep
<1>9. CASE Fetched \/ DrainTaken
  <2>1. Q!DequeuePost(Worker) /\ Moves(Worker, "deq_post", "idle") /\ UNCHANGED <<list, data, ret>>
    BY <1>9 DEF Fetched, DrainTaken, Q!DequeuePost, Q!Goto, Moves
  <2>2. Waiting' = Waiting
    BY <1>1, <2>1, SameSets
  <2>3. InFlight = {ret[Worker]} /\ InFlight' = {}
    BY <1>1, <2>1 DEF Moves, InFlight
  <2>4. AppendedTo(Item, Append(executed, ret[Worker]), executed, ret[Worker])
    BY <1>1, <2>1, RemovedItem, Appended DEF Moves
  <2> QED
    BY <1>9, <2>1, <2>2, <2>3, <2>4 DEF Fetched, DrainTaken, Dispatches, Drops
<1>10. CASE DrainTry
  <2>1. CASE Q!TryDequeueFails(Worker)
    <3>1. pc[Worker] = "idle" /\ Moves(Worker, "idle", "idle")
      BY <1>1, <2>1 DEF Q!TryDequeueFails, Q!Call, Moves
    <3>2. Turns
      <4>1. wpc' = "exited" \/ (wpc' = "taking" /\ dequeue_sem > 0)
        BY <1>10 DEF DrainTry
      <4>2. dequeue_sem = 0 /\ wpc' = "exited"
        BY <2>1, <4>1 DEF Q!TryDequeueFails
      <4> QED
        BY <1>10, <4>2 DEF DrainTry, Turns
    <3> QED
      BY <1>6, <1>10, <2>1, <3>1, <3>2 DEF DrainTry, Q!TryDequeueFails
  <2>2. CASE dequeue_sem > 0 /\ Q!TryDequeue(Worker)
    <3>1. Moves(Worker, "idle", "deq_lock") /\ UNCHANGED <<list, data>>
      BY <1>1, <2>2 DEF Q!TryDequeue, Q!TryDequeueFails, Q!Call, Q!Goto, Moves
    <3>2. Turns
      <4>1. wpc' = "taking"
        BY <1>10, <2>2 DEF DrainTry, Q!TryDequeueFails
      <4> QED
        BY <1>1, <1>10, <3>1, <4>1 DEF DrainTry, Moves, Turns
    <3> QED
      BY <1>6, <1>10, <3>1, <3>2 DEF DrainTry
  <2> QED
    BY <1>10, <2>1, <2>2 DEF DrainTry
<1>11. CASE Aside
  <2>1. UNCHANGED <<list, pc, data, ret, executed, posted, early>>
    BY <1>11, AsideLeaves DEF queueVars
  <2>2. Turns
    BY <1>11, <2>1 DEF Aside, Stop, Start, Finished, LeaveLoop, DrainFinished, Join,
       JoinReturns, vars, Turns, IInv, Phases
  <2> QED
    BY <2>1, <2>2 DEF Rests, InFlight, Waiting, At
<1> QED
  BY <1>1, <1>3, <1>4, <1>5, <1>7, <1>8, <1>9, <1>10, <1>11, Steps DEF Aside

\* The items in the line are items.
LEMMA LineTyped ==
  ASSUME IInv
  PROVE  /\ Listed(Item, list) /\ Listed(Item, executed)
         /\ Kept \subseteq Item /\ early \subseteq Item /\ Waiting \subseteq Item
<1>1. Listed(Item, list) /\ Listed(Item, executed)
  BY ElementsOf DEF IInv, TypeOK, Q!TypeOK
<1>2. Kept \subseteq Item
  BY <1>1, Zenon DEF Kept, Listed, IInv, Numbers
<1>3. Waiting \subseteq Item
  BY EnqueuedItem DEF Waiting, At, Enqueueing
<1> QED
  BY <1>1, <1>2, <1>3 DEF IInv, TypeOK

\* An item is the pair of its thread and its number.
LEMMA ItemParts ==
  ASSUME NEW d \in Item
  PROVE  d[1] \in Users /\ d[2] \in Nat /\ d = <<d[1], d[2]>>
  BY WorkThreadAssumption DEF WorkThreadAssumption, Item

\* What a step does to the numbers and to the calls in progress.
LEMMA NumbersStep ==
  ASSUME IInv, [Next]_vars
  PROVE  Numbers'
<1>1. /\ Worker \in Users /\ Posters \subseteq Users /\ pc \in [Users -> Q!PCs] /\ Numbers
      /\ posted \in [Users -> 0..(PerPoster + SelfPosts)]
      /\ data \in [Users -> Item \cup {Null}]
      /\ Kept \subseteq Item /\ early \subseteq Item
  BY QueueTyped, LineTyped DEF Users, IInv, TypeOK
<1>2. \A u \in Users : posted[u] \in Nat
  BY <1>1, WorkThreadAssumption DEF WorkThreadAssumption
<1>3. \A d \in Kept \cup early : d[1] \in Users /\ d[2] \in Nat
  BY <1>1, ItemParts
<1>4. ASSUME NEW u \in Users, Enters(u)
      PROVE  Numbers'
  <2>1. /\ pc' = [pc EXCEPT ![u] = "enq_wait"] /\ posted' = [posted EXCEPT ![u] = @ + 1]
        /\ data' = [data EXCEPT ![u] = <<u, posted[u] + 1>>]
        /\ Kept' = Kept /\ early' = early /\ InFlight' = InFlight
    BY <1>4 DEF Enters, PostItem, Q!Enqueue, Q!Call, Q!Goto, Kept
  <2>2. \A v \in Users : posted[v] <= posted'[v] /\ posted'[v] \in Nat
    BY <1>1, <1>2, <2>1
  <2>3. \A d \in Kept \cup early : d[2] <= posted'[d[1]]
    BY <1>1, <1>2, <1>3, <2>2 DEF Numbers
  <2>4. \A v \in Users : pc'[v] \in Enqueueing =>
          data'[v] = <<v, posted'[v]>> /\ posted'[v] > 0
    BY <1>1, <1>2, <2>1 DEF Numbers
  <2>5. \A d \in early : pc'[d[1]] \in Enqueueing => d[2] < posted'[d[1]]
    <3> SUFFICES ASSUME NEW d \in early, pc'[d[1]] \in Enqueueing
                 PROVE  d[2] < posted'[d[1]]
      OBVIOUS
    <3>1. CASE d[1] = u
      BY <1>1, <1>2, <1>3, <2>1, <3>1 DEF Numbers
    <3>2. CASE d[1] # u
      BY <1>1, <1>2, <1>3, <2>1, <3>2 DEF Numbers
    <3> QED
      BY <3>1, <3>2
  <2> QED
    BY <1>1, <2>1, <2>3, <2>4, <2>5 DEF Numbers
<1>5. ASSUME NEW u \in Users, Appends(u)
      PROVE  Numbers'
  <2>1. /\ pc[u] = "enq_lock" /\ pc' = [pc EXCEPT ![u] = "enq_post"]
        /\ UNCHANGED <<data, posted, early>> /\ InFlight' = InFlight
    BY <1>5 DEF Appends, Q!EnqueueAppend, Q!Goto
  <2>2. Kept' = Kept \cup {data[u]}
    BY <1>5 DEF Appends, AppendedTo, Kept
  <2>3. data[u] = <<u, posted[u]>>
    BY <1>1, <2>1 DEF Numbers, Enqueueing
  <2>4. \A d \in Kept' \cup early : d[2] <= posted[d[1]]
    BY <1>1, <1>2, <2>2, <2>3 DEF Numbers
  <2>5. \A v \in Users : pc'[v] \in Enqueueing => pc[v] \in Enqueueing
    BY <1>1, <2>1 DEF Enqueueing
  <2> QED
    BY <1>1, <1>3, <2>1, <2>4, <2>5 DEF Numbers
<1>6. ASSUME UNCHANGED <<data, posted, early>>, Kept' \subseteq Kept,
             \A v \in Users : pc'[v] \in Enqueueing => pc[v] \in Enqueueing
      PROVE  Numbers'
  <2>1. InFlight' \subseteq Item
    BY <1>1, <1>6 DEF Kept
  <2> QED
    BY <1>1, <1>3, <1>6, <2>1 DEF Numbers
<1>7. CASE Removes
  <2>1. Kept' = Kept
    BY <1>7 DEF Removes, TailOf, Kept
  <2> QED
    BY <1>1, <1>6, <1>7, <2>1 DEF Removes, Q!DequeueRemove, Q!Goto, Enqueueing
<1>8. CASE Dispatches
  <2>1. Kept' = Kept
    BY <1>8 DEF Dispatches, AppendedTo, Kept
  <2> QED
    BY <1>1, <1>6, <1>8, <2>1 DEF Dispatches, Q!DequeuePost, Q!Goto, Enqueueing
<1>9. CASE Drops
  <2>1. Kept' \subseteq Kept
    BY <1>9 DEF Drops, Kept
  <2> QED
    BY <1>1, <1>6, <1>9, <2>1 DEF Drops, Q!DequeuePost, Q!Goto, Enqueueing
<1>10. CASE Rests
  <2>1. /\ Kept' = Kept /\ posted' = posted /\ InFlight' = InFlight
        /\ \A u \in Users : pc'[u] \in Enqueueing => pc[u] \in Enqueueing /\ data'[u] = data[u]
    BY <1>10 DEF Rests, Kept
  <2>2. CASE UNCHANGED early
    BY <1>1, <1>3, <2>1, <2>2 DEF Numbers
  <2>3. ASSUME NEW u \in Users, pc[u] = "enq_post", pc'[u] = "idle", early' = early \cup {data[u]}
        PROVE  Numbers'
    <3>1. data[u] = <<u, posted[u]>> /\ data[u][1] = u /\ data[u][2] = posted[u]
      BY <1>1, <2>3 DEF Numbers, Enqueueing
    <3>2. \A d \in Kept \cup early' : d[2] <= posted[d[1]]
      BY <1>1, <1>2, <2>3, <3>1 DEF Numbers
    <3>3. \A d \in early' : pc'[d[1]] \in Enqueueing => d[2] < posted[d[1]]
      BY <1>1, <1>3, <2>1, <2>3, <3>1 DEF Numbers, Enqueueing
    <3> QED
      BY <1>1, <2>1, <3>2, <3>3 DEF Numbers
  <2> QED
    BY <1>10, <2>2, <2>3 DEF Rests
<1> QED
  BY <1>4, <1>5, <1>7, <1>8, <1>9, <1>10, LineStep

\* A new item comes after everything that is in the line.
LEMMA NewItemLast ==
  ASSUME IInv, NEW u \in Users, posted[u] < PerPoster + SelfPosts, pc[u] = "idle"
  PROVE  AllBefore(PostOrder, Kept \cup Waiting, {<<u, posted[u] + 1>>})
<1> DEFINE x == <<u, posted[u] + 1>>
<1>1. x \in Item /\ x[1] = u /\ x[2] = posted[u] + 1 /\ posted[u] \in Nat
  BY NextItem, WorkThreadAssumption DEF WorkThreadAssumption, IInv, TypeOK
<1>2. ASSUME NEW d \in Kept
      PROVE  <<d, x>> \in PostOrder
  <2>1. d \in Item /\ d[2] \in Nat
    BY LineTyped, ItemParts
  <2>2. d[1] = u => d[2] <= posted[u]
    BY DEF IInv, Numbers
  <2>3. d[1] = x[1] => d[2] < x[2]
    BY <1>1, <2>1, <2>2
  <2> QED
    BY <1>1, <2>1, <2>3 DEF PostOrder
<1>3. ASSUME NEW d \in Waiting
      PROVE  <<d, x>> \in PostOrder
  <2>1. PICK v \in Users : pc[v] \in Enqueueing /\ d = data[v]
    BY <1>3 DEF Waiting, At, Enqueueing
  <2>2. d \in Item /\ d[1] = v /\ v # u
    BY <2>1, EnqueuedItem DEF Enqueueing
  <2> QED
    BY <1>1, <2>2 DEF PostOrder
<1> QED
  BY <1>2, <1>3 DEF AllBefore

\* The line stays in order.
LEMMA OrderStep ==
  ASSUME IInv, [Next]_vars
  PROVE  LineOrder'
<1>1. /\ LineOrder /\ list \in Seq(Item) /\ executed \in Seq(Item)
      /\ Kept \subseteq Item /\ Waiting \subseteq Item
  BY LineTyped DEF IInv, TypeOK, Q!TypeOK
<1>2. ASSUME NEW u \in Users, Enters(u)
      PROVE  LineOrder'
  <2> DEFINE x == <<u, posted[u] + 1>>
  <2>1. AllBefore(PostOrder, Kept \cup Waiting, {x})
    BY <1>2, NewItemLast DEF Enters, PostItem, Q!Enqueue, Q!Call
  <2>2. /\ AllBefore(PostOrder, Range(executed), {x}) /\ AllBefore(PostOrder, InFlight, {x})
        /\ AllBefore(PostOrder, Range(list), {x})
    BY <2>1 DEF AllBefore, Kept
  <2>3. /\ AllBefore(PostOrder, Range(executed), InFlight \cup Range(list) \cup Waiting')
        /\ AllBefore(PostOrder, InFlight, Range(list) \cup Waiting')
        /\ AllBefore(PostOrder, Range(list), Waiting')
    BY <1>1, <1>2, <2>2 DEF Enters, LineOrder, AllBefore
  <2> QED
    BY <1>1, <1>2, <2>3, Zenon DEF Enters, LineOrder
<1>3. ASSUME NEW u \in Users, Appends(u)
      PROVE  LineOrder'
  <2> DEFINE x == data[u]
  <2>1. /\ x \in Waiting /\ x \in Item /\ Range(list)' = Range(list) \cup {x}
        /\ list' = Append(list, x) /\ pc[u] = "enq_lock" /\ UNCHANGED data
    BY <1>1, <1>3, Zenon DEF Appends, AppendedTo, Q!EnqueueAppend
  <2>2. AllBefore(PostOrder, Range(list), {x})
    BY <1>1, <2>1 DEF LineOrder, AllBefore
  <2>3. InOrder(PostOrder, list')
    BY <1>1, <2>1, <2>2, AppendedInOrder DEF LineOrder
  <2>4. AllBefore(PostOrder, {x}, Waiting')
    <3> SUFFICES ASSUME NEW d \in Waiting'
                 PROVE  <<x, d>> \in PostOrder
      BY DEF AllBefore
    <3>1. PICK v \in Users : pc'[v] \in {"enq_wait", "enq_lock"} /\ d = data'[v]
      BY DEF Waiting, At
    <3>2. v # u /\ pc[v] \in {"enq_wait", "enq_lock"} /\ d = data[v]
      BY <1>3, <2>1, <3>1 DEF Appends
    <3>3. d \in Item /\ d[1] = v
      BY <3>2, EnqueuedItem DEF Enqueueing
    <3>4. x[1] = u
      BY <2>1, EnqueuedItem DEF Enqueueing
    <3> QED
      BY <2>1, <3>2, <3>3, <3>4 DEF PostOrder
  <2>5. /\ AllBefore(PostOrder, Range(executed), InFlight \cup Range(list)' \cup Waiting')
        /\ AllBefore(PostOrder, InFlight, Range(list)' \cup Waiting')
        /\ AllBefore(PostOrder, Range(list)', Waiting')
    BY <1>1, <1>3, <2>1, <2>4 DEF Appends, LineOrder, AllBefore
  <2> QED
    BY <1>1, <1>3, <2>3, <2>5, Zenon DEF Appends, LineOrder
<1>4. CASE Removes
  <2>1. list' = Tail(list) /\ list # <<>>
    BY <1>4, BalanceSays DEF Removes, Q!DequeueRemove, IInv
  <2>2. Range(list) = Range(list)' \cup {Head(list)} /\ InFlight' = {Head(list)}
        /\ Waiting' = Waiting /\ Range(executed)' = Range(executed) /\ executed' = executed
    BY <1>4, Zenon DEF Removes, TailOf
  <2>3. InOrder(PostOrder, list') /\ AllBefore(PostOrder, {Head(list)}, Range(list)')
    BY <1>1, <2>1, TailInOrder DEF LineOrder
  <2>4. /\ AllBefore(PostOrder, Range(executed), {Head(list)} \cup Range(list)' \cup Waiting)
        /\ AllBefore(PostOrder, {Head(list)}, Range(list)' \cup Waiting)
        /\ AllBefore(PostOrder, Range(list)', Waiting)
    BY <1>1, <2>2, <2>3 DEF LineOrder, AllBefore
  <2> QED
    BY <1>1, <2>2, <2>3, <2>4, Zenon DEF LineOrder
<1>5. CASE Dispatches
  <2> DEFINE x == ret[Worker]
  <2>1. /\ Range(executed)' = Range(executed) \cup {x} /\ InFlight = {x} /\ InFlight' = {}
        /\ Waiting' = Waiting /\ Range(list)' = Range(list) /\ list' = list
    BY <1>5, Zenon DEF Dispatches, AppendedTo
  <2>2. x \in Item
    BY <1>1, <2>1 DEF Kept
  <2>3. AllBefore(PostOrder, Range(executed), {x})
    BY <1>1, <2>1 DEF LineOrder, AllBefore
  <2>4. executed' = Append(executed, x)
    BY <1>5 DEF Dispatches
  <2>5. InOrder(PostOrder, executed')
    BY <1>1, <2>2, <2>3, <2>4, AppendedInOrder DEF LineOrder
  <2>6. /\ AllBefore(PostOrder, Range(executed)', {} \cup Range(list) \cup Waiting)
        /\ AllBefore(PostOrder, {}, Range(list) \cup Waiting)
    BY <1>1, <2>1 DEF LineOrder, AllBefore
  <2> QED
    BY <1>1, <2>1, <2>5, <2>6, Zenon DEF LineOrder
<1>6. CASE Drops
  <2>1. /\ AllBefore(PostOrder, Range(executed), {} \cup Range(list) \cup Waiting)
        /\ AllBefore(PostOrder, {}, Range(list) \cup Waiting)
    BY <1>1 DEF LineOrder, AllBefore
  <2> QED
    BY <1>1, <1>6, <2>1, Zenon DEF Drops, LineOrder
<1>7. CASE Rests
  BY <1>1, <1>7, Zenon DEF Rests, LineOrder
<1> QED
  BY <1>2, <1>3, <1>4, <1>5, <1>6, <1>7, LineStep

\* The item of a thread_post in progress is not among those whose thread_post
\* returned.
LEMMA NotEarly ==
  ASSUME IInv, NEW u \in Users, pc[u] \in Enqueueing
  PROVE  data[u] \notin early
<1>1. data[u] = <<u, posted[u]>> /\ posted[u] \in Nat
  BY EnqueuedItem, WorkThreadAssumption DEF WorkThreadAssumption, IInv, TypeOK
<1>2. data[u] \in early => posted[u] < posted[u]
  BY <1>1 DEF IInv, Numbers
<1> QED
  BY <1>1, <1>2

\* If nobody else is posting at thread_stop, the draining loop dispatches what
\* had been posted before.
LEMMA DrainedStep ==
  ASSUME IInv, Quiet, [Next]_vars
  PROVE  Drained'
<1>1. /\ Worker \in Users /\ pc \in [Users -> Q!PCs] /\ Drained /\ Phases
      /\ list \in Seq(Item) /\ ret \in [Users -> Item \cup {Null}]
      /\ data \in [Users -> Item \cup {Null}] /\ count \in Nat /\ Capacity \in Nat
  BY QueueTyped, WorkThreadAssumption DEF WorkThreadAssumption, Users, IInv, TypeOK
<1>2. Len(list) \in Nat /\ DOMAIN list = 1..Len(list) /\ Len(list) <= Capacity
  BY <1>1, BalanceSays DEF IInv
<1>3. ASSUME NEW u \in Users, Enters(u)
      PROVE  Drained'
  <2>1. /\ pc[u] = "idle" /\ pc' = [pc EXCEPT ![u] = "enq_wait"]
        /\ data' = [data EXCEPT ![u] = <<u, posted[u] + 1>>]
        /\ ret' = [ret EXCEPT ![u] = Null]
        /\ UNCHANGED <<list, early, wpc, count>> /\ Kept' = Kept
        /\ Range(executed)' = Range(executed)
    BY <1>3 DEF Enters, PostItem, Q!Enqueue, Q!Call, Q!Goto, Kept
  <2>2. Used' = Used
    BY <1>1, <2>1 DEF Used
  <2>3. \A v \in At("enq_post")' : v \in At("enq_post") /\ data'[v] = data[v]
    BY <1>1, <2>1 DEF At
  <2>4. pc'[Worker] = "deq_post" => pc[Worker] = "deq_post" /\ ret'[Worker] = ret[Worker]
    BY <1>1, <2>1
  <2>5. /\ list' = list /\ early' = early /\ wpc' = wpc /\ count' = count
        /\ Kept' = Kept /\ Range(executed)' = Range(executed)
    BY <2>1
  <2>6. (\A v \in At("enq_post") : data[v] \in Kept)'
    BY <1>1, <2>3, <2>5, Zenon DEF Drained
  <2> QED
    BY <1>1, <2>2, <2>4, <2>5, <2>6, Zenon DEF Drained
<1>4. ASSUME NEW u \in Users, Appends(u)
      PROVE  Drained'
  <2>1. /\ pc[u] = "enq_lock" /\ pc' = [pc EXCEPT ![u] = "enq_post"]
        /\ UNCHANGED <<data, ret, early, wpc, count, executed>> /\ Kept' = Kept \cup {data[u]}
        /\ Range(executed)' = Range(executed)
    BY <1>4 DEF Appends, AppendedTo, Q!EnqueueAppend, Q!Goto, Kept
  <2>2. Used' = Used /\ (pc'[Worker] = "deq_post" => pc[Worker] = "deq_post")
    BY <1>1, <2>1 DEF Used
  <2>3. \A v \in At("enq_post")' : v = u \/ v \in At("enq_post")
    BY <1>1, <2>1 DEF At
  <2>4. \A i \in DOMAIN list' :
          (i \in DOMAIN list /\ list'[i] = list[i]) \/ list'[i] = data[u]
    BY <1>2, <1>4 DEF Appends, AppendedTo
  <2>5. data[u] \notin early
    BY <2>1, NotEarly DEF Enqueueing
  <2> QED
    BY <1>1, <2>1, <2>2, <2>3, <2>4, <2>5 DEF Drained
<1>5. CASE Removes
  <2>1. /\ pc[Worker] = "deq_lock" /\ pc' = [pc EXCEPT ![Worker] = "deq_post"]
        /\ ret' = [ret EXCEPT ![Worker] = Head(list)]
        /\ UNCHANGED <<data, early, wpc, count, executed>> /\ Kept' = Kept
        /\ Range(executed)' = Range(executed)
    BY <1>5 DEF Removes, TailOf, Q!DequeueRemove, Q!Goto, Kept
  <2>2. At("enq_post")' = At("enq_post")
    BY <1>1, <2>1 DEF At
  <2>3. wpc # "draining" /\ Used = 0 /\ Used' = 1
    BY <1>1, <2>1 DEF Used, Phases, Enqueueing
  <2>4. /\ Head(list) = list[1] /\ 1 \in DOMAIN list
        /\ \A i \in DOMAIN list' : i \in Nat /\ i + 1 \in DOMAIN list /\ list'[i] = list[i + 1]
    <3>1. TailOf(Item, list', list)
      BY <1>5 DEF Removes
    <3>2. list' \in Seq(Item) /\ DOMAIN list' = 1..Len(list')
      BY <3>1 DEF TailOf
    <3>3. Head(list) = list[1] /\ Len(list) \in Nat \ {0}
      BY <3>1 DEF TailOf
    <3>4. \A i \in 1..Len(list') : i + 1 \in 1..Len(list) /\ list'[i] = list[i + 1]
      BY <3>1 DEF TailOf
    <3> QED
      BY <1>2, <3>2, <3>3, <3>4
  <2>5. wpc \in {"drain", "taking", "draining"} =>
          \A i \in DOMAIN list' : list'[i] \in early => i + 1 + count <= Capacity
    <3> SUFFICES ASSUME wpc \in {"drain", "taking", "draining"}, NEW i \in DOMAIN list', list'[i] \in early
                 PROVE  i + 1 + count <= Capacity
      OBVIOUS
    <3>1. i + 1 \in DOMAIN list /\ list[i + 1] \in early /\ i \in Nat
      BY <2>4
    <3>2. (i + 1) + Used + count <= Capacity
      BY <1>1, <3>1, Zenon DEF Drained
    <3> QED
      BY <1>1, <2>3, <3>1, <3>2
  <2>6. wpc = "taking" /\ Head(list) \in early => count < Capacity
    <3>1. wpc = "taking" /\ Head(list) \in early => 1 + Used + count <= Capacity
      BY <1>1, <2>4 DEF Drained
    <3> QED
      BY <1>1, <2>3, <3>1
  <2>7. wpc # "exited" /\ ret'[Worker] = Head(list)
    BY <1>1, <2>1 DEF Phases
  <2> QED
    BY <1>1, <2>1, <2>2, <2>3, <2>5, <2>6, <2>7 DEF Drained
<1>6. CASE Dispatches
  <2>1. /\ pc[Worker] = "deq_post" /\ pc' = [pc EXCEPT ![Worker] = "idle"]
        /\ UNCHANGED <<list, data, early, count>> /\ Kept' = Kept
    BY <1>6 DEF Dispatches, AppendedTo, Q!DequeuePost, Q!Goto, Kept
  <2>2. At("enq_post")' = At("enq_post") /\ pc'[Worker] # "deq_post"
    BY <1>1, <2>1 DEF At
  <2>3. CASE wpc = "fetching" /\ wpc' = "running"
    BY <1>1, <2>1, <2>2, <2>3 DEF Drained
  <2>4. CASE wpc = "taking" /\ wpc' = "draining"
    <3>1. Used = 1 /\ Used' = 1
      BY <2>1, <2>4 DEF Used
    <3> QED
      BY <1>1, <2>1, <2>2, <2>4, <3>1 DEF Drained
  <2> QED
    BY <1>6, <2>3, <2>4 DEF Dispatches
<1>7. CASE Drops
  <2>1. /\ pc[Worker] = "deq_post" /\ pc' = [pc EXCEPT ![Worker] = "idle"]
        /\ wpc = "taking" /\ wpc' = "exited" /\ count > Capacity
        /\ UNCHANGED <<early, executed>> /\ Range(executed)' = Range(executed)
        /\ InFlight = {ret[Worker]}
    BY <1>7 DEF Drops, Q!DequeuePost, Q!Goto
  <2>2. At("enq_post")' = {}
    <3>1. stopping /\ \A p \in Posters : pc[p] = "idle"
      BY <1>1, <2>1 DEF Phases
    <3> QED
      BY <1>1, <2>1, <3>1 DEF At, Users
  <2>3. ret[Worker] \notin early
    BY <1>1, <2>1 DEF Drained
  <2>4. \A i \in DOMAIN list : list[i] \notin early
    <3>1. \A i \in DOMAIN list : list[i] \in early => i + Used + count <= Capacity
      BY <1>1, <2>1 DEF Drained
    <3>2. Used = 1 /\ \A i \in DOMAIN list : i \in Nat
      BY <1>2, <2>1 DEF Used
    <3> QED
      BY <1>1, <2>1, <3>1, <3>2
  <2>5. early \cap Range(list) = {}
    BY <2>4 DEF Range
  <2>6. early \subseteq Range(executed)
    BY <1>1, <2>1, <2>3, <2>5 DEF Drained, Kept
  <2>7. Range(executed) \subseteq Kept'
    BY <2>1 DEF Kept
  <2> QED
    BY <2>1, <2>2, <2>6, <2>7 DEF Drained
<1>8. CASE Rests
  <2>1. /\ Kept' = Kept /\ UNCHANGED <<list, executed>> /\ Range(executed)' = Range(executed)
        /\ \A u \in At("enq_post")' : u \in At("enq_post") /\ data'[u] = data[u]
        /\ Turns
    BY <1>8 DEF Rests, Kept
  <2>2. \A u \in At("enq_post")' : data'[u] \in Kept'
    BY <1>1, <2>1 DEF Drained
  <2>3. early' \subseteq Kept'
    BY <1>1, <1>8, <2>1 DEF Rests, Drained, At
  <2>4. wpc \in {"drain", "taking", "draining", "exited"} => UNCHANGED early
    BY <1>1, <1>8 DEF Rests, Phases
  <2>5. CASE /\ UNCHANGED <<wpc, count>>
             /\ pc'[Worker] = "deq_post" <=> pc[Worker] = "deq_post"
             /\ pc[Worker] = "deq_post" => ret'[Worker] = ret[Worker]
    <3>1. Used' = Used
      BY <2>5 DEF Used
    <3> QED
      BY <1>1, <2>1, <2>2, <2>3, <2>4, <2>5, <3>1 DEF Drained
  <2>6. CASE wpc' \in {"loop", "fetching"} /\ UNCHANGED early
    BY <1>1, <2>1, <2>2, <2>3, <2>6 DEF Drained
  <2>7. CASE /\ wpc = "loop" /\ wpc' = "drain" /\ count' = 0
             /\ pc'[Worker] # "deq_post" /\ UNCHANGED early
    <3>1. Used' = 0
      BY <2>7 DEF Used
    <3>2. \A i \in DOMAIN list : i + 0 + 0 <= Capacity
      BY <1>1, <1>2
    <3> QED
      BY <2>1, <2>2, <2>3, <2>7, <3>1, <3>2 DEF Drained
  <2>8. CASE /\ wpc = "draining" /\ wpc' = "drain" /\ count' = count + 1
             /\ pc'[Worker] # "deq_post" /\ UNCHANGED early
    <3>1. Used' = 0 /\ Used = 1
      BY <2>8 DEF Used
    <3>2. \A i \in DOMAIN list : list[i] \in early => i + 0 + (count + 1) <= Capacity
      <4>1. \A i \in DOMAIN list : list[i] \in early => i + 1 + count <= Capacity
        BY <1>1, <2>8, <3>1 DEF Drained
      <4> QED
        BY <1>1, <1>2, <4>1
    <3> QED
      BY <2>1, <2>2, <2>3, <2>8, <3>1, <3>2 DEF Drained
  <2>9. CASE /\ wpc = "drain" /\ wpc' = "taking" /\ count' = count
             /\ pc'[Worker] # "deq_post" /\ UNCHANGED early
    <3>1. Used' = 0 /\ Used = 0
      BY <1>1, <2>9 DEF Used, Phases
    <3> QED
      BY <1>1, <2>1, <2>2, <2>3, <2>9, <3>1 DEF Drained
  <2>10. CASE wpc = "drain" /\ wpc' = "exited" /\ dequeue_sem = 0 /\ UNCHANGED early
    <3>1. \A u \in Users : pc[u] = "idle"
      BY <1>1, <2>10 DEF Phases, Users
    <3>2. list = <<>>
      BY <2>10, <3>1, BalanceSays DEF IInv
    <3>3. InFlight = {} /\ Range(list) = {}
      BY <1>1, <3>1, <3>2 DEF InFlight, Range
    <3>4. early \subseteq Range(executed)
      BY <1>1, <3>3 DEF Drained, Kept
    <3> QED
      BY <2>1, <2>2, <2>3, <2>10, <3>4 DEF Drained
  <2> QED
    BY <2>1, <2>5, <2>6, <2>7, <2>8, <2>9, <2>10 DEF Turns
<1> QED
  BY <1>3, <1>4, <1>5, <1>6, <1>7, <1>8, LineStep

-----------------------------------------------------------------------------
\* The initial states.
LEMMA InitHolds ==
  ASSUME Init
  PROVE  IInv
<1>1. Worker \in Users
  BY DEF Users
<1>2. Q!TypeOK
  BY WorkThreadAssumption DEF WorkThreadAssumption, Init, Q!Init, Q!TypeOK, Q!PCs
<1>3. TypeOK
  <2>1. /\ count \in 0..(Capacity + 1) /\ posted \in [Users -> 0..(PerPoster + SelfPosts)]
        /\ joins \in [Joiners -> 0..JoinCalls] /\ executed \in Seq(Item)
    BY WorkThreadAssumption DEF WorkThreadAssumption, Init
  <2> QED
    BY <1>2, <2>1 DEF TypeOK, Init
<1>4. Phases
  BY <1>1 DEF Init, Q!Init, Phases, Users
<1>5. \A l : l # "idle" => At(l) = {} /\ Cardinality(At(l)) = 0
  <2>1. \A l : l # "idle" => At(l) = {}
    BY DEF Init, Q!Init, At
  <2> QED
    BY <2>1, CountType
<1>6. Balance
  <2>1. list = <<>> /\ enqueue_sem = Capacity /\ dequeue_sem = 0
    BY DEF Init, Q!Init
  <2> QED
    BY <1>5, <2>1, WorkThreadAssumption DEF WorkThreadAssumption, Balance
<1>7. /\ list = <<>> /\ executed = <<>> /\ Range(list) = {} /\ Range(executed) = {}
      /\ InFlight = {} /\ Waiting = {} /\ early = {} /\ DOMAIN list = {}
  BY <1>1, <1>5 DEF Init, Q!Init, InFlight, Waiting, Range
<1>8. LineOrder
  BY <1>7 DEF LineOrder, InOrder, AllBefore
<1>9. Numbers
  BY <1>7 DEF Init, Q!Init, Numbers, Kept, Enqueueing
<1>10. Drained
  BY <1>5, <1>7 DEF Init, Drained, Kept
<1>11. JoinOrder
  BY DEF Init, JoinOrder
<1> QED
  BY <1>3, <1>4, <1>6, <1>8, <1>9, <1>10, <1>11 DEF IInv

\* The invariant of the thread: holds for any posters, joiners and capacity; its
\* parts about the draining loop and about thread_join carry their conditions.
THEOREM WorkThreadInvariant == Spec => []IInv
<1>1. Init => IInv
  BY InitHolds
<1>2. IInv /\ [Next]_vars => IInv'
  BY OwnTypeStep, PhasesStep, BalanceStep, OrderStep, NumbersStep, DrainedStep, JoinStep
  DEF IInv, OneJoiner
<1> QED
  BY <1>1, <1>2, PTL DEF Spec

\* The items of one poster are dispatched in the order of its thread_post calls
\* and at most once, whenever thread_stop is called.
THEOREM WorkThreadPostingOrder == Spec => []RunInPostingOrder
<1>1. IInv => RunInPostingOrder
  <2> SUFFICES ASSUME IInv, NEW i \in 1..Len(executed), NEW j \in 1..Len(executed), i < j,
                      executed[i][1] = executed[j][1]
               PROVE  executed[i][2] < executed[j][2]
    BY DEF RunInPostingOrder
  <2>1. DOMAIN executed = 1..Len(executed)
    BY LineTyped DEF Listed
  <2>2. <<executed[i], executed[j]>> \in PostOrder
    BY <2>1, Zenon DEF IInv, LineOrder, InOrder
  <2> QED
    BY <2>2 DEF PostOrder
<1> QED
  BY <1>1, WorkThreadInvariant, PTL

\* If no other thread is inside thread_post at thread_stop and one thread joins,
\* then every item whose thread_post returned before thread_stop has run when
\* the thread exits, and thread_join returns only then.
THEOREM WorkThreadTeardown ==
  ASSUME Quiet, OneJoiner
  PROVE  Spec => []TeardownItemRuns
<1>1. IInv => TeardownItemRuns
  <2> SUFFICES ASSUME IInv
               PROVE  TeardownItemRuns
    OBVIOUS
  <2>1. TypeOK /\ \A j \in Joiners : jpc[j] = "returned" => wpc = "exited"
    BY DEF IInv, JoinOrder
  <2>2. wpc = "exited" => early \subseteq Range(executed)
    BY DEF IInv, Drained
  <2>3. \A d : d \in Range(executed) <=> \E i \in 1..Len(executed) : executed[i] = d
    BY LineTyped DEF Listed
  <2> QED
    BY <2>1, <2>2, <2>3, Zenon DEF TeardownItemRuns
<1> QED
  BY <1>1, WorkThreadInvariant, PTL

=============================================================================
