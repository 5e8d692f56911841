----------------------------- MODULE FixedQueue -----------------------------
(***************************************************************************)
(* osi/src/fixed_queue.cc: a bounded queue built from a list under a mutex *)
(* and two counting semaphores, enqueue_sem for the free places and        *)
(* dequeue_sem for the elements.  No step of an operation covers both a    *)
(* semaphore and the list, except fixed_queue_try_remove_from_queue, which *)
(* takes its token while it holds the mutex: every operation is split at   *)
(* its semaphore calls, and threads interleave there.                      *)
(*                                                                         *)
(* What a semaphore does is taken from Semaphore.tla.  For callers that do *)
(* not wait on and try one semaphore from different threads (Unmixed) a    *)
(* semaphore operation takes effect in one step; a semaphore_try_wait that *)
(* finds no unit returns false or, if another thread tries the same        *)
(* semaphore (Contended), may sleep until there is one.  When exactly the  *)
(* other try_wait overlaps is not followed.  The peeking operations and    *)
(* fixed_queue_length change nothing and are left out.                     *)
(***************************************************************************)
EXTENDS Integers, Sequences, FiniteSets

CONSTANTS Threads,    \* users of the queue
          Items,      \* pointers that are enqueued; the same one may be
                      \* enqueued several times
          Null,       \* NULL
          Capacity,   \* |capacity| of fixed_queue_new
          MaxCalls,   \* bound on the number of calls
          Usages      \* the ways queues are used, see Usage

\* u.wait[s] and u.try[s] are the threads that take units from semaphore s with
\* semaphore_wait (fixed_queue_enqueue, fixed_queue_dequeue) and with
\* semaphore_try_wait (fixed_queue_try_enqueue; fixed_queue_try_dequeue,
\* fixed_queue_try_remove_from_queue and fixed_queue_flush).
Usage == [{"wait", "try"} -> [{"enqueue_sem", "dequeue_sem"} -> SUBSET Threads]]

\* No queue of the stack has a thread wait on a semaphore that another one tries.
Unmixed(u) == \A s \in {"enqueue_sem", "dequeue_sem"} :
                \A t \in u.try[s], w \in u.wait[s] : t = w

ASSUME FixedQueueAssumption ==
  /\ IsFiniteSet(Threads)
  /\ Usages \subseteq Usage
  /\ \A u \in Usages : Unmixed(u)
  /\ Capacity \in Nat
  /\ MaxCalls \in Nat
  /\ Null \notin Items

VARIABLES list,          \* queue->list
          enqueue_sem,   \* value of queue->enqueue_sem
          dequeue_sem,   \* value of queue->dequeue_sem
          pc,            \* pc[t]: the next step of t's call
          data,          \* data[t]: the |data| argument of t's enqueue
          ret,           \* ret[t]: the element t's call removed, or NULL
          calls,         \* number of calls so far
          use            \* how this queue is used: one of Usages

vars == <<list, enqueue_sem, dequeue_sem, pc, data, ret, calls, use>>

\* Where the steps of a call stand with respect to the tokens they hold.
Appending == {"enq_lock"}                  \* took a place, element not yet in
Announcing == {"enq_post"}                 \* element in, token not yet posted
Removing  == {"deq_lock", "flush_lock"}    \* took a token, element still in
Releasing == {"deq_post", "flush_post"}    \* element out, place not yet posted
\* On a semaphore, in semaphore_wait or in a semaphore_try_wait made to sleep;
\* "rem_wait" holds the mutex at the same time.
Blocking  == {"enq_wait", "deq_wait", "flush_wait", "rem_wait"}
PCs == {"idle", "flush_check", "flush_try"}
         \cup Blocking \cup Appending \cup Announcing \cup Removing \cup Releasing

At(S) == {t \in Threads : pc[t] \in S}

InFlush(t) ==
  pc[t] \in {"flush_check", "flush_try", "flush_wait", "flush_lock", "flush_post"}

\* The types: in particular the two semaphores never go below zero.
TypeOK ==
  /\ list \in Seq(Items)
  /\ enqueue_sem \in Nat
  /\ dequeue_sem \in Nat
  /\ pc \in [Threads -> PCs]
  /\ data \in [Threads -> Items \cup {Null}]
  /\ ret \in [Threads -> Items \cup {Null}]
  /\ calls \in Nat
  /\ use \in Usages

-----------------------------------------------------------------------------
\* fixed_queue_new
Init ==
  /\ list = <<>>
  /\ enqueue_sem = Capacity
  /\ dequeue_sem = 0
  /\ pc = [t \in Threads |-> "idle"]
  /\ data = [t \in Threads |-> Null]
  /\ ret = [t \in Threads |-> Null]
  /\ calls = 0
  /\ use \in Usages

\* A semaphore_try_wait of t may meet that of another thread.
Contended(t, s) == \E u \in use.try[s] : u # t

\* Nobody holds queue->mutex across a step.
MutexFree == At({"rem_wait"}) = {}

Goto(t, label) == pc' = [pc EXCEPT ![t] = label]

Call(t) ==
  /\ pc[t] = "idle"
  /\ calls < MaxCalls
  /\ calls' = calls + 1
  /\ ret' = [ret EXCEPT ![t] = Null]

\* fixed_queue_enqueue: CHECK(data != NULL)
Enqueue(t, d) ==
  /\ t \in use.wait["enqueue_sem"]
  /\ Call(t)
  /\ data' = [data EXCEPT ![t] = d]
  /\ Goto(t, "enq_wait")
  /\ UNCHANGED <<list, enqueue_sem, dequeue_sem>>

\* semaphore_wait(queue->enqueue_sem)
EnqueueWait(t) ==
  /\ pc[t] = "enq_wait"
  /\ enqueue_sem > 0
  /\ enqueue_sem' = enqueue_sem - 1
  /\ Goto(t, "enq_lock")
  /\ UNCHANGED <<list, dequeue_sem, data, ret, calls>>

\* fixed_queue_try_enqueue up to semaphore_try_wait: it returns false, or is
\* made to sleep, when no place is free and goes on like fixed_queue_enqueue
\* otherwise.
TryEnqueue(t, d) ==
  /\ t \in use.try["enqueue_sem"]
  /\ Call(t)
  /\ \/ /\ enqueue_sem > 0
        /\ enqueue_sem' = enqueue_sem - 1
        /\ data' = [data EXCEPT ![t] = d]
        /\ Goto(t, "enq_lock")
     \/ /\ enqueue_sem = 0
        /\ UNCHANGED <<enqueue_sem, data, pc>>
     \/ /\ enqueue_sem = 0
        /\ Contended(t, "enqueue_sem")
        /\ data' = [data EXCEPT ![t] = d]
        /\ Goto(t, "enq_wait")
        /\ UNCHANGED enqueue_sem
  /\ UNCHANGED <<list, dequeue_sem>>

\* list_append under the mutex
EnqueueAppend(t) ==
  /\ pc[t] = "enq_lock" /\ MutexFree
  /\ list' = Append(list, data[t])
  /\ Goto(t, "enq_post")
  /\ UNCHANGED <<enqueue_sem, dequeue_sem, data, ret, calls>>

\* Mutant of EnqueuePost: the element is appended but not announced.
EnqueuePostForgotten(t) ==
  /\ pc[t] = "enq_post"
  /\ Goto(t, "idle")
  /\ UNCHANGED <<list, enqueue_sem, dequeue_sem, data, ret, calls>>

\* semaphore_post(queue->dequeue_sem)
EnqueuePost(t) ==
  /\ pc[t] = "enq_post"
  /\ dequeue_sem' = dequeue_sem + 1
  /\ Goto(t, "idle")
  /\ UNCHANGED <<list, enqueue_sem, data, ret, calls>>

\* fixed_queue_dequeue
Dequeue(t) ==
  /\ t \in use.wait["dequeue_sem"]
  /\ Call(t)
  /\ Goto(t, "deq_wait")
  /\ UNCHANGED <<list, enqueue_sem, dequeue_sem, data>>

\* semaphore_wait(queue->dequeue_sem)
DequeueWait(t) ==
  /\ pc[t] = "deq_wait"
  /\ dequeue_sem > 0
  /\ dequeue_sem' = dequeue_sem - 1
  /\ Goto(t, "deq_lock")
  /\ UNCHANGED <<list, enqueue_sem, data, ret, calls>>

\* The call returns NULL because semaphore_try_wait found no token.
TryDequeueFails(t) ==
  /\ t \in use.try["dequeue_sem"]
  /\ Call(t)
  /\ dequeue_sem = 0
  /\ UNCHANGED <<list, enqueue_sem, dequeue_sem, pc, data>>

\* fixed_queue_try_dequeue up to semaphore_try_wait
TryDequeue(t) ==
  \/ TryDequeueFails(t)
  \/ /\ t \in use.try["dequeue_sem"]
     /\ Contended(t, "dequeue_sem")
     /\ Call(t)
     /\ dequeue_sem = 0
     /\ Goto(t, "deq_wait")
     /\ UNCHANGED <<list, enqueue_sem, dequeue_sem, data>>
  \/ /\ t \in use.try["dequeue_sem"]
     /\ Call(t)
     /\ dequeue_sem > 0
     /\ dequeue_sem' = dequeue_sem - 1
     /\ Goto(t, "deq_lock")
     /\ UNCHANGED <<list, enqueue_sem, data>>

\* Mutant of DequeueRemove: the newest element is removed instead of the oldest.
DequeueRemoveBack(t) ==
  /\ pc[t] = "deq_lock"
  /\ ret' = [ret EXCEPT ![t] = Head(list)]
  /\ list' = SubSeq(list, 1, Len(list) - 1)
  /\ Goto(t, "deq_post")
  /\ UNCHANGED <<enqueue_sem, dequeue_sem, data, calls>>

\* list_front and list_remove under the mutex; list_front CHECKs that the
\* list is not empty.
DequeueRemove(t) ==
  /\ pc[t] = "deq_lock" /\ MutexFree
  /\ ret' = [ret EXCEPT ![t] = Head(list)]
  /\ list' = Tail(list)
  /\ Goto(t, "deq_post")
  /\ UNCHANGED <<enqueue_sem, dequeue_sem, data, calls>>

\* semaphore_post(queue->enqueue_sem)
DequeuePost(t) ==
  /\ pc[t] = "deq_post"
  /\ enqueue_sem' = enqueue_sem + 1
  /\ Goto(t, "idle")
  /\ UNCHANGED <<list, dequeue_sem, data, ret, calls>>

\* list_remove: the element at position i leaves the list.
Without(q, i) ==
  [k \in 1..(Len(q) - 1) |-> IF k < i THEN q[k] ELSE q[k + 1]]

Contains(q, d) == \E i \in 1..Len(q) : q[i] = d

\* With a token and the mutex: list_remove of the first occurrence.
RemoveData(t, d) ==
  /\ dequeue_sem > 0
  /\ \E i \in 1..Len(list) :
       /\ list[i] = d
       /\ \A j \in 1..(i - 1) : list[j] # d
       /\ list' = Without(list, i)
       /\ ret' = [ret EXCEPT ![t] = list[i]]
  /\ dequeue_sem' = dequeue_sem - 1
  /\ Goto(t, "deq_post")

\* Mutant of TryRemove: the element is taken without a token.
TryRemoveWithoutToken(t, d) ==
  /\ t \in use.try["dequeue_sem"]
  /\ pc[t] = "idle" /\ MutexFree
  /\ calls < MaxCalls
  /\ calls' = calls + 1
  /\ \E i \in 1..Len(list) :
       /\ list[i] = d
       /\ list' = Without(list, i)
       /\ ret' = [ret EXCEPT ![t] = list[i]]
  /\ Goto(t, "deq_post")
  /\ UNCHANGED <<enqueue_sem, dequeue_sem, data>>

\* fixed_queue_try_remove_from_queue: list_contains, semaphore_try_wait and
\* list_remove all under the mutex.  NULL is returned when the element is absent
\* or no token is available; a try_wait that is made to sleep keeps the mutex.
TryRemove(t, d) ==
  /\ t \in use.try["dequeue_sem"]
  /\ pc[t] = "idle" /\ MutexFree
  /\ calls < MaxCalls
  /\ calls' = calls + 1
  /\ \/ RemoveData(t, d) /\ UNCHANGED data
     \/ /\ dequeue_sem = 0 \/ ~Contains(list, d)
        /\ ret' = [ret EXCEPT ![t] = Null]
        /\ UNCHANGED <<list, dequeue_sem, pc, data>>
     \/ /\ dequeue_sem = 0 /\ Contains(list, d)
        /\ Contended(t, "dequeue_sem")
        /\ ret' = [ret EXCEPT ![t] = Null]
        /\ data' = [data EXCEPT ![t] = d]
        /\ Goto(t, "rem_wait")
        /\ UNCHANGED <<list, dequeue_sem>>
  /\ UNCHANGED enqueue_sem

\* The sleeping try_wait gets its token.
TryRemoveWakes(t) ==
  /\ pc[t] = "rem_wait"
  /\ RemoveData(t, data[t])
  /\ UNCHANGED <<enqueue_sem, data, calls>>

\* fixed_queue_flush
Flush(t) ==
  /\ t \in use.try["dequeue_sem"]
  /\ Call(t)
  /\ Goto(t, "flush_check")
  /\ UNCHANGED <<list, enqueue_sem, dequeue_sem, data>>

\* while (!fixed_queue_is_empty(queue))
FlushCheck(t) ==
  /\ pc[t] = "flush_check" /\ MutexFree
  /\ Goto(t, IF list = <<>> THEN "idle" ELSE "flush_try")
  /\ UNCHANGED <<list, enqueue_sem, dequeue_sem, data, ret, calls>>

\* The semaphore_try_wait of its fixed_queue_try_dequeue.  Without a token the
\* inner call returns NULL, free_cb is called with NULL and the loop goes on, or
\* the call is made to sleep.
FlushTry(t) ==
  /\ pc[t] = "flush_try"
  /\ \/ /\ dequeue_sem > 0
        /\ dequeue_sem' = dequeue_sem - 1
        /\ Goto(t, "flush_lock")
        /\ UNCHANGED ret
     \/ /\ dequeue_sem = 0
        /\ Goto(t, "flush_check")
        /\ ret' = [ret EXCEPT ![t] = Null]
        /\ UNCHANGED dequeue_sem
     \/ /\ dequeue_sem = 0
        /\ Contended(t, "dequeue_sem")
        /\ Goto(t, "flush_wait")
        /\ UNCHANGED <<ret, dequeue_sem>>
  /\ UNCHANGED <<list, enqueue_sem, data, calls>>

FlushWakes(t) ==
  /\ pc[t] = "flush_wait"
  /\ dequeue_sem > 0
  /\ dequeue_sem' = dequeue_sem - 1
  /\ Goto(t, "flush_lock")
  /\ UNCHANGED <<list, enqueue_sem, data, ret, calls>>

FlushRemove(t) ==
  /\ pc[t] = "flush_lock" /\ MutexFree
  /\ ret' = [ret EXCEPT ![t] = Head(list)]
  /\ list' = Tail(list)
  /\ Goto(t, "flush_post")
  /\ UNCHANGED <<enqueue_sem, dequeue_sem, data, calls>>

FlushPost(t) ==
  /\ pc[t] = "flush_post"
  /\ enqueue_sem' = enqueue_sem + 1
  /\ Goto(t, "flush_check")
  /\ UNCHANGED <<list, dequeue_sem, data, ret, calls>>

Begin(t) ==
  \/ \E d \in Items : Enqueue(t, d) \/ TryEnqueue(t, d) \/ TryRemove(t, d)
  \/ Dequeue(t) \/ TryDequeue(t) \/ Flush(t)

Step(t) ==
  \/ EnqueueWait(t) \/ EnqueueAppend(t) \/ EnqueuePost(t)
  \/ DequeueWait(t) \/ DequeueRemove(t) \/ DequeuePost(t)
  \/ TryRemoveWakes(t)
  \/ FlushCheck(t) \/ FlushTry(t) \/ FlushWakes(t) \/ FlushRemove(t) \/ FlushPost(t)

Next == (\E t \in Threads : Begin(t) \/ Step(t)) /\ UNCHANGED use

Spec == Init /\ [][Next]_vars

\* A thread inside a call runs unless it waits on a semaphore.
FairSpec == Spec /\ \A t \in Threads : WF_vars(Step(t) /\ UNCHANGED use)

-----------------------------------------------------------------------------
\* list.cc: list_front CHECKs that the list is not empty.  A thread that holds
\* a dequeue token finds an element, even when fixed_queue_try_remove_from_queue
\* takes elements from the middle between its semaphore_wait and its lock.
FrontExists == At(Removing) # {} => list # <<>>

\* fixed_queue.h: the queue holds at most |capacity| elements.
WithinCapacity == Len(list) <= Capacity

\* Every place is free, promised to an enqueuer, occupied, or about to be
\* released; every element is announced, promised to a dequeuer, or about to
\* be announced.  The posts of the operations are what keeps both sums.
PlacesBalance ==
  enqueue_sem + Cardinality(At(Appending)) + Len(list)
    + Cardinality(At(Releasing)) = Capacity
ElementsBalance ==
  dequeue_sem + Cardinality(At(Removing)) + Cardinality(At(Announcing))
    = Len(list)

\* When every call has returned or is blocked, nobody is blocked in vain: a
\* blocked dequeuer means an empty list and a blocked enqueuer a full one,
\* or the thread it waits for is already free to run.
NoLostWakeup ==
  At({"idle"} \cup Blocking) = Threads =>
    /\ At(Blocking \ {"enq_wait"}) # {} => list = <<>> \/ dequeue_sem > 0
    /\ At({"enq_wait"}) # {} => Len(list) = Capacity \/ enqueue_sem > 0

\* fixed_queue_flush returns once the callers stop adding elements, if only the
\* thread that flushes tries to dequeue.  (Where others do too, as on
\* tx_audio_queue of btif_a2dp_source.cc, it may sleep on the emptied queue.)
FlushReturns ==
  \A t \in Threads :
    ~Contended(t, "dequeue_sem") /\ InFlush(t) ~> pc[t] = "idle"

\* The operations take effect atomically, in FIFO order and within the
\* capacity: fixed_queue.cc implements the bounded queue of fixed_queue.h.
Fifo == INSTANCE BoundedFifo WITH queue <- list, got <- ret

ImplementsFifo == Fifo!Spec

\* fixed_queue.h, fixed_queue_try_dequeue: "If the queue is empty or NULL,
\* this function returns NULL immediately.  Otherwise, the next element in
\* the queue is returned."
NullOnlyWhenEmpty ==
  [][\A t \in Threads : TryDequeueFails(t) => list = <<>>]_vars

\* The balances, and the data of an enqueue in progress.
Balanced ==
  /\ TypeOK
  /\ PlacesBalance
  /\ ElementsBalance
  /\ \A t \in Threads : pc[t] \in {"enq_wait", "enq_lock"} => data[t] \in Items

\* A fixed_queue_try_remove_from_queue that is made to sleep is alone in it, and,
\* having the mutex, will find its element.
OneSleeper ==
  \A t \in Threads :
    pc[t] = "rem_wait" => Contains(list, data[t]) /\ At({"rem_wait"}) = {t}

IInv == Balanced /\ OneSleeper

=============================================================================
