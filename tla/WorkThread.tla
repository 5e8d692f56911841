----------------------------- MODULE WorkThread -----------------------------
(***************************************************************************)
(* osi/src/thread.cc: a thread that runs the work items posted to it.      *)
(* thread_post enqueues an item on the thread's fixed queue; run_thread    *)
(* dispatches one item per reactor event, leaves the reactor loop when     *)
(* thread_stop has been called, dispatches what is left in the queue, and  *)
(* exits.  The queue is FixedQueue with its semaphore-level steps, so an   *)
(* item that is appended but not yet announced can be missed by the        *)
(* draining loop.                                                          *)
(*                                                                         *)
(* The reactor is reduced to what its level-triggered loop does with two   *)
(* descriptors, the work queue and the stop event, in either order.        *)
(***************************************************************************)
EXTENDS Integers, Sequences, FiniteSets

CONSTANTS Posters,       \* threads that call thread_post
          Worker,        \* the thread_t
          Joiners,       \* threads that call thread_join
          PerPoster,     \* bound on the thread_post calls of a poster
          SelfPosts,     \* bound on the thread_post calls made by work items
          JoinCalls,     \* bound on the thread_join calls of a joiner
          Capacity,      \* work_queue_capacity
          Quiet,         \* TRUE: thread_stop is called only when every
                         \* thread_post of another thread has returned
          Null

ASSUME WorkThreadAssumption ==
  /\ Worker \notin Posters /\ IsFiniteSet(Posters)
  /\ Capacity \in Nat \ {0}      \* CHECK(work_queue_capacity != 0)
  /\ Quiet \in BOOLEAN
  /\ PerPoster \in Nat /\ SelfPosts \in Nat /\ JoinCalls \in Nat

Users == Posters \cup {Worker}

\* The n-th work item that a thread posts.
Item == Users \X (1..(PerPoster + SelfPosts))

VARIABLES list, enqueue_sem, dequeue_sem, pc, data, ret, calls,  \* work_queue
          wpc,        \* where run_thread is
          stop_fd,    \* the reactor's event_fd is readable
          stopping,   \* thread_stop has been called
          count,      \* the local count of run_thread
          posted,     \* posted[u]: number of thread_post calls of u
          early,      \* items whose thread_post returned before thread_stop
          executed,   \* the items dispatched, in order
          is_joined,  \* thread->is_joined
          jpc,        \* jpc[j]: where joiner j's thread_join is
          joins       \* joins[j]: number of thread_join calls of j

queueVars == <<list, enqueue_sem, dequeue_sem, pc, data, ret, calls>>
vars == <<list, enqueue_sem, dequeue_sem, pc, data, ret, calls, wpc, stop_fd,
          stopping, count, posted, early, executed, is_joined, jpc, joins>>

\* How work_queue is used: any thread enqueues and waits for a place; the worker
\* alone dequeues, waiting in the loop and trying in the draining loop.
WorkUsage ==
  [wait |-> [enqueue_sem |-> Users, dequeue_sem |-> {Worker}],
   try |-> [enqueue_sem |-> {}, dequeue_sem |-> {Worker}]]

Q == INSTANCE FixedQueue WITH Threads <- Users, Items <- Item,
       MaxCalls <- 4 * Cardinality(Users) * (PerPoster + SelfPosts + 1),
       Usages <- {WorkUsage}, use <- WorkUsage

\* The types: in particular the draining loop dispatches at most one item more
\* than the capacity.
TypeOK ==
  /\ Q!TypeOK
  /\ wpc \in {"starting", "loop", "fetching", "running", "drain", "taking",
              "draining", "exited"}
  /\ stop_fd \in BOOLEAN
  /\ stopping \in BOOLEAN
  /\ count \in 0..(Capacity + 1)
  /\ posted \in [Users -> 0..(PerPoster + SelfPosts)]
  /\ early \subseteq Item
  /\ executed \in Seq(Item)
  /\ is_joined \in BOOLEAN
  /\ jpc \in [Joiners -> {"idle", "joining", "returned"}]
  /\ joins \in [Joiners -> 0..JoinCalls]

\* thread_new_sized up to the point where run_thread posts start_sem.
Init ==
  /\ Q!Init
  /\ wpc = "starting"
  /\ stop_fd = FALSE
  /\ stopping = FALSE
  /\ count = 0
  /\ posted = [u \in Users |-> 0]
  /\ early = {}
  /\ executed = <<>>
  /\ is_joined = FALSE
  /\ jpc = [j \in Joiners |-> "idle"]
  /\ joins = [j \in Joiners |-> 0]

-----------------------------------------------------------------------------
\* The call of thread_post(thread, func, context) by u.
PostItem(u) ==
  /\ posted' = [posted EXCEPT ![u] = @ + 1]
  /\ Q!Enqueue(u, <<u, posted[u] + 1>>)

\* thread.h: after thread_stop only thread_free and thread_name may be called.
Post(p) ==
  /\ ~stopping
  /\ posted[p] < PerPoster
  /\ PostItem(p)
  /\ UNCHANGED <<wpc, stop_fd, stopping, count, early, executed, is_joined, jpc, joins>>

\* The fixed_queue_enqueue of a thread_post; the post of dequeue_sem is its
\* last step.
PostStep(u) ==
  /\ \/ (Q!EnqueueWait(u) \/ Q!EnqueueAppend(u)) /\ UNCHANGED early
     \/ /\ Q!EnqueuePost(u)
        /\ early' = IF stopping THEN early ELSE early \cup {data[u]}
  /\ UNCHANGED <<wpc, stop_fd, stopping, count, posted, executed, is_joined, jpc, joins>>

\* Mutant of Stop: the reactor is not told.
StopUnsignalled ==
  /\ ~stopping
  /\ Quiet => \A p \in Posters : pc[p] = "idle"
  /\ stopping' = TRUE
  /\ UNCHANGED <<queueVars, wpc, stop_fd, count, posted, early, executed, is_joined, jpc, joins>>

\* thread_stop: reactor_stop writes the reactor's event_fd.
Stop ==
  /\ ~stopping
  /\ Quiet => \A p \in Posters : pc[p] = "idle"
  /\ stopping' = TRUE
  /\ stop_fd' = TRUE
  /\ UNCHANGED <<queueVars, wpc, count, posted, early, executed, is_joined, jpc, joins>>

\* run_thread registers the queue with the reactor and calls reactor_start.
Start ==
  /\ wpc = "starting"
  /\ wpc' = "loop"
  /\ UNCHANGED <<queueVars, stop_fd, stopping, count, posted, early, executed,
                 is_joined, jpc, joins>>

\* The reactor finds the queue readable and calls work_queue_read_cb, which
\* calls fixed_queue_dequeue.
ReadReady ==
  /\ wpc = "loop"
  /\ dequeue_sem > 0
  /\ Q!Dequeue(Worker)
  /\ wpc' = "fetching"
  /\ UNCHANGED <<stop_fd, stopping, count, posted, early, executed, is_joined, jpc, joins>>

\* The steps of a fixed_queue_dequeue or fixed_queue_try_dequeue that found a
\* token.
FetchStep ==
  /\ wpc \in {"fetching", "taking"}
  /\ Q!DequeueWait(Worker) \/ Q!DequeueRemove(Worker)
  /\ UNCHANGED <<wpc, stop_fd, stopping, count, posted, early, executed, is_joined, jpc, joins>>

\* item->func(item->context) starts.
Fetched ==
  /\ wpc = "fetching"
  /\ Q!DequeuePost(Worker)
  /\ executed' = Append(executed, ret[Worker])
  /\ wpc' = "running"
  /\ UNCHANGED <<stop_fd, stopping, count, posted, early, is_joined, jpc, joins>>

\* A work item posts another one to its own thread.
SelfPost ==
  /\ wpc \in {"running", "draining"}
  /\ posted[Worker] < SelfPosts
  /\ PostItem(Worker)
  /\ UNCHANGED <<wpc, stop_fd, stopping, count, early, executed, is_joined, jpc, joins>>

\* func returns and the item is freed.
Finished ==
  /\ wpc = "running"
  /\ pc[Worker] = "idle"
  /\ wpc' = "loop"
  /\ UNCHANGED <<queueVars, stop_fd, stopping, count, posted, early, executed,
                 is_joined, jpc, joins>>

\* run_reactor reads event_fd and returns REACTOR_STATUS_STOP; run_thread
\* unregisters the queue and starts the draining loop.
LeaveLoop ==
  /\ wpc = "loop"
  /\ stop_fd
  /\ stop_fd' = FALSE
  /\ wpc' = "drain"
  /\ count' = 0
  /\ UNCHANGED <<queueVars, stopping, posted, early, executed, is_joined, jpc, joins>>

\* fixed_queue_try_dequeue in the draining loop; no item: the thread exits.
DrainTry ==
  /\ wpc = "drain"
  /\ \/ /\ Q!TryDequeueFails(Worker)
        /\ wpc' = "exited"
     \/ /\ dequeue_sem > 0
        /\ Q!TryDequeue(Worker)
        /\ wpc' = "taking"
  /\ UNCHANGED <<stop_fd, stopping, count, posted, early, executed, is_joined, jpc, joins>>

\* Mutant of DrainTaken: the loop stops one item earlier.
DrainTakenTooFew ==
  /\ wpc = "taking"
  /\ Q!DequeuePost(Worker)
  /\ \/ /\ count < Capacity - 1
        /\ executed' = Append(executed, ret[Worker])
        /\ wpc' = "draining"
     \/ /\ count >= Capacity - 1
        /\ wpc' = "exited"
        /\ UNCHANGED executed
  /\ UNCHANGED <<stop_fd, stopping, count, posted, early, is_joined, jpc, joins>>

\* while (item && count <= fixed_queue_capacity(work_queue)): with count past
\* the capacity the loop ends and the item just taken is not dispatched.
DrainTaken ==
  /\ wpc = "taking"
  /\ Q!DequeuePost(Worker)
  /\ \/ /\ count <= Capacity
        /\ executed' = Append(executed, ret[Worker])
        /\ wpc' = "draining"
     \/ /\ count > Capacity
        /\ wpc' = "exited"
        /\ UNCHANGED executed
  /\ UNCHANGED <<stop_fd, stopping, count, posted, early, is_joined, jpc, joins>>

DrainFinished ==
  /\ wpc = "draining"
  /\ pc[Worker] = "idle"
  /\ count' = count + 1
  /\ wpc' = "drain"
  /\ UNCHANGED <<queueVars, stop_fd, stopping, posted, early, executed, is_joined, jpc, joins>>

\* thread_join: the first caller waits in pthread_join, later ones return.
Join(j) ==
  /\ stopping
  /\ jpc[j] # "joining"
  /\ joins[j] < JoinCalls
  /\ joins' = [joins EXCEPT ![j] = @ + 1]
  /\ is_joined' = TRUE
  /\ jpc' = [jpc EXCEPT ![j] = IF is_joined THEN "returned" ELSE "joining"]
  /\ UNCHANGED <<queueVars, wpc, stop_fd, stopping, count, posted, early, executed>>

JoinReturns(j) ==
  /\ jpc[j] = "joining"
  /\ wpc = "exited"
  /\ jpc' = [jpc EXCEPT ![j] = "returned"]
  /\ UNCHANGED <<queueVars, wpc, stop_fd, stopping, count, posted, early, executed,
                 is_joined, joins>>

WorkerStep ==
  \/ Start \/ ReadReady \/ FetchStep \/ Fetched \/ SelfPost \/ PostStep(Worker)
  \/ Finished \/ LeaveLoop \/ DrainTry \/ DrainTaken \/ DrainFinished

Next == \/ WorkerStep
        \/ Stop
        \/ \E p \in Posters : Post(p) \/ PostStep(p)
        \/ \E j \in Joiners : Join(j) \/ JoinReturns(j)

Spec == Init /\ [][Next]_vars

\* Work items return, threads that can run do run; nobody has to call
\* thread_post, thread_stop or thread_join.
FairSpec ==
  /\ Spec
  /\ WF_vars(WorkerStep)
  /\ \A p \in Posters : WF_vars(PostStep(p))
  /\ \A j \in Joiners : WF_vars(JoinReturns(j))

-----------------------------------------------------------------------------
\* run_thread: "This allows a caller to safely tear down by enqueuing a
\* teardown work item and then joining the thread."  An item whose thread_post
\* returned before thread_stop was called has run when the thread exits, and a
\* thread_join that returned means that it has: thread_free frees the queue and
\* the reactor right after.
TeardownItemRuns ==
  /\ TypeOK
  /\ \A j \in Joiners : jpc[j] = "returned" => wpc = "exited"
  /\ wpc = "exited" => \A d \in early : \E i \in 1..Len(executed) : executed[i] = d

\* The items of one poster run in the order it posted them, each at most once,
\* in the reactor loop and across the change to the draining loop.
RunInPostingOrder ==
  \A i, j \in 1..Len(executed) :
    i < j /\ executed[i][1] = executed[j][1] => executed[i][2] < executed[j][2]

\* A work item that posts to its own thread waits for a place in the full
\* queue that only the thread itself could free.  thread_post: "if the current
\* thread == |thread| and we've run out of queue space, we should abort this
\* operation, otherwise we'll deadlock."
SelfDeadlock == pc[Worker] = "enq_wait" /\ enqueue_sem = 0

\* The thread exits after thread_stop, and the deadlock thread_post warns of is
\* the only thing that can keep it from doing so.
StopExits == stopping ~> wpc = "exited" \/ SelfDeadlock

\* run_thread: "Make sure we dispatch all queued work items before exiting the
\* thread."  An item the thread has taken from its queue is dispatched.
TakenItemRuns ==
  wpc = "exited" /\ ret[Worker] # Null =>
    \E i \in 1..Len(executed) : executed[i] = ret[Worker]

=============================================================================
