------------------------------ MODULE Semaphore ------------------------------
(***************************************************************************)
(* osi/src/semaphore.cc: a counting semaphore on a Linux eventfd opened    *)
(* with EFD_SEMAPHORE.  semaphore_try_wait makes the read non-blocking by  *)
(* setting O_NONBLOCK on the file description and restoring the flags it   *)
(* saved afterwards.  The flag belongs to the description, so it is shared *)
(* by every thread that uses the semaphore: the four system calls of a     *)
(* try_wait are four steps here, and each may interleave with the calls of *)
(* other threads.                                                          *)
(*                                                                         *)
(* The fcntl calls act on a descriptor that is open, so their error        *)
(* returns are left out, and so is a read interrupted by a signal.         *)
(***************************************************************************)
EXTENDS Naturals

CONSTANTS Threads,        \* callers of the semaphore
          InitialValue,   \* the |value| given to semaphore_new
          MaxPosts,       \* bound on the calls of semaphore_post
          Mixed           \* TRUE: some threads may wait on the semaphore while
                          \* others try; no semaphore of the stack is used so

ASSUME SemaphoreAssumption ==
  /\ InitialValue \in Nat
  /\ MaxPosts \in Nat
  /\ Mixed \in BOOLEAN

VARIABLES value,      \* the counter of the eventfd
          nonblock,   \* O_NONBLOCK in the flags of the file description
          pc,         \* pc[t]: the next system call of thread t
          flags,      \* flags[t]: the O_NONBLOCK bit t saved with F_GETFL
          rc,         \* rc[t]: the local rc of semaphore_try_wait
          result,     \* result[t]: what t's last completed call returned
          took,       \* took[t]: t's current or last call decremented value
          posts,      \* number of semaphore_post calls so far
          use,        \* who calls semaphore_wait and semaphore_try_wait; fixed
          raced,      \* raced[t]: a try_wait of another thread overlapped t's
                      \* current or last call
          clashed     \* two try_waits have overlapped

vars == <<value, nonblock, pc, flags, rc, result, took, posts, use, raced, clashed>>

\* raced and clashed are history: the code does not look at them.
history == <<use, raced, clashed>>

WaitPCs == {"wait_read", "wait_asleep"}
TryPCs  == {"getfl", "setfl", "try_read", "try_asleep", "restore"}

Reading == {"wait_read", "try_read"}      \* about to call eventfd_read
Asleep  == {"wait_asleep", "try_asleep"}  \* inside it, in the kernel

InWait(t) == pc[t] \in WaitPCs
InTry(t)  == pc[t] \in TryPCs

\* Who uses a semaphore, and how.  Those of the stack are waited on by any number
\* of threads (the places of a queue, alarm_expired, a future), tried by any
\* number of threads (tx_audio_queue of btif_a2dp_source.cc), or waited on and
\* tried by one and the same thread (the work queue of thread.cc).
Usage == [wait : SUBSET Threads, try : SUBSET Threads]

Unmixed(u) == \A t \in u.try, w \in u.wait : t = w

\* The types: in particular the counter of the eventfd never goes below zero.
TypeOK ==
  /\ value \in Nat
  /\ nonblock \in BOOLEAN
  /\ pc \in [Threads -> {"idle"} \cup WaitPCs \cup TryPCs]
  /\ flags \in [Threads -> BOOLEAN]
  /\ rc \in [Threads -> BOOLEAN]
  /\ result \in [Threads -> {"none", "waited", "true", "false"}]
  /\ took \in [Threads -> BOOLEAN]
  /\ posts \in Nat
  /\ use \in Usage
  /\ raced \in [Threads -> BOOLEAN]
  /\ clashed \in BOOLEAN

-----------------------------------------------------------------------------
\* semaphore_new(InitialValue): eventfd() opens the description in blocking
\* mode with the given counter.
Init ==
  /\ value = InitialValue
  /\ nonblock = FALSE
  /\ pc = [t \in Threads |-> "idle"]
  /\ flags = [t \in Threads |-> FALSE]
  /\ rc = [t \in Threads |-> FALSE]
  /\ result = [t \in Threads |-> "none"]
  /\ took = [t \in Threads |-> FALSE]
  /\ posts = 0
  /\ use \in Usage
  /\ Mixed \/ Unmixed(use)
  /\ raced = [t \in Threads |-> FALSE]
  /\ clashed = FALSE

Begin(t, first) ==
  /\ pc[t] = "idle"
  /\ pc' = [pc EXCEPT ![t] = first]
  /\ result' = [result EXCEPT ![t] = "none"]
  /\ took' = [took EXCEPT ![t] = FALSE]
  /\ UNCHANGED <<value, nonblock, flags, rc, posts>>

Overlapped(t) == \E u \in Threads \ {t} : InTry(u)

\* semaphore_wait
CallWait(t) ==
  /\ t \in use.wait
  /\ Begin(t, "wait_read")
  /\ raced' = [raced EXCEPT ![t] = Overlapped(t)]
  /\ UNCHANGED <<use, clashed>>

\* semaphore_try_wait
CallTryWait(t) ==
  /\ t \in use.try
  /\ Begin(t, "getfl")
  /\ raced' = [u \in Threads |-> IF u = t THEN Overlapped(t)
                                ELSE raced[u] \/ pc[u] # "idle"]
  /\ clashed' = (clashed \/ Overlapped(t))
  /\ UNCHANGED use

\* What the caller makes of its eventfd_read.  semaphore_wait only logs a read
\* that failed: it has no result, so its caller goes on as if the semaphore had
\* been decremented.  semaphore_try_wait keeps the outcome in rc.
AfterRead(t, ok) ==
  IF InWait(t)
  THEN /\ pc' = [pc EXCEPT ![t] = "idle"]
       /\ result' = [result EXCEPT ![t] = "waited"]
       /\ UNCHANGED rc
  ELSE /\ pc' = [pc EXCEPT ![t] = "restore"]
       /\ rc' = [rc EXCEPT ![t] = ok]
       /\ UNCHANGED result

\* Mutant of ReadDecrements: a reader that was woken leaves the last token.
ReadDecrementsOffByOne(t) ==
  /\ pc[t] \in Reading \cup Asleep
  /\ value > IF pc[t] \in Asleep THEN 1 ELSE 0
  /\ value' = value - 1
  /\ took' = [took EXCEPT ![t] = TRUE]
  /\ AfterRead(t, TRUE)
  /\ UNCHANGED <<nonblock, flags, posts>>

\* eventfd_read takes a token, at once or after a post has woken the reader;
\* changing the flags does not wake it.
ReadDecrements(t) ==
  /\ pc[t] \in Reading \cup Asleep
  /\ value > 0
  /\ value' = value - 1
  /\ took' = [took EXCEPT ![t] = TRUE]
  /\ AfterRead(t, TRUE)
  /\ UNCHANGED <<nonblock, flags, posts>>

\* eventfd_read of a zero counter fails with EAGAIN in non-blocking mode ...
ReadFails(t) ==
  /\ pc[t] \in Reading
  /\ value = 0 /\ nonblock
  /\ AfterRead(t, FALSE)
  /\ UNCHANGED <<value, nonblock, flags, took, posts>>

\* ... and sleeps in blocking mode, also in a try_wait whose O_NONBLOCK another
\* thread has cleared in the meantime.
ReadSleeps(t) ==
  /\ pc[t] \in Reading
  /\ value = 0 /\ ~nonblock
  /\ pc' = [pc EXCEPT ![t] = IF InWait(t) THEN "wait_asleep" ELSE "try_asleep"]
  /\ UNCHANGED <<value, nonblock, flags, rc, result, took, posts>>

\* fcntl(F_GETFL)
TryGetFlags(t) ==
  /\ pc[t] = "getfl"
  /\ flags' = [flags EXCEPT ![t] = nonblock]
  /\ pc' = [pc EXCEPT ![t] = "setfl"]
  /\ UNCHANGED <<value, nonblock, rc, result, took, posts>>

\* fcntl(F_SETFL, flags | O_NONBLOCK)
TrySetNonblock(t) ==
  /\ pc[t] = "setfl"
  /\ nonblock' = TRUE
  /\ pc' = [pc EXCEPT ![t] = "try_read"]
  /\ UNCHANGED <<value, flags, rc, result, took, posts>>

\* Mutant of TryRestore: the saved flags are not put back.
TryRestoreForgotten(t) ==
  /\ pc[t] = "restore"
  /\ pc' = [pc EXCEPT ![t] = "idle"]
  /\ result' = [result EXCEPT ![t] = IF rc[t] THEN "true" ELSE "false"]
  /\ UNCHANGED <<value, nonblock, flags, rc, took, posts>>

\* fcntl(F_SETFL, flags) and return rc
TryRestore(t) ==
  /\ pc[t] = "restore"
  /\ nonblock' = flags[t]
  /\ pc' = [pc EXCEPT ![t] = "idle"]
  /\ result' = [result EXCEPT ![t] = IF rc[t] THEN "true" ELSE "false"]
  /\ UNCHANGED <<value, flags, rc, took, posts>>

\* semaphore_post: eventfd_write(1)
Post(t) ==
  /\ pc[t] = "idle"
  /\ posts < MaxPosts
  /\ posts' = posts + 1
  /\ value' = value + 1
  /\ UNCHANGED <<nonblock, pc, flags, rc, result, took>>

Step(t) == /\ \/ ReadDecrements(t) \/ ReadFails(t) \/ ReadSleeps(t)
              \/ TryGetFlags(t) \/ TrySetNonblock(t) \/ TryRestore(t)
           /\ UNCHANGED history

Next == \E t \in Threads :
          CallWait(t) \/ CallTryWait(t) \/ Step(t) \/ (Post(t) /\ UNCHANGED history)

Spec == Init /\ [][Next]_vars

\* A thread that is inside a call and not asleep in the kernel keeps running.
FairSpec == Spec /\ \A t \in Threads : WF_vars(Step(t))

-----------------------------------------------------------------------------
\* semaphore.h: semaphore_try_wait returns "true if the value was decremented,
\* false if the value was 0", and semaphore_wait "Decrements the value".
\* semaphore_try_wait keeps its word however its callers race.  semaphore_wait
\* returns without a unit only if a try_wait of another thread overlapped it, or
\* if two try_waits overlapped earlier, after which the description may have
\* stayed non-blocking for good.
ReportsDecrement ==
  \A t \in Threads :
    /\ result[t] = "true" => took[t]
    /\ result[t] = "false" => ~took[t]
    /\ result[t] = "waited" => took[t] \/ raced[t] \/ clashed

\* A semaphore_try_wait sleeps only if that of another thread overlapped it.
SleepsOnlyIfRaced ==
  \A t \in Threads : pc[t] = "try_asleep" => raced[t]

\* If the waiting and the trying threads are not different ones, every call
\* that reports success has decremented the counter.
SuccessDecrements ==
  Unmixed(use) =>
    \A t \in Threads : result[t] \in {"waited", "true"} => took[t]

\* semaphore.h, semaphore_try_wait: "This function never blocks."
TryWaitNeverSleeps ==
  \A t \in Threads : pc[t] # "try_asleep"

\* However the callers race, a posted token does not strand a sleeping reader:
\* while the value is positive and somebody sleeps in the kernel, either a
\* sleeper or a competing reader takes the token.
NoLostWakeup ==
  (value > 0 /\ \E t \in Threads : pc[t] \in Asleep)
    ~> (value = 0 \/ \A t \in Threads : pc[t] \notin Asleep)

\* The system calls of semaphore.cc implement the counting semaphore of the
\* header: a try_wait takes effect at its read, a wait when its read succeeds.
Counting == INSTANCE CountingSemaphore WITH
  op <- [t \in Threads |->
           IF InWait(t) THEN "wait"
           ELSE IF InTry(t) /\ pc[t] # "restore" THEN "try_wait" ELSE "none"],
  result <- [t \in Threads |->
               IF pc[t] = "restore"
               THEN IF rc[t] THEN "acquired" ELSE "was_zero"
               ELSE CASE result[t] \in {"waited", "true"} -> "acquired"
                      [] result[t] = "false" -> "was_zero"
                      [] OTHER -> "none"]

\* This needs Unmixed, and no more: a try_wait that is made to sleep still takes
\* effect in one step, later.
ImplementsCounting == Counting!Spec

-----------------------------------------------------------------------------
\* Every overlap of a try_wait with another call is on record.
Recorded ==
  /\ \A t, u \in Threads :
       t # u /\ InTry(u) =>
         /\ InTry(t) => (raced[t] /\ clashed)
         /\ InWait(t) => raced[t]
  /\ clashed => \E t, u \in use.try : t # u
  /\ \A t \in Threads :
       /\ InTry(t) /\ raced[t] => clashed
       /\ InWait(t) => t \in use.wait
       /\ InTry(t) => t \in use.try

\* Until two try_waits overlap, the description is non-blocking only during a
\* try_wait, and what a try_wait puts back is blocking mode.  Whatever
\* happens, a try_wait that is about to read either finds the
\* mode it has set or has been raced.
FlagsRestored ==
  /\ ~clashed =>
       /\ nonblock => \E t \in Threads : pc[t] \in {"try_read", "restore"}
       /\ \A t \in Threads :
            pc[t] \in {"setfl", "try_read", "restore"} => ~flags[t]
  /\ \A t \in Threads :
       /\ pc[t] = "try_read" => nonblock \/ raced[t]
       /\ pc[t] # "idle" => result[t] = "none"
       /\ InTry(t) /\ pc[t] # "restore" => ~took[t]
       /\ pc[t] = "restore" => (rc[t] <=> took[t])

IInv ==
  /\ TypeOK
  /\ ReportsDecrement
  /\ SleepsOnlyIfRaced
  /\ SuccessDecrements
  /\ Recorded
  /\ FlagsRestored

=============================================================================
