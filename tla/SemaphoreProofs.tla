--------------------------- MODULE SemaphoreProofs ---------------------------
(***************************************************************************)
(* Proofs about osi/src/semaphore.cc for any set of threads, any initial   *)
(* value and any number of posts.  What a call may report and when it      *)
(* sleeps is proved for callers that overlap their calls in any way; that  *)
(* the system calls implement the counting semaphore of semaphore.h for    *)
(* callers that do not wait on and try one semaphore from different        *)
(* threads (~Mixed).                                                       *)
(***************************************************************************)
EXTENDS Semaphore, TLAPS

\* A new semaphore satisfies the inductive invariant: the description opens in
\* blocking mode and no thread is inside a call.
LEMMA InitIInv == Init => IInv
<1> SUFFICES ASSUME Init PROVE IInv
  OBVIOUS
<1>1. TypeOK
  BY SemaphoreAssumption DEF Init, TypeOK, SemaphoreAssumption
<1>2. ReportsDecrement /\ SleepsOnlyIfRaced /\ SuccessDecrements
  BY DEF Init, ReportsDecrement, SleepsOnlyIfRaced, SuccessDecrements
<1>3. Recorded /\ FlagsRestored
  BY DEF Init, Recorded, FlagsRestored, InTry, TryPCs, InWait, WaitPCs
<1> QED
  BY <1>1, <1>2, <1>3 DEF IInv

\* A semaphore_wait that finds the description non-blocking has been raced, or two
\* try_waits overlapped before.
LEMMA NonblockMeansRaced ==
  ASSUME IInv, nonblock, NEW t \in Threads, pc[t] = "wait_read"
  PROVE  raced[t] \/ clashed
<1>1. CASE ~clashed
  <2>1. PICK u \in Threads : pc[u] \in {"try_read", "restore"}
    BY <1>1 DEF IInv, FlagsRestored
  <2> QED
    BY <2>1 DEF IInv, Recorded, InTry, TryPCs, InWait, WaitPCs
<1> QED
  BY <1>1

\* If the waiting and the trying threads are not different ones, no semaphore_wait
\* finds the description non-blocking.
LEMMA UnmixedWaitBlocks ==
  ASSUME IInv, Unmixed(use), NEW t \in Threads, pc[t] = "wait_read"
  PROVE  ~nonblock
<1>1. t \in use.wait
  BY DEF IInv, Recorded, InWait, WaitPCs
<1>2. ~clashed
  BY <1>1 DEF IInv, Recorded, Unmixed
<1>3. \A u \in Threads : InTry(u) => u = t
  BY <1>1 DEF IInv, Recorded, Unmixed
<1>4. ~InTry(t)
  BY DEF InTry, TryPCs
<1> QED
  BY <1>2, <1>3, <1>4 DEF IInv, FlagsRestored, InTry, TryPCs

\* The beginning of a call preserves the invariant and puts overlaps on record.
LEMMA CallIInv ==
  ASSUME IInv, NEW t \in Threads, CallWait(t) \/ CallTryWait(t)
  PROVE  IInv'
<1> USE DEF IInv, TypeOK, InTry, InWait, TryPCs, WaitPCs
<1>1. CASE CallWait(t)
  <2> USE <1>1 DEF CallWait, Begin, Overlapped
  <2>1. TypeOK'
    OBVIOUS
  <2>2. ReportsDecrement' /\ SleepsOnlyIfRaced' /\ SuccessDecrements'
    BY DEF ReportsDecrement, SleepsOnlyIfRaced, SuccessDecrements, Unmixed
  <2>3. Recorded'
    BY DEF Recorded
  <2>4. FlagsRestored'
    BY DEF FlagsRestored
  <2> QED
    BY <2>1, <2>2, <2>3, <2>4
<1>2. CASE CallTryWait(t)
  <2> USE <1>2 DEF CallTryWait, Begin, Overlapped
  <2>1. TypeOK'
    OBVIOUS
  <2>2. ReportsDecrement' /\ SleepsOnlyIfRaced' /\ SuccessDecrements'
    BY DEF ReportsDecrement, SleepsOnlyIfRaced, SuccessDecrements, Unmixed
  <2>3. Recorded'
    <3>1. ASSUME NEW v \in Threads, NEW u \in Threads, v # u, InTry(u)'
          PROVE  /\ InTry(v)' => (raced'[v] /\ clashed')
                 /\ InWait(v)' => raced'[v]
      <4>1. CASE u = t
        <5>1. pc'[v] = pc[v] /\ raced'[v] = (raced[v] \/ pc[v] # "idle")
          BY <3>1, <4>1
        <5>2. InTry(v) => clashed'
          BY <3>1, <4>1
        <5> QED
          BY <5>1, <5>2
      <4>2. CASE v = t
        BY <3>1, <4>2
      <4>3. CASE u # t /\ v # t
        <5>1. pc'[v] = pc[v] /\ pc'[u] = pc[u] /\ (raced[v] => raced'[v])
          BY <4>3
        <5> QED
          BY <3>1, <5>1 DEF Recorded
      <4> QED
        BY <4>1, <4>2, <4>3
    <3>2. clashed' => \E v, u \in use'.try : v # u
      BY DEF Recorded
    <3>3. \A v \in Threads : /\ InWait(v)' => v \in use'.wait
                            /\ InTry(v)' => v \in use'.try
      BY DEF Recorded
    <3>4. \A v \in Threads : InTry(v)' /\ raced'[v] => clashed'
      BY DEF Recorded
    <3> QED
      BY <3>4, <3>1, <3>2, <3>3 DEF Recorded
  <2>4. FlagsRestored'
    BY DEF FlagsRestored
  <2> QED
    BY <2>1, <2>2, <2>3, <2>4
<1> QED
  BY <1>1, <1>2

\* Every system call inside a call preserves the invariant.
LEMMA SystemCallIInv ==
  ASSUME IInv, NEW t \in Threads, Step(t)
  PROVE  IInv'
<1> USE DEF IInv, TypeOK, InTry, InWait, TryPCs, WaitPCs, history
<1>0. /\ UNCHANGED <<use, raced, clashed>>
      /\ Unmixed(use)' = Unmixed(use)
  BY DEF Step, Unmixed
<1>1. CASE ReadDecrements(t)
  <2>1. CASE pc[t] \in WaitPCs
    <3>1. /\ value' = value - 1 /\ value > 0
          /\ UNCHANGED <<nonblock, flags, rc, posts>>
          /\ took' = [took EXCEPT ![t] = TRUE]
          /\ pc' = [pc EXCEPT ![t] = "idle"]
          /\ result' = [result EXCEPT ![t] = "waited"]
      BY <1>1, <2>1 DEF ReadDecrements, AfterRead
    <3> QED
      BY <1>0, <2>1, <3>1
      DEF ReportsDecrement, SleepsOnlyIfRaced, SuccessDecrements, Recorded, FlagsRestored
  <2>2. CASE pc[t] \notin WaitPCs
    <3>1. /\ value' = value - 1 /\ value > 0
          /\ UNCHANGED <<nonblock, flags, result, posts>>
          /\ pc[t] \in {"try_read", "try_asleep"}
          /\ took' = [took EXCEPT ![t] = TRUE]
          /\ rc' = [rc EXCEPT ![t] = TRUE]
          /\ pc' = [pc EXCEPT ![t] = "restore"]
      BY <1>1, <2>2 DEF ReadDecrements, AfterRead, Reading, Asleep
    <3>2. ReportsDecrement' /\ SleepsOnlyIfRaced' /\ SuccessDecrements'
      BY <1>0, <3>1
      DEF ReportsDecrement, SleepsOnlyIfRaced, SuccessDecrements, FlagsRestored
    <3>3. Recorded'
      BY <1>0, <3>1 DEF Recorded
    <3>4. FlagsRestored'
      <4>1. pc[t] = "try_asleep" => clashed
        BY DEF SleepsOnlyIfRaced, Recorded
      <4> QED
        BY <1>0, <3>1, <4>1 DEF FlagsRestored
    <3> QED
      BY <1>0, <3>1, <3>2, <3>3, <3>4
  <2> QED
    BY <2>1, <2>2
<1>2. CASE ReadFails(t)
  <2>1. CASE pc[t] = "wait_read"
    <3>1. /\ UNCHANGED <<value, nonblock, flags, rc, took, posts>>
          /\ pc' = [pc EXCEPT ![t] = "idle"]
          /\ result' = [result EXCEPT ![t] = "waited"]
      BY <1>2, <2>1 DEF ReadFails, AfterRead
    <3>2. (raced[t] \/ clashed) /\ ~Unmixed(use)
      BY <1>2, <2>1, NonblockMeansRaced, UnmixedWaitBlocks DEF ReadFails
    <3> QED
      BY <1>0, <2>1, <3>1, <3>2
      DEF ReportsDecrement, SleepsOnlyIfRaced, SuccessDecrements, Recorded, FlagsRestored
  <2>2. CASE pc[t] = "try_read"
    <3>1. /\ UNCHANGED <<value, nonblock, flags, took, result, posts>>
          /\ rc' = [rc EXCEPT ![t] = FALSE]
          /\ pc' = [pc EXCEPT ![t] = "restore"]
      BY <1>2, <2>2 DEF ReadFails, AfterRead
    <3> QED
      BY <1>0, <2>2, <3>1
      DEF ReportsDecrement, SleepsOnlyIfRaced, SuccessDecrements, Recorded, FlagsRestored
  <2> QED
    BY <1>2, <2>1, <2>2 DEF ReadFails, Reading
<1>3. CASE ReadSleeps(t)
  <2>1. pc[t] = "wait_read" \/ (pc[t] = "try_read" /\ raced[t])
    BY <1>3 DEF ReadSleeps, Reading, FlagsRestored
  <2> QED
    BY <1>0, <1>3, <2>1
    DEF ReadSleeps, ReportsDecrement, SleepsOnlyIfRaced, SuccessDecrements, Recorded,
        FlagsRestored
<1>4. CASE TryGetFlags(t)
  BY <1>0, <1>4
  DEF TryGetFlags, ReportsDecrement, SleepsOnlyIfRaced, SuccessDecrements, Recorded,
      FlagsRestored
<1>5. CASE TrySetNonblock(t)
  BY <1>0, <1>5
  DEF TrySetNonblock, ReportsDecrement, SleepsOnlyIfRaced, SuccessDecrements, Recorded,
      FlagsRestored
<1>6. CASE TryRestore(t)
  <2>1. TypeOK' /\ ReportsDecrement' /\ SleepsOnlyIfRaced' /\ SuccessDecrements'
    BY <1>0, <1>6
    DEF TryRestore, ReportsDecrement, SleepsOnlyIfRaced, SuccessDecrements, FlagsRestored
  <2>2. Recorded'
    BY <1>0, <1>6 DEF TryRestore, Recorded
  <2>3. \A u \in Threads : pc[u] = "try_read" => raced[u]
    BY <1>6 DEF TryRestore, Recorded
  <2>4. FlagsRestored'
    BY <1>0, <1>6, <2>3 DEF TryRestore, FlagsRestored
  <2> QED
    BY <2>1, <2>2, <2>4
<1> QED
  BY <1>1, <1>2, <1>3, <1>4, <1>5, <1>6 DEF Step

\* Every step preserves the inductive invariant, whatever the callers do.
LEMMA StepIInv == IInv /\ [Next]_vars => IInv'
<1> SUFFICES ASSUME IInv, [Next]_vars PROVE IInv'
  OBVIOUS
<1> USE DEF IInv, TypeOK, InTry, InWait, TryPCs, WaitPCs
<1>1. ASSUME NEW t \in Threads, Post(t), UNCHANGED history PROVE IInv'
  BY <1>1
  DEF Post, history, ReportsDecrement, SleepsOnlyIfRaced, SuccessDecrements, Recorded,
      FlagsRestored, Unmixed
<1>2. CASE UNCHANGED vars
  BY <1>2
  DEF vars, ReportsDecrement, SleepsOnlyIfRaced, SuccessDecrements, Recorded,
      FlagsRestored, Unmixed
<1> QED
  BY <1>1, <1>2, CallIInv, SystemCallIInv DEF Next

\* semaphore.cc for callers that overlap their calls in any way: which flags the
\* description can have, what a try_wait puts back, and which calls have been raced.
THEOREM SemaphoreInvariant == Spec => []IInv
<1> QED
  BY InitIInv, StepIInv, PTL DEF Spec

\* semaphore.h, for callers that overlap their calls in any way: a try_wait tells
\* truly whether it decremented the value and sleeps only if another try_wait
\* overlapped it; a wait returns without a unit only if a try_wait overlapped it or
\* two try_waits overlapped before, and never if no thread waits on what
\* another one tries.
THEOREM SemaphoreSafety ==
  Spec => [](ReportsDecrement /\ SleepsOnlyIfRaced /\ SuccessDecrements)
<1>1. IInv => ReportsDecrement /\ SleepsOnlyIfRaced /\ SuccessDecrements
  BY DEF IInv
<1> QED
  BY SemaphoreInvariant, <1>1, PTL

\* If no thread waits on what another one tries, every system call of semaphore.cc is
\* a step of the counting semaphore of semaphore.h or changes nothing that its
\* callers can see, also when try_waits overlap and are made to sleep.
THEOREM SemaphoreRefines ==
  ASSUME ~Mixed PROVE Spec => ImplementsCounting
<1>1. Init => Counting!Init
  BY DEF Init, Counting!Init, InTry, InWait, TryPCs, WaitPCs
<1>2. ASSUME IInv, Unmixed(use), [Next]_vars
      PROVE  [Counting!Next]_(Counting!vars)
  <2> USE <1>2 DEF IInv, TypeOK, InTry, InWait, TryPCs, WaitPCs
  <2>1. ASSUME NEW t \in Threads, CallWait(t) PROVE Counting!Call(t, "wait")
    BY <2>1 DEF CallWait, Begin, Counting!Call
  <2>2. ASSUME NEW t \in Threads, CallTryWait(t) PROVE Counting!Call(t, "try_wait")
    BY <2>2 DEF CallTryWait, Begin, Counting!Call
  <2>3. ASSUME NEW t \in Threads, Post(t) PROVE Counting!Post(t)
    BY <2>3 DEF Post, Counting!Post
  <2>4. ASSUME NEW t \in Threads, ReadDecrements(t) PROVE Counting!Acquire(t)
    <3>1. CASE InWait(t)
      <4>1. /\ value > 0 /\ value' = value - 1 /\ rc' = rc
            /\ pc' = [pc EXCEPT ![t] = "idle"]
            /\ result' = [result EXCEPT ![t] = "waited"]
        BY <2>4, <3>1 DEF ReadDecrements, AfterRead
      <4> QED
        BY <3>1, <4>1 DEF Counting!Acquire, Counting!Calls
    <3>2. CASE ~InWait(t)
      <4>1. /\ pc[t] \in {"try_read", "try_asleep"}
            /\ value > 0 /\ value' = value - 1 /\ result' = result
            /\ rc' = [rc EXCEPT ![t] = TRUE]
            /\ pc' = [pc EXCEPT ![t] = "restore"]
        BY <2>4, <3>2 DEF ReadDecrements, AfterRead, Reading, Asleep
      <4> QED
        BY <4>1 DEF Counting!Acquire, Counting!Calls
    <3> QED
      BY <3>1, <3>2
  <2>5. ASSUME NEW t \in Threads, ReadFails(t) PROVE Counting!FailToAcquire(t)
    <3>1. pc[t] = "try_read"
      BY <2>5, UnmixedWaitBlocks DEF ReadFails, Reading
    <3>2. /\ value = 0 /\ value' = value /\ result' = result
          /\ rc' = [rc EXCEPT ![t] = FALSE]
          /\ pc' = [pc EXCEPT ![t] = "restore"]
      BY <2>5, <3>1 DEF ReadFails, AfterRead
    <3> QED
      BY <3>1, <3>2 DEF Counting!FailToAcquire
  <2>6. ASSUME NEW t \in Threads, ReadSleeps(t) PROVE UNCHANGED Counting!vars
    BY <2>6 DEF ReadSleeps, Reading, Counting!vars
  <2>7. ASSUME NEW t \in Threads, TryGetFlags(t) PROVE UNCHANGED Counting!vars
    BY <2>7 DEF TryGetFlags, Counting!vars
  <2>8. ASSUME NEW t \in Threads, TrySetNonblock(t) PROVE UNCHANGED Counting!vars
    BY <2>8 DEF TrySetNonblock, Counting!vars
  <2>9. ASSUME NEW t \in Threads, TryRestore(t) PROVE UNCHANGED Counting!vars
    BY <2>9 DEF TryRestore, Counting!vars
  <2>10. CASE UNCHANGED vars
    BY <2>10 DEF vars, Counting!vars
  <2>11. {"wait", "try_wait"} = Counting!Calls
    BY DEF Counting!Calls
  <2> QED
    BY ONLY <1>2, <2>1, <2>2, <2>3, <2>4, <2>5, <2>6, <2>7, <2>8, <2>9,
            <2>10, <2>11
       DEF Next, Step, Counting!Next
<1>3. Init => Unmixed(use)
  BY DEF Init
<1>4. Unmixed(use) /\ [Next]_vars => Unmixed(use)'
  BY DEF Unmixed, Next, Step, CallWait, CallTryWait, history, vars
<1>5. IInv /\ Unmixed(use) /\ [Next]_vars => [Counting!Next]_(Counting!vars)
  BY <1>2
<1> QED
  BY <1>1, <1>3, <1>4, <1>5, SemaphoreInvariant, PTL
  DEF Spec, ImplementsCounting, Counting!Spec, Counting!vars, vars

=============================================================================
