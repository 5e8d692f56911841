--------------------------- MODULE HciStartupProofs ---------------------------
(***************************************************************************)
(* Proofs about the start-up handshake of hci/src/hci_layer.cc for any     *)
(* number of start-ups: the thread in future_await frees the future while  *)
(* two other threads may complete it, and what makes this safe is that     *)
(* ready_can_be_called, the semaphore and the static pointer tell apart    *)
(* five phases of the future's life.                                       *)
(***************************************************************************)
EXTENDS HciStartup, TLAPS

\* commands_pending_response_mutex is held exactly inside the two critical
\* sections, so the message loop and the timer are never both in one.
MutexHeld ==
  /\ mutex = "loop" <=> mpc \in {"cancel", "wait_callback", "ready", "post", "clear"}
  /\ mutex = "timer" <=> tpc \in {"ready", "post", "clear"}
  /\ timer = "armed" => tpc = "idle"

\* event_finish_startup runs only after the HAL's report.
LoopAfterHal == mpc # "idle" => hal

\* A future that may still be completed is untouched, and startup_future points
\* to it.
Fresh ==
  can_be_called => /\ value = "none" /\ tokens = 0 /\ ~freed /\ apc = "await"
                   /\ startup_future = "future"

\* Between the two halves of future_ready the result is set, nobody was woken
\* and so nobody has freed the future; after both it cannot be completed again.
HalfReady ==
  /\ Alive /\ (mpc \in {"post", "clear"} \/ tpc \in {"post", "clear"}) => ~can_be_called
  /\ Alive /\ (mpc = "post" \/ tpc = "post") => tokens = 0 /\ ~freed /\ apc = "await"

\* Outside the critical sections startup_future is not NULL only if the future
\* may still be completed: the CHECKs of future_ready see the future's state.
PointerTells ==
  Alive /\ startup_future = "future" /\ mpc \notin {"post", "clear"}
        /\ tpc \notin {"post", "clear"}
    => can_be_called

\* The waiter: it frees the future when it returns, a token that is left is its
\* own, and the result it reads has been set.
Waiter ==
  /\ freed <=> apc = "done"
  /\ tokens > 0 => apc = "await"
  /\ value = "none" => can_be_called
  /\ value = "success" => hal
  /\ apc = "done" => got # "none" /\ (got = "success" => hal)

IInv == TypeOK /\ MutexHeld /\ LoopAfterHal /\ Fresh /\ HalfReady /\ PointerTells /\ Waiter

\* What hci_module_start_up leaves behind satisfies the inductive invariant.
LEMMA InitIInv == Init => IInv
<1> SUFFICES ASSUME Init PROVE IInv
  OBVIOUS
<1>1. can_be_called \in BOOLEAN /\ freed \in BOOLEAN /\ hal \in BOOLEAN
  BY Zenon DEF Init
<1>2. can_be_called /\ ~freed /\ ~hal
  BY Zenon DEF Init
<1>3. TypeOK
  BY <1>1, StartupAssumption DEF StartupAssumption, Init, TypeOK
<1> QED
  BY <1>2, <1>3
  DEF Init, IInv, MutexHeld, LoopAfterHal, Fresh, HalfReady, PointerTells, Waiter, Alive

\* Every step of the three threads preserves the inductive invariant.
LEMMA StepIInv == IInv /\ [Next]_vars => IInv'
<1> SUFFICES ASSUME IInv, [Next]_vars PROVE IInv'
  OBVIOUS
<1> USE StartupAssumption
    DEF StartupAssumption, IInv, TypeOK, MutexHeld, LoopAfterHal, Fresh, HalfReady,
        PointerTells, Waiter, Alive, futureVars
<1>1. CASE InitializationComplete
  BY <1>1 DEF InitializationComplete
<1>2. CASE FinishLocks
  BY <1>2 DEF FinishLocks
<1>3. CASE FinishCancels
  BY <1>3 DEF FinishCancels
<1>4. CASE FinishCancelReturns
  BY <1>4 DEF FinishCancelReturns
<1>5. CASE FinishReady
  <2>1. CASE startup_future = "future" /\ can_be_called
    <3>1. can_be_called' \in BOOLEAN /\ ~can_be_called' /\ UNCHANGED process
      BY <1>5, <2>1, Zenon DEF FinishReady, Ready
    <3> QED
      BY <1>5, <2>1, <3>1 DEF FinishReady, Ready
  <2>2. CASE ~(startup_future = "future" /\ can_be_called)
    <3>1. process' = "check_failed" /\ UNCHANGED <<can_be_called, value>>
      BY <1>5, <2>2 DEF FinishReady, Ready
    <3> QED
      BY <1>5, <3>1 DEF FinishReady
  <2> QED
    BY <2>1, <2>2
<1>6. CASE FinishPosts
  BY <1>6 DEF FinishPosts
<1>7. CASE FinishClears
  BY <1>7 DEF FinishClears
<1>8. CASE TimerExpires
  BY <1>8 DEF TimerExpires
<1>9. CASE TimerLocks
  BY <1>9 DEF TimerLocks
<1>10. CASE TimerReady
  <2>1. CASE startup_future = "future" /\ can_be_called
    <3>1. can_be_called' \in BOOLEAN /\ ~can_be_called' /\ UNCHANGED process
      BY <1>10, <2>1, Zenon DEF TimerReady, Ready
    <3> QED
      BY <1>10, <2>1, <3>1 DEF TimerReady, Ready
  <2>2. CASE ~(startup_future = "future" /\ can_be_called)
    <3>1. process' = "check_failed" /\ UNCHANGED <<can_be_called, value>>
      BY <1>10, <2>2 DEF TimerReady, Ready
    <3> QED
      BY <1>10, <3>1 DEF TimerReady
  <2> QED
    BY <2>1, <2>2
<1>11. CASE TimerPosts
  BY <1>11 DEF TimerPosts
<1>12. CASE TimerClears
  BY <1>12 DEF TimerClears
<1>13. CASE Await
  BY <1>13 DEF Await
<1>14. CASE Restart
  <2>1. /\ can_be_called' \in BOOLEAN /\ freed' \in BOOLEAN /\ hal' \in BOOLEAN
        /\ can_be_called' /\ ~freed' /\ ~hal'
    BY <1>14, Zenon DEF Restart
  <2> QED
    BY <1>14, <2>1 DEF Restart
<1>15. CASE UNCHANGED vars
  BY <1>15 DEF vars
<1> QED
  BY <1>1, <1>2, <1>3, <1>4, <1>5, <1>6, <1>7, <1>8, <1>9, <1>10, <1>11, <1>12, <1>13,
     <1>14, <1>15 DEF Next, LoopStep, TimerStep

\* The five phases of the future are told apart in every state, whatever the
\* HAL does and however often the layer is started.
THEOREM StartupInvariant == Spec => []IInv
<1> QED
  BY InitIInv, StepIInv, PTL DEF Spec

\* future_await frees the future: neither event_finish_startup nor
\* startup_timer_expired touches it afterwards, for any number of start-ups.
THEOREM StartupFutureAlive == Spec => []FutureAlive
<1>1. IInv => FutureAlive
  BY DEF IInv, FutureAlive, Fresh, HalfReady, PointerTells, MutexHeld, Alive
<1> QED
  BY StartupInvariant, <1>1, PTL

\* The result of the start-up is the one the HAL or the timer gave.
THEOREM StartupHonestResult == Spec => []HonestResult
<1>1. IInv => HonestResult
  BY DEF IInv, HonestResult, Waiter
<1> QED
  BY StartupInvariant, <1>1, PTL

===============================================================================
