----------------------------- MODULE HciStartup -----------------------------
(***************************************************************************)
(* The start-up handshake of hci/src/hci_layer.cc on a future of           *)
(* osi/src/future.cc.  hci_module_start_up hands out startup_future and    *)
(* arms startup_timer; the caller of the module waits in future_await.     *)
(* The HAL reports initialization_complete and event_finish_startup runs   *)
(* on the message loop; if it takes too long startup_timer_expired runs on *)
(* the alarm thread.  Both complete the future under                       *)
(* commands_pending_response_mutex, and the first one cancels the timer    *)
(* while it holds that mutex: alarm_cancel waits for a callback in         *)
(* progress, which waits for the mutex, for half a second.                 *)
(***************************************************************************)
EXTENDS Naturals

CONSTANTS MaxSessions     \* bound on the calls of hci_module_start_up

ASSUME StartupAssumption == MaxSessions \in Nat \ {0}

VARIABLES startup_future,   \* the static pointer: "future" or "NULL"
          can_be_called,    \* future->ready_can_be_called
          value,            \* future->result
          tokens,           \* future->semaphore
          freed,            \* the future has been freed
          mutex,            \* holder of commands_pending_response_mutex
          timer,            \* startup_timer: "armed", "off"
          hal,              \* initialization_complete was called
          mpc,              \* the message loop
          tpc,              \* the alarm thread
          apc, got,         \* the caller of future_await and its result
          process,          \* "running", "check_failed", "aborted"
          session           \* number of start-ups

vars == <<startup_future, can_be_called, value, tokens, freed, mutex, timer, hal, mpc, tpc,
          apc, got, process, session>>

futureVars == <<can_be_called, value, tokens, freed>>

\* The types: in particular the semaphore of the future is posted at most once.
TypeOK ==
  /\ startup_future \in {"future", "NULL"}
  /\ can_be_called \in BOOLEAN /\ value \in {"none", "success", "fail"}
  /\ tokens \in 0..1 /\ freed \in BOOLEAN
  /\ mutex \in {"free", "loop", "timer"}
  /\ timer \in {"armed", "off"} /\ hal \in BOOLEAN
  /\ mpc \in {"idle", "posted", "cancel", "wait_callback", "ready", "post", "clear", "done"}
  /\ tpc \in {"idle", "try_lock", "ready", "post", "clear", "done"}
  /\ apc \in {"await", "done"} /\ got \in {"none", "success", "fail"}
  /\ process \in {"running", "check_failed", "aborted"}
  /\ session \in 1..MaxSessions

\* hci_module_start_up has returned the future.
Init ==
  /\ startup_future = "future"
  /\ can_be_called = TRUE /\ value = "none" /\ tokens = 0 /\ freed = FALSE
  /\ mutex = "free" /\ timer = "armed" /\ hal = FALSE
  /\ mpc = "idle" /\ tpc = "idle" /\ apc = "await" /\ got = "none"
  /\ process = "running" /\ session = 1

Alive == process = "running"

-----------------------------------------------------------------------------
\* initialization_complete posts event_finish_startup.
InitializationComplete ==
  /\ Alive /\ ~hal
  /\ hal' = TRUE /\ mpc' = "posted"
  /\ UNCHANGED <<startup_future, futureVars, mutex, timer, tpc, apc, got, process, session>>

\* event_finish_startup
FinishLocks ==
  /\ Alive /\ mpc = "posted"
  /\ mutex = "free" /\ mutex' = "loop"
  /\ mpc' = "cancel"
  /\ UNCHANGED <<startup_future, futureVars, timer, hal, tpc, apc, got, process, session>>

\* alarm_cancel(startup_timer): disarms, then waits for a callback in progress.
FinishCancels ==
  /\ Alive /\ mpc = "cancel"
  /\ timer' = "off"
  /\ mpc' = "wait_callback"
  /\ UNCHANGED <<startup_future, futureVars, mutex, hal, tpc, apc, got, process, session>>

FinishCancelReturns ==
  /\ Alive /\ mpc = "wait_callback"
  /\ tpc \in {"idle", "done"}
  /\ mpc' = "ready"
  /\ UNCHANGED <<startup_future, futureVars, mutex, timer, hal, tpc, apc, got, process, session>>

\* The assignments of future_ready; CHECK(future != NULL) and
\* CHECK(ready_can_be_called) end the process.
Ready(result) ==
  \/ /\ startup_future = "future" /\ can_be_called
     /\ can_be_called' = FALSE /\ value' = result
     /\ UNCHANGED process
  \/ /\ ~(startup_future = "future" /\ can_be_called)
     /\ process' = "check_failed"
     /\ UNCHANGED <<can_be_called, value>>

FinishReady ==
  /\ Alive /\ mpc = "ready"
  /\ Ready("success")
  /\ mpc' = "post"
  /\ UNCHANGED <<startup_future, tokens, freed, mutex, timer, hal, tpc, apc, got, session>>

FinishPosts ==
  /\ Alive /\ mpc = "post"
  /\ tokens' = tokens + 1
  /\ mpc' = "clear"
  /\ UNCHANGED <<startup_future, can_be_called, value, freed, mutex, timer, hal, tpc, apc, got,
                 process, session>>

FinishClears ==
  /\ Alive /\ mpc = "clear"
  /\ startup_future' = "NULL"
  /\ mutex' = "free" /\ mpc' = "done"
  /\ UNCHANGED <<futureVars, timer, hal, tpc, apc, got, process, session>>

-----------------------------------------------------------------------------
\* The timer expires: startup_timer_expired starts.
TimerExpires ==
  /\ Alive /\ timer = "armed"
  /\ timer' = "off"
  /\ tpc' = "try_lock"
  /\ UNCHANGED <<startup_future, futureVars, mutex, hal, mpc, apc, got, process, session>>

\* try_lock_for gets the mutex, or gives up while another thread holds it.
TimerLocks ==
  /\ Alive /\ tpc = "try_lock"
  /\ \/ mutex = "free" /\ mutex' = "timer" /\ tpc' = "ready" /\ UNCHANGED process
     \/ mutex # "free" /\ process' = "aborted" /\ UNCHANGED <<mutex, tpc>>
  /\ UNCHANGED <<startup_future, futureVars, timer, hal, mpc, apc, got, session>>

TimerReady ==
  /\ Alive /\ tpc = "ready"
  /\ Ready("fail")
  /\ tpc' = "post"
  /\ UNCHANGED <<startup_future, tokens, freed, mutex, timer, hal, mpc, apc, got, session>>

\* Mutant of TimerPosts: the awaiting thread is not woken.
TimerPostForgotten ==
  /\ Alive /\ tpc = "post"
  /\ tpc' = "clear"
  /\ UNCHANGED <<startup_future, tokens, can_be_called, value, freed, mutex, timer, hal, mpc,
                 apc, got, process, session>>

TimerPosts ==
  /\ Alive /\ tpc = "post"
  /\ tokens' = tokens + 1
  /\ tpc' = "clear"
  /\ UNCHANGED <<startup_future, can_be_called, value, freed, mutex, timer, hal, mpc, apc, got,
                 process, session>>

TimerClears ==
  /\ Alive /\ tpc = "clear"
  /\ startup_future' = "NULL"
  /\ mutex' = "free" /\ tpc' = "done"
  /\ UNCHANGED <<futureVars, timer, hal, mpc, apc, got, process, session>>

-----------------------------------------------------------------------------
\* Mutant of Await: does not wait for the semaphore.
AwaitNoWait ==
  /\ Alive /\ apc = "await"
  /\ got' = value
  /\ freed' = TRUE
  /\ apc' = "done"
  /\ UNCHANGED <<startup_future, tokens, can_be_called, value, mutex, timer, hal, mpc, tpc, process,
                 session>>

\* future_await: semaphore_wait, read the result, free the future.
Await ==
  /\ Alive /\ apc = "await"
  /\ tokens > 0 /\ tokens' = tokens - 1
  /\ got' = value
  /\ freed' = TRUE
  /\ apc' = "done"
  /\ UNCHANGED <<startup_future, can_be_called, value, mutex, timer, hal, mpc, tpc, process, session>>

\* hci_module_shut_down, once future_await has returned, and the next start-up.
\* alarm_free waits for the timer's callback; a closure that has not started is
\* dropped with the message loop.
Restart ==
  /\ Alive /\ apc = "done"
  /\ mpc \in {"idle", "posted", "done"} /\ tpc \in {"idle", "done"}
  /\ session < MaxSessions
  /\ session' = session + 1
  /\ startup_future' = "future"
  /\ can_be_called' = TRUE /\ value' = "none" /\ tokens' = 0 /\ freed' = FALSE
  /\ mutex' = "free" /\ timer' = "armed" /\ hal' = FALSE
  /\ mpc' = "idle" /\ tpc' = "idle" /\ apc' = "await" /\ got' = "none"
  /\ UNCHANGED process

LoopStep == FinishLocks \/ FinishCancels \/ FinishCancelReturns \/ FinishReady \/ FinishPosts
            \/ FinishClears
TimerStep == TimerLocks \/ TimerReady \/ TimerPosts \/ TimerClears

Next == InitializationComplete \/ LoopStep \/ TimerExpires \/ TimerStep \/ Await
        \/ Restart

Spec == Init /\ [][Next]_vars

\* The timer expires unless it is canceled and the threads run; the HAL need
\* not answer.
FairSpec == Spec /\ WF_vars(TimerExpires) /\ WF_vars(LoopStep)
                 /\ WF_vars(TimerStep) /\ WF_vars(Await)

-----------------------------------------------------------------------------
\* future.h, future_ready: "Must only be called once for every future. |future|
\* may not be NULL."  The two ways out of the start-up never run into the
\* CHECKs.
ReadyOnce == process # "check_failed"

\* The future is not touched after future_await has freed it.
FutureAlive ==
  /\ TypeOK
  /\ Alive /\ (mpc = "post" \/ tpc = "post" \/ (mpc = "ready" /\ startup_future = "future")
               \/ (tpc = "ready" /\ startup_future = "future"))
       => ~freed

\* What future_await returns is what happened: success only after the HAL's
\* report.
HonestResult == apc = "done" => got # "none" /\ (got = "success" => hal)

\* hci_module_start_up: "Make sure we run in a bounded amount of time."  The
\* caller gets a result, or the process ends.
StartupBounded == apc = "await" ~> (apc = "done" \/ ~Alive)

=============================================================================
