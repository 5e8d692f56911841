-------------------------- MODULE CountingSemaphore --------------------------
(***************************************************************************)
(* What osi/include/semaphore.h promises: a counting semaphore.  A call of *)
(* semaphore_wait returns only by decrementing the value, a call of        *)
(* semaphore_try_wait returns true by decrementing it and false only when  *)
(* the value was 0, and semaphore_post increments it.                      *)
(***************************************************************************)
EXTENDS Naturals

CONSTANTS Threads,       \* callers of the semaphore
          InitialValue   \* the |value| given to semaphore_new

VARIABLES value,   \* the semaphore's value
          op,      \* op[t]: the call t is executing, or "none"
          result   \* result[t]: what t's last completed call returned: "acquired",
                   \* "was_zero" or, before the first, "none"

vars == <<value, op, result>>

Calls == {"wait", "try_wait"}

Init ==
  /\ value = InitialValue
  /\ op = [t \in Threads |-> "none"]
  /\ result = [t \in Threads |-> "none"]

Call(t, c) ==
  /\ op[t] = "none"
  /\ op' = [op EXCEPT ![t] = c]
  /\ result' = [result EXCEPT ![t] = "none"]
  /\ UNCHANGED value

Acquire(t) ==
  /\ op[t] \in Calls
  /\ value > 0
  /\ value' = value - 1
  /\ op' = [op EXCEPT ![t] = "none"]
  /\ result' = [result EXCEPT ![t] = "acquired"]

FailToAcquire(t) ==
  /\ op[t] = "try_wait"
  /\ value = 0
  /\ op' = [op EXCEPT ![t] = "none"]
  /\ result' = [result EXCEPT ![t] = "was_zero"]
  /\ UNCHANGED value

Post(t) ==
  /\ op[t] = "none"
  /\ value' = value + 1
  /\ UNCHANGED <<op, result>>

Next == \E t \in Threads :
          \/ \E c \in Calls : Call(t, c)
          \/ Acquire(t)
          \/ FailToAcquire(t)
          \/ Post(t)

Spec == Init /\ [][Next]_vars

=============================================================================
