SPECIFICATION Spec
INVARIANTS TryWaitNeverSleeps
CONSTANTS
  Threads = {t1, t2}
  InitialValue = 0
  MaxPosts = 1
  Mixed = FALSE
CHECK_DEADLOCK FALSE
