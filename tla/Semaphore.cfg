SPECIFICATION FairSpec
INVARIANTS IInv
PROPERTIES NoLostWakeup ImplementsCounting
CONSTANTS
  Threads = {t1, t2, t3}
  InitialValue = 1
  MaxPosts = 2
  Mixed = FALSE
CHECK_DEADLOCK FALSE
