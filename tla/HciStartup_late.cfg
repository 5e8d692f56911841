SPECIFICATION FairSpec
INVARIANT ReadyOnce
CONSTANTS
  MaxSessions = 4
CHECK_DEADLOCK FALSE
