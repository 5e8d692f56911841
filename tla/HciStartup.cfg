SPECIFICATION FairSpec
INVARIANTS FutureAlive HonestResult
PROPERTY StartupBounded
CONSTANTS
  MaxSessions = 4
CHECK_DEADLOCK FALSE
