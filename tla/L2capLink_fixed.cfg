SPECIFICATION Spec
INVARIANT TimerKept
CONSTANTS
  NumLinks = 3
  HighPriMin = 2
  AclData = 2
  MaxBuffer = 5
  Lens = {3}
  Setups <- WithFixed
CHECK_DEADLOCK FALSE
