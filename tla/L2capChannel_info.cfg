SPECIFICATION Spec
CONSTANTS
  MaxCcbs = 2
  Scenarios <- LateInfo
INVARIANT ConnectIndOnce
CHECK_DEADLOCK FALSE
