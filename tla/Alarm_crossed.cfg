SPECIFICATION Spec
INVARIANT CancelPromise
CONSTANTS
  Alarms = {a1}
  Kinds = {"mloop"}
  Users = {u}
  Intervals = {1}
  Threshold = 2
  MaxTime = 3
  MaxSets = 1
  WakelockFails = FALSE
  WithCleanup = FALSE
  None = none
CHECK_DEADLOCK FALSE
