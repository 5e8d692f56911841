SPECIFICATION FairSpec
INVARIANTS CancelGuarantee CalledOnTime PendingInOrder TimersRight
PROPERTIES AlarmFires CancelCompletes
CONSTRAINT Bounded
CONSTANTS
  a1 = a1
  a2 = a2
  Alarms <- MCAlarms
  Kinds = {"once", "periodic", "mloop", "mloop_periodic"}
  Users = {}
  Intervals = {0, 1, 2}
  Threshold = 2
  MaxTime = 4
  MaxSets = 2
  MaxPosts = 2
  WakelockFails = FALSE
  WithCleanup = TRUE
  None = none
\* alarms may all be idle, and alarm_cleanup may have ended
CHECK_DEADLOCK FALSE
