SPECIFICATION FairSpec
INVARIANTS OneAtATime EventReachesItsCommand NotFreedInUse TimerTracksPending
PROPERTIES EveryCommandAnswered
CONSTANTS
  Commands = {c1,c2,c3}
  Alike = {c1, c2}
  Futured = {c1}
  Vendor = {c3}
  ImproperVs = TRUE
  Windows = {1, 2}
  MaxNops = 1
  MaxSessions = 2
  None = none
CHECK_DEADLOCK FALSE
