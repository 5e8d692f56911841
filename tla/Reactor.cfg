SPECIFICATION FairSpec
INVARIANTS NoUseAfterFree NoCallbackAfterUnregister
PROPERTIES UnregisterReturns ReadyIsServed
CONSTANTS
  Objects = {o1, o2}
  Clients = {c1, c2}
  None = none
  MaxLives = 2
  UnregisterOthers = FALSE
CHECK_DEADLOCK FALSE
