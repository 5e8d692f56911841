SPECIFICATION FairSpec
INVARIANTS BuffersAccounted PeerGetsPackets LinkQueueHasWakeup
PROPERTY LinkQueueSent
CONSTANTS
  NumLinks = 3
  HighPriMin = 2
  AclData = 2
  MaxBuffer = 5
  Lens = {3}
  Setups <- Usual
CHECK_DEADLOCK FALSE
