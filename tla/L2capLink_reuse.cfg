SPECIFICATION Spec
INVARIANT SentNotAcked
CONSTANTS
  NumLinks = 3
  HighPriMin = 2
  AclData = 2
  MaxBuffer = 5
  Lens = {3}
  Setups <- WithReuse
CHECK_DEADLOCK FALSE
