SPECIFICATION FairSpec
CONSTANTS
  Scenarios <- Usual
  MaxSdus = 2
  MaxTransmit = 2
  StartSeq = 62
  MaxLoss = 2
  MaxBusy = 1
  MaxEarly = 1
  MaxRoom = 2
INVARIANTS NoProtocolError SrejHoldsFrame AckedIsDelivered
PROPERTIES ImplementsStream StuckOnlyByReject
CHECK_DEADLOCK FALSE
