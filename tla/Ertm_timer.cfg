SPECIFICATION FairSpec
CONSTANTS
  Scenarios <- Usual
  MaxSdus = 2
  MaxTransmit = 2
  StartSeq = 62
  MaxLoss = 2
  MaxBusy = 1
  MaxEarly = 0
  MaxRoom = 2
PROPERTY SduDelivered
CHECK_DEADLOCK FALSE
