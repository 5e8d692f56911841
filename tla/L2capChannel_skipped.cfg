SPECIFICATION Spec
CONSTANTS
  MaxCcbs = 3
  Scenarios <- Skips
PROPERTY ConnectAnswered
CHECK_DEADLOCK FALSE
