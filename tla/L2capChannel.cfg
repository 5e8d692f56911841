SPECIFICATION Spec
CONSTANTS
  MaxCcbs = 3
  Scenarios <- Usual
INVARIANTS OpenAgrees CallbacksMatch
PROPERTIES SecuredChannels AnsweredUnlessSkipped
CHECK_DEADLOCK FALSE
