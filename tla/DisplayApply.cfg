SPECIFICATION Spec
CONSTANTS
  InputRetries = 2
  MaxFaults = 2
  MaxExtras = 1
  MaxSkipped = 1
  MaxMisses = 1
  MaxApplies = 1
  QueryAttempts = 2
CHECK_DEADLOCK FALSE
INVARIANTS
  ChannelIsSound
  CleanIsUntouched
  SuccessIsApplied
