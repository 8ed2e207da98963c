SPECIFICATION FairSpec
CONSTANTS
  Call = {c1, c2, c3, c4}
  MaxConcurrency = 2
  RetryCount = 1
  Threshold = 2
CHECK_DEADLOCK FALSE
INVARIANTS
  TypeOK
  ClosedBelowThreshold
  FlagHasOwner
PROPERTIES
  CallsEnd
