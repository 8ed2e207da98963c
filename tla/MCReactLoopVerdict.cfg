SPECIFICATION Spec
CONSTANTS
  MaxCalls = 4
  Arg = {a1}
  None = None
  PlannerLimit = 2
  ReviewerLimit = 4
  QueryRounds = 1
  MaxRevisions = 1
  MaxRequests = 1
  BatchSize = 1
  Batches = {1}
CHECK_DEADLOCK FALSE
INVARIANT
  VerdictIsAboutCalculation
