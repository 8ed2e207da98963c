SPECIFICATION Spec
CONSTANTS
  MaxCalls = 3
  Arg = {a1}
  None = None
  PlannerLimit = 2
  ReviewerLimit = 2
  QueryRounds = 1
  MaxRevisions = 1
  MaxRequests = 1
  BatchSize = 2
  Batches = {1, 2, 3}
CHECK_DEADLOCK FALSE
INVARIANTS
  TypeOK
  EffectsMatchReceipts
  BudgetsHold
  CalculationIsCurrent
PROPERTIES
  QuestionStopsTheLoop
