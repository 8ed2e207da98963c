SPECIFICATION Spec
CONSTANTS
  Turn = {t1, t2, t3}
  Command <- MCThree
  Generation = {g1, g2}
  Interaction = {i1, i2}
  Plan = {p1, p2}
  Caller = {a1}
  Null = Null
  MaxVersion = 3
  Name = {x1, x2, x3}
SYMMETRY MCHistorySymmetry
CHECK_DEADLOCK FALSE
INVARIANTS
  LinearHistory
  AllOrNothing
  PendingCardIsCurrent
  PlanChain
PROPERTIES
  EndedTurnIsFrozen
  ImplementsJournal
