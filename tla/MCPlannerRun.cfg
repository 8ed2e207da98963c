SPECIFICATION Spec
CONSTANTS
  Exec = {e1, e2}
  Start = s
  Resume = {r1}
  Talk = {m1}
  Cancel = {c1}
  Process = {p1}
  Nobody = Nobody
  MaxRev = 3
  Steps <- MCSteps
SYMMETRY MCSymmetry
CHECK_DEADLOCK FALSE
INVARIANTS
  TypeOK
  NoLostUpdate
  LapsedNeverPublishes
  TakeoverEndsThePast
PROPERTIES
  OthersSpare
