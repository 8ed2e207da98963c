SPECIFICATION Spec
CONSTANTS
  Turn = {t1}
  Cancel = {c1}
  Process = {p1}
  Nobody = Nobody
CHECK_DEADLOCK FALSE
PROPERTIES
  CommittedIsNotCancelled
