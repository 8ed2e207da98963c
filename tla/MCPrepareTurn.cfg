SPECIFICATION Spec
CONSTANTS
  Turn = {t1, t2}
  Cancel = {c1}
  Process = {p1}
  Nobody = Nobody
CHECK_DEADLOCK FALSE
INVARIANTS
  TypeOK
  OrderlyEnd
PROPERTIES
  ToldIsFinal
  SupersededNeverCommits
  KeyChangesHands
