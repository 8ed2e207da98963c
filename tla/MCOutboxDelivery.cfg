SPECIFICATION FairSpec
CONSTANTS
  Dispatcher = {d1, d2}
  NoOne = NoOne
  Terminal = 4
  Window = 1
  MaxAttempts = 2
CHECK_DEADLOCK FALSE
INVARIANTS
  TypeOK
  CursorBehindWire
  RowIsConsistent
  AcksAreDurable
PROPERTIES
  CursorOnlyAdvances
  ImplementsDelivery
  DispatchEnds
