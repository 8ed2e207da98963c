SPECIFICATION FairSpec
CONSTANTS
  Command = {c1, c2}
  Setup = {c1}
  Reader = Reader
  MaxFrames = 2
CHECK_DEADLOCK FALSE
INVARIANTS
  TypeOK
  OnlyFlightIsLost
  OutcomesAreHonest
  NoGapOnTheWire
  QuietWhenDone

  
