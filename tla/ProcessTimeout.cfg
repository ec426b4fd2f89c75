SPECIFICATION FairSpec
CONSTANTS
  Signals = {2, 15}
  MaxSignals = 2
  PsMayFail = TRUE
INVARIANTS
  TypeOK
  NothingIsLeft
  StatusIsTrue
PROPERTIES
  WrapperEnds
CHECK_DEADLOCK FALSE
