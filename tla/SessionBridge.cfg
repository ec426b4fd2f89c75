SPECIFICATION Spec
CONSTANTS
  k1 = k1  k2 = k2
  Calls <- MCCalls
  MaxSignals = 2
  MaxEvents = 9
  MaxWire = 2
CHECK_DEADLOCK FALSE
INVARIANTS
  OneChildProved
  NothingLeftBehind
PROPERTIES
  SessionEnds
