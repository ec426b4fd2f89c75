CONSTANTS
  t1 = t1
  h1 = h1
  Tasks = {t1}
  Handlers = {h1}
  Stalls = TRUE
  MaxStarts = 3
SPECIFICATION Spec
CHECK_DEADLOCK FALSE
INVARIANTS
  AtMostOneLaunch
  LogIsTrue
PROPERTIES
  FinalIsImmutable
  ImplementsLifecycle
