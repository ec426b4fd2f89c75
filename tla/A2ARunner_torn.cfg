CONSTANTS
  t1 = t1
  h1 = h1
  Tasks = {t1}
  Handlers = {h1}
  Stalls = FALSE
  MaxStarts = 2
SPECIFICATION Spec
CHECK_DEADLOCK FALSE
INVARIANTS
  ServedFinalIsComplete
