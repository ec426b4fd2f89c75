CONSTANTS
  t1 = t1
  h1 = h1
  Tasks = {t1}
  Handlers = {h1}
  Stalls = FALSE
  MaxStarts = 1
SPECIFICATION FairSpec
CHECK_DEADLOCK FALSE
PROPERTIES
  CancelAnswered
  TaskSettles
  ShutdownEnds
