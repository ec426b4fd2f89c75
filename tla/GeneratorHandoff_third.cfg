SPECIFICATION Spec
CONSTANTS
  t1 = t1
  f1 = f1
  p1 = p1
  d1 = d1
  d2 = d2
  d3 = d3
  Tasks = {t1}
  Features = {f1}
  Paths = {p1}
  Contents = {1, 2}
  Original = 1
  Dispatchers = {d1, d2, d3}
  NoTask = NoTask
  NoHandoff = NoHandoff
  NoEnvelope = NoEnvelope
  TornEnvelope = TornEnvelope
  NoMeta = NoMeta
  Other = Other
  Gate = Gate
  MaxCommits = 2
SYMMETRY Symmetry
CHECK_DEADLOCK FALSE
PROPERTIES
  LandsAsTold
