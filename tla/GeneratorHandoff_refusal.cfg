SPECIFICATION Spec
CONSTANTS
  t1 = t1
  f1 = f1
  f2 = f2
  p1 = p1
  p2 = p2
  d1 = d1
  Tasks = {t1}
  Features = {f1, f2}
  Paths = {p1, p2}
  Contents = {1, 2}
  Original = 1
  Dispatchers = {d1}
  NoTask = NoTask
  NoHandoff = NoHandoff
  NoEnvelope = NoEnvelope
  TornEnvelope = TornEnvelope
  NoMeta = NoMeta
  Other = Other
  Gate = Gate
  MaxCommits = 2
SYMMETRY Symmetry
CHECK_DEADLOCK FALSE
INVARIANTS
  RefusalKeepsMain
