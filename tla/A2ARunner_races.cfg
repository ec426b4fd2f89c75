CONSTANTS
  t1 = t1
  h1 = h1
  h2 = h2
  Tasks = {t1}
  Handlers = {h1, h2}
  Stalls = FALSE
  MaxStarts = 1
SYMMETRY Symmetry
SPECIFICATION Spec
CHECK_DEADLOCK FALSE
INVARIANTS
  TypeOK
  LaunchIsAnnounced
  CancelReturnsFinal
  NoOrphanTask
  NoSandboxIsLost
