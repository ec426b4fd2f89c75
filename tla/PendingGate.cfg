SPECIFICATION Spec
CONSTANTS
  r1 = r1  r2 = r2
  Requests <- MCRequests
  MaxCommits = 5
CHECK_DEADLOCK FALSE
PROPERTIES
  ConsoleWritesOnlyDecision
