SPECIFICATION FairSpec
CONSTANTS
  MaxReconnects = 1
  Resumes <- ResumeAnywhere
  MaxRuns = 2
  MaxRestarts = 1
INVARIANTS
  StreamIsWhole
  ReceiptMatchesRecord
PROPERTIES
  ReturnedIsKept
  UpdatesArrive
  ClientEnds
CHECK_DEADLOCK FALSE
