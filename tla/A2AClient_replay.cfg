SPECIFICATION FairSpec
CONSTANTS
  MaxReconnects = 0
  Resumes <- ResumeAnywhere
  MaxRuns = 2
  MaxRestarts = 0
PROPERTY
  ReplayKeepsReceipt
CHECK_DEADLOCK FALSE
