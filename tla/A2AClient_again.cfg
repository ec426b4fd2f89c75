SPECIFICATION Spec
CONSTANTS
  MaxReconnects = 1
  Resumes <- ResumeAnywhere
  MaxRuns = 1
  MaxRestarts = 0
INVARIANT
  SeenOnce
CHECK_DEADLOCK FALSE
