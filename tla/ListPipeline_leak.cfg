CONSTANTS
  MaxParallel = 2
  MaxJobs = 2
  MaxPages = 2
  MaxPanics = 0
SPECIFICATION FairSpec
CHECK_DEADLOCK FALSE
PROPERTY ErrorEndsGoroutines

