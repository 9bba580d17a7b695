CONSTANTS
  MaxParallel = 2
  MaxJobs = 4
  MaxPages = 2
  MaxPanics = 1
SPECIFICATION FairSpec
CHECK_DEADLOCK FALSE
INVARIANT TypeOK BoundedParallel ReleaseNeverBlocks NoSendAfterClose
PROPERTY ImplementsContract Answers WorkersEnd
