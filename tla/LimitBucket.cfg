CONSTANTS
  MaxCapacity = 3
  RefillRate = 2
  c1 = c1
  c2 = c2
  Callers <- MCCallers
  Observed = TRUE
  WindowTicks = 2
SPECIFICATION FairSpec
INVARIANT TypeOK RefillNeverBlocks WindowBound
PROPERTY WaitersServed CancelledLeave RefillerEnds
