CONSTANTS
  MaxCapacity = 1
  RefillRate = 1
  c1 = c1
  c2 = c2
  Callers <- MCCallers
  Observed = FALSE
  WindowTicks = 1
  Asked <- MCListing
  MoreMax = 6
  UnpaidMax = 9
SPECIFICATION CallsSpec
INVARIANT AllBound
