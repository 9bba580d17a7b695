CONSTANTS
  q1 = q1
  q2 = q2
  Regions = 2
  Queries <- MCQueries
  MaxCapacity = 2
  RefillRate = 1
  AuthConfigs <- AllConfigs
  SignalsMax = 2
SPECIFICATION FairSpec
CHECK_DEADLOCK FALSE
INVARIANT TypeOK ServesEverything OneStrategy NoLimiterLeftBehind
PROPERTY SignalEnds StopNotCutShort
