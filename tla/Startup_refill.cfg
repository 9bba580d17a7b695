CONSTANTS
  q1 = q1
  q2 = q2
  Regions = 1
  Queries <- MCQueries
  MaxCapacity = 1
  RefillRate = 1
  AuthConfigs <- DefaultConfig
  SignalsMax = 1
SPECIFICATION FairSpec
CHECK_DEADLOCK FALSE
PROPERTY QueriesAnswered

