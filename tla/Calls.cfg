CONSTANTS
  MaxCapacity = 1
  RefillRate = 1
  c1 = c1
  c2 = c2
  Callers <- MCCallers
  Observed = FALSE
  WindowTicks = 1
  Asked <- MCAsked
  MoreMax = 1
  UnpaidMax = 0
SPECIFICATION FairCallsSpec
INVARIANT CallsTypeOK PaidBound ShortOnlyWhereListed
PROPERTY EveryQueryEnds ImplementsBucket
ACTION_CONSTRAINT AnswersTakenAtOnce OneQueryWatched
