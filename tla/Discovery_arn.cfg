CONSTANTS
  Account = "acct"
  Regions <- MCRegions
SPECIFICATION Spec
CHECK_DEADLOCK FALSE
INVARIANT DocumentedSearch
