CONSTANTS
  Account = "acct"
  Regions <- MCRegions
SPECIFICATION Spec
CHECK_DEADLOCK FALSE
INVARIANTS
  TypeOK
  LinkAnswered
  FoundAgain
  FoundByArn
  OtherScopeRefused
  BlastMirrored
  AskedOnce
