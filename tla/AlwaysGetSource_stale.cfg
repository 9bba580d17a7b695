CONSTANTS
  c1 = c1
  n1 = n1
  own = own
  Callers <- MCCallers
  Names <- MCNames
  OwnScopes <- MCScopes
  Sources <- MCSources
  DefaultCacheDuration = 1
  BadRequests = FALSE
  Methods = {"GET", "LIST", "SEARCH"}
  Searches = {"arn"}
SPECIFICATION Spec
INVARIANT NotTooOld
