CONSTANTS
  c1 = c1
  c2 = c2
  n1 = n1
  n2 = n2
  own = own
  Callers <- MCCallers
  Names <- MCNames
  OwnScopes <- MCScopes
  Sources <- MCSources
  DefaultCacheDuration = 1
  BadRequests = FALSE
  Methods = {"GET", "LIST", "SEARCH"}
SPECIFICATION Spec
SYMMETRY Symmetry
INVARIANT ListsAll
