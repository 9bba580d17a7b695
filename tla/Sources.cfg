CONSTANTS
  c1 = c1
  c2 = c2
  n1 = n1
  own = own
  p1 = p1
  Callers <- MCCallers
  Names <- MCNames
  OwnScopes <- MCScopes
  Sources <- MCSources
  Parts <- MCParts
  DefaultCacheDuration = 1
  BadRequests = FALSE
  ListsTags = TRUE
  Methods = {"GET", "LIST", "SEARCH"}
  Searches = {"arn", "get", "list"}
SPECIFICATION Spec
SYMMETRY Symmetry
ACTION_CONSTRAINT AnswersTakenAtOnce
INVARIANT TypeOK FreshWhenAsked NeverProlonged KeptUnlessUnset ErrorsKeepKind FreshListsAll
