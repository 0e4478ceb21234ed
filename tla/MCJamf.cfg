CONSTANTS
  Callers = {c1, c2}
  Life = 3
  Leeway = 1
  Timeout = 1
  MaxTokens = 2
  MaxTime = 3
  Ids = {1, 2, 3, 4, 5}
  Wanted = {1, 2, 4, 5}
  PageSize = 2
  MaxChanges = 4
SPECIFICATION MCSpec
INVARIANTS
  AtMostOnce
  FetchNeeded
  CountedOnce
  MissesPaidFor
PROPERTIES
  GoodTokenKept
  CachedNotExpired
  RequestsReturn
