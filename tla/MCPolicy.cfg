CONSTANTS
  N = 3
  Policies <- MCPolicies
  Names = {"", "a", "long", "no-match"}
  Strings = {"s", "t"}
  RankValues = {1, 2}
  Identities = {1, 2, 3}
  Platform <- MCPlatform
  Length <- MCLength
  Matching = {"a", "long"}
  MaxLength = 100
SPECIFICATION MCSpec
INVARIANTS
  EvaluationMeets
  NothingPanics
  StrictlyOrdered
CHECK_DEADLOCK FALSE
