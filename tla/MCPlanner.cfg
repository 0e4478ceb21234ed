CONSTANTS
  N = 3
  Names <- MCNames
  NoName = ""
  Desired = {"A", "a", "A-1"}
  Held = {"", "A", "a", "A-1", "a-2", "B"}
  Unused = "A"
  K = 4
  Fold <- MCFold
  Suffixes <- MCSuffixes
  Rounds = 4
SPECIFICATION MCSpec
INVARIANTS
  UniqueNames
  UnmanagedRespected
  FixedNamesExact
  Converges
CHECK_DEADLOCK FALSE
