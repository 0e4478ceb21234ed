CONSTANTS
  N = 3
  Names <- MCNames
  NoName = ""
  Desired = {"A", "B"}
  Held = {"A", "B"}
  Unused = "A"
  K = 4
  Fold <- MCFold
  Suffixes <- MCSuffixes
  Rounds = 1
SPECIFICATION MCSpec
INVARIANTS
  KeptNamesRespected
CHECK_DEADLOCK FALSE
