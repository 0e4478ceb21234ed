CONSTANTS
  Docs = {d0, d1, d2}
  Empty = d0
SPECIFICATION SaveSpec
INVARIANTS
  AckSurvivesPowerLoss
PROPERTIES
  ReplacedAsAWhole
