\* Two devices, two names: the save of one device can leave the other behind,
\* a request is superseded and restored, and an ID changes its serial.
CONSTANTS
  Keys = {k1, k2}
  Serials = {s1, s2}
  Names = {a, b}
  RetryAfter = 1
  MaxAttempts = 2
  MaxTime = 2
SPECIFICATION MCSpec
SYMMETRY Symmetry
INVARIANTS
  PromisesDurable
  BoundedSubmissions
  OneRecordApart
PROPERTIES
  CooldownRespected
  SettledForGood
  LateOutcomeIgnored
