CONSTANTS
  N = 1
  Names = {a, b}
  Targets = {a}
  Workers = {w1}
  RetryAfter = 1
  MaxAttempts = 2
  MaxTime = 3
  SaveResults = {"ok"}
SPECIFICATION Spec
INVARIANTS
  RetryTimesMeanEligible
