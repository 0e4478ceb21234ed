CONSTANTS
  N = 2
  Names = {a, b}
  Targets = {a, b}
  PoolTarget = a
  Workers = {w1, w2}
  RetryAfter = 1
  MaxAttempts = 2
  MaxTime = 2
  SaveResults = {"ok", "failed", "late"}
SPECIFICATION MCSpec
INVARIANTS
  NoStragglers
  WriteAhead
  ReportTruthful
  NoSubmissionLost
PROPERTIES
  AcceptedNotResent
  LedgerContract
  CyclesEnd
  ShutdownEnds
