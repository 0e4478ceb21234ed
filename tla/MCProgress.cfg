CONSTANTS
  Loggers = {"stages", "other"}
  Labels = {"list", "apply"}
  Budget = 1
  MaxRecords <- MCMaxRecords
  MaxDue = 1
SPECIFICATION FairSpec
INVARIANTS
  ScreenIntact
  ReportUndisturbed
PROPERTIES
  EndedStagesVanish
  CommandEnds
CHECK_DEADLOCK FALSE
