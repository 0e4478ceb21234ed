CONSTANTS
  Devices = {"laptop", "tablet"}
  Sources = {"intune", "jamf"}
  SourceOf <- MCSourceOf
  RecordsOf <- MCRecordsOf
  NoUser = "nobody"
  Data = {"staff", "student"}
  DetailsTTL = 2
  IdentityTTL = 2
  MaxTime = 4
CHECK_DEADLOCK FALSE
SPECIFICATION Spec
INVARIANTS
  PlanIsCurrent
  DetailsCoherent
  UsersCoherent
