CONSTANTS
  Processes = {p1, p2, p3}
  Keys = {laptop, tablet}
  Nobody = nobody
SPECIFICATION Spec
INVARIANTS
  WriterIsCurrent
PROPERTIES
  FailClosed
  SettledNotResent
