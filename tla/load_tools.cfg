SPECIFICATION MCSpec
CONSTANTS
  None = None
  Payments = {p1, p2}
  Calls = {c1, c2}
  Target = 2
  MaxFailures = 2
INVARIANT CountsAreDeliveries
INVARIANT LoadVerdictIsHonest
INVARIANT MergedVerdictIsHonest
INVARIANT AuditIsExact
INVARIANT WaveMeasuresContention
\* Every tool ends.
CHECK_DEADLOCK FALSE
