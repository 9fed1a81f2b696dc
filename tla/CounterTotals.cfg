CONSTANTS
  MaxThreads = 3
  MaxCount   = 1
SPECIFICATION Spec
INVARIANTS
  TotalsExact
  TotalsFit
CHECK_DEADLOCK FALSE
