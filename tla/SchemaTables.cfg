CONSTANT
  MaxRuns = 4
SPECIFICATION Spec
INVARIANTS
  CompletedRunCleans
  AltersItsOwn
  FoundTablesStay
PROPERTY
  ImplementsLeftovers
\* The last run ends.
CHECK_DEADLOCK FALSE
