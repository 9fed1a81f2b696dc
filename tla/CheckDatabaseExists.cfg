CONSTANT
  MaxRuns = 3
SPECIFICATION Spec
INVARIANTS
  OnlyKilled
  CompletedRunCleans
\* The last run ends.
CHECK_DEADLOCK FALSE
