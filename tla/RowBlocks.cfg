CONSTANT
  MaxRuns = 4
SPECIFICATION Spec
INVARIANTS
  CompletedRunCleans
  CountedBack
  DebugMakesNoCopy
PROPERTY
  ImplementsLeftovers
\* The last run ends.
CHECK_DEADLOCK FALSE
