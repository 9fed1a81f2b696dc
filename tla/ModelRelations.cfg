SPECIFICATION Spec
INVARIANTS
  OnlyFailedThrows
  TouchesAllOwners
PROPERTY
  RecursionEnds
\* The call returns.
CHECK_DEADLOCK FALSE
