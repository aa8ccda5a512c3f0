\* Each script up to twice, interrupted anywhere.
SPECIFICATION Spec
CONSTANTS
  MaxRuns = 2
  MaxCollects = 2
CHECK_DEADLOCK FALSE
INVARIANT ConfigAfterData
INVARIANT Repeatable
PROPERTY ConfigWritten
