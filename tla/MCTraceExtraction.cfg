\* Routines of two and three instructions in two blocks, two block executions, one
\* sample boundary.
SPECIFICATION Spec
CONSTANTS
  Blocks <- MCBlocks
  Routines <- MCRoutines
  Options <- MCOptions
  Reloc <- MCReloc
  MaxRuns = 2
  MaxSamples = 1
CHECK_DEADLOCK FALSE
INVARIANT SkipsCharged
INVARIANT OneLeftoverServed
INVARIANT ExecutionAccounted
INVARIANT RecordsRebuilt
