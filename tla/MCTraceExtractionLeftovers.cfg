SPECIFICATION Spec
CONSTANTS
  Blocks <- MCBlocks
  Routines <- MCFew
  Options <- MCDefaults
  Reloc <- MCReloc
  MaxRuns = 1
  MaxSamples = 0
CHECK_DEADLOCK FALSE
INVARIANT LeftoversInstrumented
