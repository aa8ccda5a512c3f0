\* Every trace of up to five accesses in up to three samples.
SPECIFICATION Spec
CONSTANTS
  Calls <- MCCalls
  Addrs = {10, 18, 41, 120}
  SampleIDs = {1, 2, 3}
  HeapAddrEnd = 99
  MaxHotLines = 1
  LineWidth = 4
  MaxLines = 5
CHECK_DEADLOCK FALSE
INVARIANT PagesApart
INVARIANT StackIsRecency
INVARIANT ReuseDistances
INVARIANT LifetimesWithinSamples
INVARIANT MiddleCounts
INVARIANT NextAccesses
