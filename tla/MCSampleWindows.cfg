\* Every trace of up to five accesses to two addresses, with and without constant
\* loads, and every trace of up to eleven plain accesses; up to three samples, two
\* accesses to a window.
SPECIFICATION Spec
CONSTANTS
  a1 = a1
  a2 = a2
  Addrs <- MCAddrs
  Extras = {0, 1}
  SampleIDs = {1, 2, 3}
  MinWindowSize = 1
  MinLevel = 1
  MaxAccesses = 11
  Plain = a1
  MaxVaried = 5
CHECK_DEADLOCK FALSE
INVARIANT TraceAtSampleRoots
INVARIANT WellBuilt
INVARIANT MetricsOfWindow
INVARIANT CountsTelescope
INVARIANT ReportComplete
PROPERTY SamplesSpec
