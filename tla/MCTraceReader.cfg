\* Traces of up to four records in three samples, with a region filter, with
\* and without a function in focus.
SPECIFICATION Spec
CONSTANTS
  load = load
  near = near
  far = far
  const = const
  IPs <- MCAllIPs
  ConstantIPs <- MCConstantIPs
  FrameLds <- MCFrameLds
  FuncOf <- MCFuncOf
  FocusModes = {TRUE, FALSE}
  RegionFilter = TRUE
  SampleIDs = {0, 1, 2}
  ExtraModulus = 4
  MaxLines = 4
CHECK_DEADLOCK FALSE
INVARIANT LoadsAccounted
INVARIANT ExtraIsFold
INVARIANT FoldedNearby
INVARIANT SamplesRenumbered
INVARIANT FocusSpan
PROPERTY OnlyLastAmended
