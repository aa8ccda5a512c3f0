\* Every trace that accesses two to four of nine places, once or twice.
SPECIFICATION Spec
CONSTANTS
  Traces <- MCTraces
  mempin = 3
  pageSize = 2
  MinBlockSize = 2
  LevelOneSize = 32
  cacheLineWidth = 2
  zoomLastLvlPageWidth = 8
  heapAddrEnd = 250
  FirstShare = 8
  ZoomShare = 2
  Radix = 2
  RootLetter = 2
  MaxZooms = 30
CHECK_DEADLOCK FALSE
INVARIANT FailsOnlyBySpill
INVARIANT AccessesFoundAgain
INVARIANT PagesDistinct
INVARIANT FinestRegions
PROPERTY ZoomEnds
