\* Counting with purges, two hot ranges around the regions of the zoom, and
\* ranges of up to 50 pages, then the hot pages and lines of all regions.
SPECIFICATION Spec
CONSTANTS
  Insns <- MCInsns
  Traces <- MCTraces
  ZoomRegions <- MCZoomRegions
  PurgeShare = 4
  TopShare = 3
  MaxInsns = 2
  OSPageSize = 4
  ZoomShare = 3
  MaxGroups = 4
  heapAddrEnd = 200
  cacheLineWidth = 2
  MaxPages = 2
  MaxLines = 2
CHECK_DEADLOCK FALSE
INVARIANT LossyCount
INVARIANT RegionIndexAgrees
INVARIANT ChildrenAccessed
INVARIANT HotPagesFound
INVARIANT HottestLines
