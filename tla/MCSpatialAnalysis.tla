-------------------------- MODULE MCSpatialAnalysis --------------------------
(***************************************************************************)
(* Small instances of SpatialAnalysis: the heap ends at 99, two regions.   *)
(***************************************************************************)
EXTENDS SpatialAnalysis

MCRegions == <<<<10, 17>>, <<40, 47>>>>

\* The calls of main.cpp: reuse distances only, all regions of the trace, and
\* the cache lines of a hot page with one hot line elsewhere.
MCCalls ==
  {[option |-> 1, spatial |-> FALSE, min |-> 10, max |-> 18, blockSize |-> 4,
    blockCount |-> 2, regions |-> << >>, hotLines |-> << >>],
   [option |-> 0, spatial |-> TRUE, min |-> 10, max |-> 47, blockSize |-> 4,
    blockCount |-> 2, regions |-> MCRegions, hotLines |-> << >>],
   [option |-> 4, spatial |-> TRUE, min |-> 10, max |-> 17, blockSize |-> 4,
    blockCount |-> 2, regions |-> MCRegions, hotLines |-> <<40>>]}
=============================================================================
