--------------------------- MODULE MCZoomAnalysis ---------------------------
(***************************************************************************)
(* Small instances of ZoomAnalysis.  Traces up to 96 have small blocks at  *)
(* the root, which are combined; the others have large ones.               *)
(***************************************************************************)
EXTENDS ZoomAnalysis

MCPlaces == {0, 3, 48, 96, 106, 113, 152, 200, 310}
MCTraces ==
  UNION {[s -> {1, 2}] : s \in {t \in SUBSET MCPlaces : Cardinality(t) \in 2 .. 4}}
=============================================================================
