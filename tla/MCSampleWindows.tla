--------------------------- MODULE MCSampleWindows ---------------------------
(***************************************************************************)
(* A small instance of SampleWindows.                                      *)
(***************************************************************************)
EXTENDS SampleWindows

CONSTANTS a1, a2
MCAddrs == {a1, a2}
=============================================================================
