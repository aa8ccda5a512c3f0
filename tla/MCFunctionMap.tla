---------------------------- MODULE MCFunctionMap ----------------------------
(***************************************************************************)
(* Small instances of FunctionMap: up to four functions in any order, and  *)
(* instructions below, at, between and after their starts.                 *)
(***************************************************************************)
EXTENDS FunctionMap

MCStarts == {1, 2, 4, 5}
MCIPs    == {0, 1, 2, 3, 4, 6}
=============================================================================
