---------------------------- MODULE MCLoopNesting ----------------------------
(***************************************************************************)
(* A small instance of LoopNesting.                                        *)
(***************************************************************************)
EXTENDS LoopNesting

CONSTANTS b1, b2, b3, b4, entry

MCBlocks == {b1, b2, b3, b4}

\* All graphs of the four blocks, but that only two of them can be loops on
\* their own.
MCGraphs == SUBSET {e \in MCBlocks \X MCBlocks : e[1] # e[2] \/ e[1] \in {b1, b4}}

\* The blocks but the first are interchangeable.
Symmetry == Permutations({b2, b3})
=============================================================================
