----------------------------- MODULE MCHotRegions -----------------------------
(***************************************************************************)
(* Small instances of HotRegions and HotLines.                             *)
(***************************************************************************)
EXTENDS HotLines

MCInsns == {1, 2, 3}

MCLine(i, a, s) == [insn |-> i, addr |-> a, sample |-> s]

\* Where samples start.
MCSamples(n) == {s \in [1 .. n -> 1 .. 3] :
                   s[1] = 1 /\ \A k \in 1 .. n - 1 : s[k + 1] - s[k] \in {0, 1}}

\* Six accesses of three instructions, each to an address of its own.
MCCounted ==
  {[k \in 1 .. 6 |-> MCLine(i[k], 2 * i[k], s[k])] :
     i \in [1 .. 6 -> MCInsns], s \in MCSamples(6)}

\* Two instructions, each with two accesses, perhaps to the stack
\* or at the end of the heap.
MCRanges ==
  {<<MCLine(1, a, 1), MCLine(2, c, 1), MCLine(1, b, 1), MCLine(2, d, 1)>> :
     a, b, c, d \in {2, 4, 5, 7, 12, 199, 210}}

\* One instruction all over 33 pages.
MCWide ==
  {[k \in 1 .. Cardinality(s) |-> MCLine(1, CHOOSE a \in s : Cardinality({c \in s : c < a}) = k - 1, 1)] :
     s \in {t \cup {1} : t \in {u \in SUBSET {5, 9, 13, 17, 25, 33, 61, 69, 129, 132} :
                                 u # {}}}}

MCTraces == MCCounted \cup MCRanges \cup MCWide

MCRegion(a, b) == [min |-> a, max |-> b, strID |-> <<a>>]
MCZoomRegions  == {<< >>, <<MCRegion(4, 5)>>, <<MCRegion(9, 10)>>, <<MCRegion(2, 7)>>,
                   <<MCRegion(9, 10), MCRegion(2, 3)>>,
                   <<MCRegion(9, 10), [MCRegion(9, 10) EXCEPT !.strID = <<1>>]>>}
=============================================================================
