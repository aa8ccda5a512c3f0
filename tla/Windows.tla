------------------------------- MODULE Windows -------------------------------
(***************************************************************************)
(* The windows of mem-anlys: class Window (Window.cpp) and buildTree of    *)
(* main.cpp, as operators on a heap of windows.                            *)
(*                                                                         *)
(* A heap is a sequence of windows; a pointer is an index, NULL is 0.      *)
(* fpMap is kept as two counts per address: load, the accesses (their type *)
(* is never set, so all have the same one), and const, what fpMap has      *)
(* under CONSTANT.  fpMetrics keeps FP and WINDOW_SIZE, none if empty.     *)
(* Times and multipliers are left out.                                     *)
(***************************************************************************)
EXTENDS Integers, Sequences, FiniteSets, SequencesExt

CONSTANT Addrs  \* the addresses loads access

NULL == 0
NoMetrics == [fp |-> -1, size |-> -1]
NoCounts  == [load |-> [a \in Addrs |-> 0], const |-> [a \in Addrs |-> 0]]

\* What a sequence of accesses adds to the counts of fpMap.
LoadCounts(trace) ==
  [a \in Addrs |-> Cardinality({i \in DOMAIN trace : trace[i].addr = a})]

ExtraOf(trace) == SumFunction([i \in DOMAIN trace |-> trace[i].extra])

Plus(f, g) == [a \in Addrs |-> f[a] + g[a]]

\* new Window(), setID and addAccess with the first access of the window.
\* leaf is history: the accesses the window was given one by one.
NewWindow(access) ==
  [first |-> access.at, lvl |-> 0,
   trace |-> <<access>>, leaf |-> <<access>>,
   fpMap |-> [load  |-> [NoCounts.load EXCEPT ![access.addr] = 1],
              const |-> [NoCounts.const EXCEPT ![access.addr] = access.extra]],
   metrics |-> NoMetrics, constantLds |-> 0, sampleHead |-> FALSE,
   left |-> NULL, right |-> NULL, parent |-> NULL]

AddAccess(w, access) ==
  [w EXCEPT !.trace = Append(@, access),
            !.leaf = Append(@, access),
            !.fpMap.load[access.addr] = @ + 1,
            !.fpMap.const[access.addr] = @ + access.extra]

\* calcConstantLds, which adds to what it computed before.
CalcConstantLds(w) == [w EXCEPT !.constantLds = @ + ExtraOf(w.trace)]

\* getSize computes the constant loads the first time.
Sized(w)   == IF w.constantLds = 0 THEN CalcConstantLds(w) ELSE w
SizeOf(w)  == Len(w.trace) + Sized(w).constantLds
FPOf(w)    == Cardinality({a \in Addrs : w.fpMap.load[a] > 0})

CalcFPMetrics(w) ==
  [Sized(w) EXCEPT !.metrics = [fp |-> FPOf(w), size |-> SizeOf(w)]]

\* Slip: every child gives up its accesses.
AdoptedAny(w) ==
  [CalcFPMetrics(w) EXCEPT !.trace = << >>, !.fpMap = NoCounts]

\* Slip: the metrics are computed from what is left.
AdoptedLate(w) ==
  IF w.sampleHead THEN w
  ELSE CalcFPMetrics([w EXCEPT !.trace = << >>, !.fpMap = NoCounts])

\* A child once its parent has its accesses: only the root of a sample keeps
\* them.
Adopted(w) ==
  IF w.sampleHead THEN w
  ELSE [CalcFPMetrics(w) EXCEPT !.trace = << >>, !.fpMap = NoCounts]

\* addLeftChild on a new window: addWindow finds an empty fpMap and counts
\* the accesses of the child anew, without their constant loads.
WithLeft(lvl, l, left) ==
  [first |-> left.first, lvl |-> lvl, trace |-> left.trace, leaf |-> << >>,
   fpMap |-> [load |-> LoadCounts(left.trace), const |-> NoCounts.const],
   metrics |-> NoMetrics, constantLds |-> 0, sampleHead |-> FALSE,
   left |-> l, right |-> NULL, parent |-> NULL]

\* addRightChild: addWindow merges the fpMap of the child.
AddRight(w, r, right) ==
  [w EXCEPT !.right = r, !.trace = @ \o right.trace,
            !.fpMap.load = Plus(@, right.fpMap.load),
            !.fpMap.const = Plus(@, right.fpMap.const)]

MaxLvl(v, w) == IF v.lvl < w.lvl THEN w.lvl ELSE v.lvl

\* The window over a pair, and the one over an odd window at the end of a row.
Pair(heap, l, r) ==
  AddRight(WithLeft(MaxLvl(heap[l], heap[r]) + 1, l, heap[l]), r, heap[r])

Single(heap, l) == WithLeft(heap[l].lvl + 1, l, heap[l])

\* Slip: the odd window at the end of a row is forgotten.
WidthFloor(row) == Len(row) \div 2

Width(row) == (Len(row) + 1) \div 2

\* The parent of window i once its row has parents.  setParent is called on
\* the windows of a pair, not on an odd one.
ParentIn(heap, row, i) ==
  LET j == CHOOSE k \in DOMAIN row : row[k] = i
  IN IF j = Len(row) /\ j % 2 = 1 THEN heap[i].parent
                                  ELSE Len(heap) + (j + 1) \div 2

\* One call of buildTree: the windows of a row, two by two, get a parent.
BuildRow(heap, row) ==
  [heap |->
     [i \in DOMAIN heap |->
        IF i \in ToSet(row)
        THEN [Adopted(heap[i]) EXCEPT !.parent = ParentIn(heap, row, i)]
        ELSE heap[i]]
     \o [j \in 1 .. Width(row) |->
           IF 2 * j <= Len(row) THEN Pair(heap, row[2 * j - 1], row[2 * j])
                                ELSE Single(heap, row[2 * j - 1])],
   row |-> [j \in 1 .. Width(row) |-> Len(heap) + j]]

\* buildTree calls itself on the parents until one is left: at most once per
\* window, since a row of n > 1 windows has (n + 1) \div 2 parents.
BuildTree(heap, row) ==
  LET call[n \in 0 .. Len(row)] ==
        IF n = 0 THEN [heap |-> heap, row |-> row]
        ELSE IF Len(call[n - 1].row) <= 1 THEN call[n - 1]
        ELSE BuildRow(call[n - 1].heap, call[n - 1].row)
  IN [heap |-> call[Len(row)].heap, root |-> call[Len(row)].row[1]]
=============================================================================
