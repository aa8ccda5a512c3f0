---------------------------- MODULE SampleWindows ----------------------------
(***************************************************************************)
(* The footprint analysis of mem-anlys/main.cpp: the loop that cuts a      *)
(* trace into windows of min_window_size + 1 accesses within each sample,  *)
(* the tree over the windows of a sample, the tree over the samples        *)
(* (forest), and the walk over the whole tree that adds every window to    *)
(* the report (printTree).                                                 *)
(*                                                                         *)
(* One action per access of the trace, by what becomes of the window, and  *)
(* one per window printed; the call stack of printTree is explicit.        *)
(***************************************************************************)
EXTENDS Windows

CONSTANTS
  Extras,         \* extra frame loads of an access
  SampleIDs,      \* sample ids
  MinWindowSize,  \* min_window_size, 7 in the code
  MinLevel,       \* the first row of the report, 3 in the code
  MaxAccesses,    \* bound on the accesses of a trace
  Plain,          \* an address; bound: only traces of plain accesses, those
  MaxVaried       \* to it without extra loads, are longer than MaxVaried

ASSUME ParametersAssumption ==
  /\ Extras \subseteq Nat
  /\ SampleIDs \subseteq Nat
  /\ MinWindowSize \in Nat
  /\ MinLevel \in Nat
  /\ MaxAccesses \in Nat
  /\ MaxVaried \in Nat

VARIABLES
  phase,           \* "reading", "forest", "printing", "done" or "crashed"
  input,           \* the accesses so far; its length is l_time
  nodes,           \* the heap of windows
  windows,         \* the windows of the sample completed so far
  window,          \* the window being filled, NULL before the first access
  inSampleWSize,   \* in_sample_w_size
  forest,          \* the roots of the trees of the samples
  currentWS,       \* current_ws
  windowSize,      \* window_size, what current_ws added up to
  wSize,           \* wSize, what current_ws was at each new sample
  loadsInWindow,   \* total_loads_in_window
  wLoads,          \* what total_loads_in_window was (wMultipliers)
  totalLoads,      \* total_loads_in_trace
  root,            \* fullT
  calls,           \* the calls of printTree still to be made
  report           \* treeFPavgMap2

windowVars == <<nodes, windows, window, inSampleWSize, forest>>
countVars  == <<currentWS, windowSize, wSize, loadsInWindow, wLoads,
                totalLoads>>
printVars  == <<root, calls, report>>
vars       == <<phase, input, windowVars, countVars, printVars>>

Access == [at : 1 .. MaxAccesses, addr : Addrs, extra : Extras,
           sample : SampleIDs]

Init ==
  /\ phase = "reading"
  /\ input = << >>
  /\ nodes = << >>
  /\ windows = << >>
  /\ window = NULL
  /\ inSampleWSize = 0
  /\ forest = << >>
  /\ currentWS = 0
  /\ windowSize = 0
  /\ wSize = << >>
  /\ loadsInWindow = 0
  /\ wLoads = << >>
  /\ totalLoads = 0
  /\ root = NULL
  /\ calls = << >>
  /\ report = [lvl \in {} |-> 0]

-----------------------------------------------------------------------------
(* The loop over the trace.                                                *)

IsPlain(access) == access.addr = Plain /\ access.extra = 0

\* The trace of TraceReader: sample ids never go back.
IsAccess(access) ==
  /\ phase = "reading"
  /\ access.at = Len(input) + 1
  /\ Len(input) >= MaxVaried =>
       IsPlain(access) /\ \A i \in DOMAIN input : IsPlain(input[i])
  /\ input # << >> => Last(input).sample <= access.sample
  /\ input' = Append(input, access)
  /\ totalLoads' = totalLoads + 1 + access.extra
  /\ UNCHANGED <<phase, printVars>>

\* prevSampleID is that of the first access before the loop.
NewSample(access) == input # << >> /\ Last(input).sample # access.sample

SameSample(access) ==
  /\ ~NewSample(access)
  /\ IsAccess(access)
  /\ currentWS' = currentWS + 1
  /\ loadsInWindow' = loadsInWindow + 1 + access.extra
  /\ UNCHANGED <<windowSize, wSize, wLoads>>

FirstWindow(access) ==
  /\ window = NULL
  /\ SameSample(access)
  /\ nodes' = Append(nodes, NewWindow(access))
  /\ window' = Len(nodes) + 1
  /\ UNCHANGED <<windows, inSampleWSize, forest>>

IsFull == inSampleWSize = MinWindowSize

ExtendWindow(access) ==
  /\ window # NULL
  /\ ~IsFull
  /\ SameSample(access)
  /\ nodes' = [nodes EXCEPT ![window] = AddAccess(@, access)]
  /\ inSampleWSize' = inSampleWSize + 1
  /\ UNCHANGED <<windows, window, forest>>

NextWindow(access) ==
  /\ window # NULL
  /\ IsFull
  /\ SameSample(access)
  /\ windows' = Append(windows, window)
  /\ nodes' = Append(nodes, NewWindow(access))
  /\ window' = Len(nodes) + 1
  /\ inSampleWSize' = 0
  /\ UNCHANGED forest

SameID(i, j) == nodes[i].first = nodes[j].first /\ nodes[i].lvl = nodes[j].lvl

\* The windows of the sample, with the last one unless its id says that it
\* was added already.
Completed ==
  IF windows # << >> /\ SameID(Last(windows), window)
  THEN windows ELSE Append(windows, window)

\* Slip: in_sample_w_size counts on in the next sample.
ResetSizeNever == UNCHANGED inSampleWSize

ResetSize == inSampleWSize' = 0

\* The tree of the sample, its root marked.
SampleTree ==
  LET tree == BuildTree(nodes, Completed)
  IN [tree EXCEPT !.heap[tree.root].sampleHead = TRUE]

\* Slip: the access that starts a sample is counted in none.
CountedBefore == currentWS

\* The new access was counted in current_ws before it was seen to start a
\* sample, and then current_ws starts from 0.
Counted == currentWS + 1

CloseSample(access) ==
  /\ NewSample(access)
  /\ IsAccess(access)
  /\ windowSize' = windowSize + Counted
  /\ wSize' = Append(wSize, Counted)
  /\ wLoads' = Append(wLoads, loadsInWindow + 1 + access.extra)
  /\ currentWS' = 0
  /\ loadsInWindow' = 0
  /\ forest' = Append(forest, SampleTree.root)
  /\ nodes' = Append(SampleTree.heap, NewWindow(access))
  /\ windows' = << >>
  /\ window' = Len(nodes')
  /\ ResetSize

\* The code after the loop.
EndOfTrace ==
  /\ phase = "reading"
  /\ window # NULL
  /\ phase' = "forest"
  /\ forest' = Append(forest, SampleTree.root)
  /\ nodes' = SampleTree.heap
  /\ windows' = << >>
  /\ window' = NULL
  /\ UNCHANGED <<input, inSampleWSize, countVars, printVars>>

\* The loop starts by reading the first access, which is not there.
EmptyTrace ==
  /\ phase = "reading"
  /\ input = << >>
  /\ phase' = "crashed"
  /\ UNCHANGED <<input, windowVars, countVars, printVars>>

-----------------------------------------------------------------------------
(* The tree over the samples and its report.                               *)

BuildForest ==
  /\ phase = "forest"
  /\ phase' = "printing"
  /\ LET tree == BuildTree(nodes, forest)
     IN /\ nodes' = tree.heap
        /\ root' = tree.root
        /\ calls' = <<[node |-> tree.root, lvl |-> 0, inSample |-> FALSE]>>
  /\ UNCHANGED <<input, windows, window, inSampleWSize, forest, countVars,
                 report>>

\* getFPDiag, then calcConstantLds (once more), then getSize.
Measured(w) ==
  Sized(CalcConstantLds(IF w.metrics = NoMetrics THEN CalcFPMetrics(w) ELSE w))

\* The row of a size: its logarithm rounded up.  A size of 0 falls in the
\* first row (log2(0) converted to int is a negative number).
LevelOf(size) ==
  CHOOSE k \in MinLevel .. MinLevel + size :
    /\ size <= 2 ^ k
    /\ k = MinLevel \/ 2 ^ (k - 1) < size

Row(lvl) == IF lvl \in DOMAIN report THEN report[lvl]
            ELSE [nodes |-> 0, fp |-> 0, const |-> 0, size |-> 0,
                  inSample |-> FALSE]

\* Slip: printTree returns at a window without a right child.
ChildrenPairs(w) == IF w.right = NULL THEN << >> ELSE <<w.left, w.right>>

Children(w) ==
  (IF w.left = NULL THEN << >> ELSE <<w.left>>)
  \o (IF w.right = NULL THEN << >> ELSE <<w.right>>)

\* One call of printTree: the window goes to its row of the report, its id
\* gets the depth it has in the tree, and its children are next.
PrintNode ==
  /\ phase = "printing"
  /\ calls # << >>
  /\ LET call == Head(calls)
         w    == Measured(nodes[call.node])
         lvl  == LevelOf(SizeOf(w))
         kids == Children(w)
     IN /\ nodes' = [nodes EXCEPT ![call.node] = [w EXCEPT !.lvl = call.lvl]]
        /\ report' = [l \in DOMAIN report \cup {lvl} |->
             IF l # lvl THEN report[l]
             ELSE [nodes    |-> Row(l).nodes + 1,
                   fp       |-> Row(l).fp + w.metrics.fp,
                   const    |-> Row(l).const + w.constantLds,
                   size     |-> Row(l).size + SizeOf(w),
                   inSample |-> call.inSample]]
        /\ calls' =
             [k \in DOMAIN kids |->
                [node |-> kids[k], lvl |-> call.lvl + 1,
                 inSample |-> call.inSample \/ w.sampleHead]] \o Tail(calls)
  /\ UNCHANGED <<phase, input, windows, window, inSampleWSize, forest,
                 countVars, root>>

Printed ==
  /\ phase = "printing"
  /\ calls = << >>
  /\ phase' = "done"
  /\ UNCHANGED <<input, windowVars, countVars, printVars>>

Next ==
  \/ \E access \in Access :
       \/ FirstWindow(access)
       \/ ExtendWindow(access)
       \/ NextWindow(access)
       \/ CloseSample(access)
  \/ EndOfTrace
  \/ EmptyTrace
  \/ BuildForest
  \/ PrintNode
  \/ Printed

Spec == Init /\ [][Next]_vars
-----------------------------------------------------------------------------
(* Properties.                                                             *)

Window ==
  [first : 1 .. MaxAccesses, lvl : 0 .. 2 * MaxAccesses,
   trace : Seq(Access), leaf : Seq(Access),
   fpMap : [load : [Addrs -> Nat], const : [Addrs -> Nat]],
   metrics : [fp : Nat, size : Nat] \cup {NoMetrics},
   constantLds : Nat, sampleHead : BOOLEAN,
   left : DOMAIN nodes \cup {NULL}, right : DOMAIN nodes \cup {NULL},
   parent : DOMAIN nodes \cup {NULL}]

\* The state is well formed: every pointer is NULL or a window (main.cpp and
\* Window.cpp).
TypeOK ==
  /\ phase \in {"reading", "forest", "printing", "done", "crashed"}
  /\ input \in Seq(Access)
  /\ nodes \in Seq(Window)
  /\ windows \in Seq(DOMAIN nodes)
  /\ window \in DOMAIN nodes \cup {NULL}
  /\ inSampleWSize \in 0 .. MinWindowSize
  /\ forest \in Seq(DOMAIN nodes)
  /\ currentWS \in Nat /\ windowSize \in Nat /\ wSize \in Seq(Nat)
  /\ loadsInWindow \in Nat /\ totalLoads \in Nat /\ wLoads \in Seq(Nat)
  /\ root \in DOMAIN nodes \cup {NULL}
  /\ calls \in Seq([node : DOMAIN nodes, lvl : Nat, inSample : BOOLEAN])
  /\ \A l \in DOMAIN report :
       /\ l \in Nat
       /\ report[l] \in [nodes : Nat, fp : Nat, const : Nat, size : Nat,
                         inSample : BOOLEAN]

\* The accesses of the leaves under each window, from left to right.
UnderIn(heap) ==
  LET under[i \in DOMAIN heap] ==
        IF heap[i].left = NULL THEN heap[i].leaf
        ELSE under[heap[i].left]
             \o (IF heap[i].right = NULL THEN << >> ELSE under[heap[i].right])
  IN under

Under == UnderIn(nodes)

Positions(accesses) == [k \in DOMAIN accesses |-> accesses[k].at]
PositionsUnder(row) ==
  FlattenSeq([k \in DOMAIN row |-> Positions(Under[row[k]])])

\* The loop does what Samples promises: the trees of the forest are the
\* samples, with every access once and in order, and the last sample is not
\* lost (main.cpp:841-1052).
SamplesInstance == INSTANCE Samples WITH
  IDs      <- SampleIDs,
  MaxTrace <- MaxAccesses,
  ids      <- [i \in DOMAIN input |-> input[i].sample],
  complete <- [k \in DOMAIN forest |-> Positions(Under[forest[k]])],
  current  <- IF window = NULL THEN << >>
              ELSE PositionsUnder(Append(windows, window)),
  open     <- phase \in {"reading", "crashed"}
SamplesSpec == SamplesInstance!TraceSpec

Leaves    == {i \in DOMAIN nodes : nodes[i].left = NULL}
EndOf(i)  == nodes[i].first + Len(nodes[i].leaf) - 1

\* A leaf holds min_window_size + 1 accesses of one sample, fewer only when
\* the sample or the trace ends there, so that the windows of a sample start
\* over at its first access (main.cpp:949-990).
LeafSizes ==
  \A i \in Leaves :
    /\ Len(nodes[i].leaf) <= MinWindowSize + 1
    /\ Len(nodes[i].leaf) < MinWindowSize + 1 =>
         \/ EndOf(i) = Len(input)
         \/ input[EndOf(i)].sample # input[EndOf(i) + 1].sample

\* A window's id, the position of its first access and its level, names it:
\* no other window has the same, neither while the trees are built (where a
\* clash would drop a window, main.cpp:918-937) nor once printTree has
\* replaced the levels by depths.
UniqueIDs ==
  phase # "printing" =>
    /\ \A i \in DOMAIN nodes : nodes[i].first = Under[i][1].at
    /\ \A i, j \in DOMAIN nodes : SameID(i, j) => i = j

IsChild(i) == \E j \in DOMAIN nodes : i \in {nodes[j].left, nodes[j].right}

\* Only the roots of samples and windows without a parent keep their accesses,
\* all those under them and in order: the accesses of any other window can be
\* found in the sample it is in (Window.cpp:252-278).
TraceAtSampleRoots ==
  \A i \in DOMAIN nodes :
    nodes[i].trace = IF nodes[i].sampleHead \/ ~IsChild(i) THEN Under[i]
                                                          ELSE << >>

AddrsOf(accesses) == {accesses[k].addr : k \in DOMAIN accesses}

\* The metrics kept of a window are the footprint and the loads of all the
\* accesses under it, although they are computed from maps and traces that
\* move up the tree and are then emptied (Window.cpp:82-166, 196-212).
MetricsOfWindow ==
  \A i \in DOMAIN nodes :
    nodes[i].metrics # NoMetrics =>
      /\ nodes[i].metrics.fp = Cardinality(AddrsOf(Under[i]))
      /\ nodes[i].metrics.size = Len(Under[i]) + ExtraOf(Under[i])

LeavesUnder(i) ==
  {j \in Leaves : \E k \in DOMAIN Under[i] : Under[i][k].at = nodes[j].first}

\* The trees are balanced: a window at level l has more than 2^(l-1) leaves
\* and at most 2^l of its sample, or of the samples' trees (main.cpp:224-303).
Balanced ==
  phase = "reading" =>
    \A k \in DOMAIN forest :
      LET l == nodes[forest[k]].lvl
          n == Cardinality(LeavesUnder(forest[k]))
      IN n <= 2 ^ l /\ (l > 0 => 2 ^ (l - 1) < n)

\* The windows are cut and the trees built right: windows have their size, can
\* be told apart, and are no deeper than needed.
WellBuilt == TypeOK /\ LeafSizes /\ UniqueIDs /\ Balanced

SumOf(s) == SumFunction(s)

\* The sizes of windows that the multipliers are computed from add up to the
\* trace: what one sample counts too much, the next one counts too little
\* (main.cpp:843-848, 891-915).
CountsTelescope ==
  /\ windowSize + currentWS = Len(input)
  /\ windowSize = SumOf(wSize)
  /\ totalLoads = Len(input) + ExtraOf(input)
  /\ SumOf(wLoads) + loadsInWindow = totalLoads

\* The report has every window of the run exactly once, with its footprint,
\* whatever tree they form (main.cpp:148-221).
ReportComplete ==
  phase = "done" =>
    /\ SumOf([l \in DOMAIN report |-> report[l].nodes]) = Len(nodes)
    /\ SumOf([l \in DOMAIN report |-> report[l].fp]) =
         SumOf([i \in DOMAIN nodes |-> Cardinality(AddrsOf(Under[i]))])
=============================================================================
