----------------------------- MODULE LoopNesting -----------------------------
(***************************************************************************)
(* The loops of a routine: TarjanIntervals of bin-anlys/src/tarjans finds  *)
(* them in the control flow graph, PrivateCFG marks the edges that go      *)
(* back, leave and enter loops, and makes the tree of scopes.  Loops with  *)
(* several entries are handled (Havlak's extension), so the nesting can    *)
(* depend on the order the depth-first search meets the nodes in.          *)
(*                                                                         *)
(* As in the code, the algorithm works on depth-first numbers: the arrays  *)
(* are indexed by the number of a node, a loop is told by its header.      *)
(* cfg_exit is left out: no edge leaves it, and as the end of an edge it   *)
(* is like a block without outgoing edges.                                 *)
(***************************************************************************)
EXTENDS UnionFind, Sequences, SequencesExt, Graphs

CONSTANTS
  Blocks,      \* the code blocks of a routine
  Entry,       \* cfg_entry
  FirstBlock,  \* the block at the start of the routine
  CFGs         \* the sets of edges looked at

Nodes == Blocks \cup {Entry}

ASSUME NestingAssumption ==
  /\ Entry \notin Blocks
  /\ FirstBlock \in Blocks
  /\ CFGs \subseteq SUBSET (Blocks \X Blocks)

VARIABLES
  phase,         \* the step Create, or its caller, is at
  edges,
  stack,         \* the calls of DFS
  DFS_n,         \* the next number
  dfnum,         \* the numbers of nodes
  vertex,        \* the nodes of numbers
  TLast,         \* the last descendant
  rev_top_list,  \* the nodes in the order their calls end
  backPreds, nonBackPreds,
  w,             \* the vertex GetTarjans is at
  scanning,      \* inside of its worklist loop
  P, Q,          \* reachunder and worklist
  header, isCyclic, reducible,
  uf,            \* the union-find universe
  outer, type, level,  \* the tree: containing interval, type, nesting depth
  inners,        \* the nested intervals, in order
  order,         \* the tree in preorder
  prenum, last,  \* place in that order, last descendant
  loopIndex,
  next,          \* the place in order mark_loop_back_edges is at
  numExits, numEntries,
  backEdges,     \* the edges setLoopBackEdge was called for
  exited,        \* for edges that leave loops: how many, and the outermost
  entered,       \* the same for those that enter loops
  entryEdges,    \* for each loop the edges that enter it
  loopTree       \* for each loop index that of the loop around

dfsVars  == <<stack, DFS_n, dfnum, vertex, TLast, rev_top_list>>
nestVars == <<w, scanning, P, Q, header, isCyclic, reducible, uf>>
treeVars == <<outer, type, level, inners, order, prenum, last, loopIndex>>
markVars == <<next, numExits, numEntries, backEdges, exited, entered,
              entryEdges, loopTree>>
predVars == <<backPreds, nonBackPreds>>
vars     == <<phase, edges, dfsVars, predVars, nestVars, treeVars, markVars>>

\* DFNUM_ROOT, and DFNUM_NIL, which is greater than all numbers.
ROOT == 0
NIL  == Cardinality(Nodes)

Numbers == 0 .. Cardinality(Nodes) - 1
Reached == 0 .. DFS_n - 1

Init ==
  /\ phase = "tops"
  /\ edges \in CFGs
  /\ stack = << >>
  /\ DFS_n = 0
  /\ dfnum = [v \in Nodes |-> NIL]
  /\ vertex = << >>
  /\ TLast = [d \in Numbers |-> NIL]
  /\ rev_top_list = << >>
  /\ backPreds = [d \in Numbers |-> {}]
  /\ nonBackPreds = [d \in Numbers |-> {}]
  /\ w = ROOT
  /\ scanning = FALSE
  /\ P = {} /\ Q = {}
  /\ header = [d \in Numbers |-> ROOT]
  /\ isCyclic = [d \in Numbers |-> FALSE]
  /\ reducible = [d \in Numbers |-> TRUE]
  /\ uf = Universe(Numbers)
  /\ outer = [d \in Numbers |-> NIL]
  /\ type = [d \in Numbers |-> "nothing"]
  /\ level = [d \in Numbers |-> 0]
  /\ inners = [d \in Numbers |-> << >>]
  /\ order = << >>
  /\ prenum = [d \in Numbers |-> -1]
  /\ last = [d \in Numbers |-> NIL]
  /\ loopIndex = [d \in Numbers |-> -1]
  /\ next = 2
  /\ numExits = << >> /\ numEntries = << >>
  /\ backEdges = {}
  /\ exited = << >> /\ entered = << >>
  /\ entryEdges = {}
  /\ loopTree = << >>

-----------------------------------------------------------------------------
(* PrivateCFG::computeTopNodes.                                            *)

\* The entry goes to the blocks without incoming edges, or to the first block:
\* discover_CFG adds no edges of the entry itself.  It also finds blocks as the
\* targets of calls, which is no edge, and no edge is marked as a back edge yet:
\* a cycle nothing leads to is not reached if there are other blocks to go to.
NoIncoming == {b \in Blocks : ~\E a \in Blocks : <<a, b>> \in edges}

computeTopNodes ==
  /\ phase = "tops"
  /\ phase' = "dfs"
  /\ edges' = edges \cup
       ({Entry} \X IF NoIncoming = {} THEN {FirstBlock} ELSE NoIncoming)
  /\ UNCHANGED <<dfsVars, predVars, nestVars, treeVars, markVars>>

-----------------------------------------------------------------------------
(* DFS and FillPredLists.                                                  *)

Enter(v) ==
  /\ stack' = Append(stack, v)
  /\ dfnum' = [dfnum EXCEPT ![v] = DFS_n]
  /\ vertex' = Append(vertex, v)
  /\ DFS_n' = DFS_n + 1
  /\ UNCHANGED <<phase, edges, TLast, rev_top_list, predVars, nestVars,
                 treeVars, markVars>>

DFSRoot ==
  /\ phase = "dfs"
  /\ DFS_n = ROOT
  /\ Enter(Entry)

Unvisited(v) == {son \in Nodes : <<v, son>> \in edges /\ dfnum[son] = NIL}

\* The edges are sorted by their types and ids: in any order here.
DFSSon ==
  /\ phase = "dfs"
  /\ stack # << >>
  /\ \E son \in Unvisited(Last(stack)) : Enter(son)

DFSReturn ==
  /\ phase = "dfs"
  /\ stack # << >>
  /\ Unvisited(Last(stack)) = {}
  /\ TLast' = [TLast EXCEPT ![dfnum[Last(stack)]] = DFS_n - 1]
  /\ rev_top_list' = Append(rev_top_list, Last(stack))
  /\ stack' = Front(stack)
  /\ phase' = IF Len(stack) = 1 THEN "preds" ELSE "dfs"
  /\ UNCHANGED <<edges, DFS_n, dfnum, vertex, predVars, nestVars, treeVars,
                 markVars>>

\* a is a descendant of b in the tree of the search; NIL is none.
is_wk_backedge(a, b) == b <= a /\ a <= TLast[b]

\* vertex(d): a sequence starts with one.
Vertex(d) == vertex[d + 1]

PredsOf(d) == {dfnum[v] : v \in {u \in Nodes : <<u, Vertex(d)>> \in edges}}

FillPredLists ==
  /\ phase = "preds"
  /\ backPreds' = [d \in Numbers |-> IF d \notin Reached THEN {}
                     ELSE {p \in PredsOf(d) : is_wk_backedge(p, d)}]
  /\ nonBackPreds' = [d \in Numbers |-> IF d \notin Reached THEN {}
                        ELSE {p \in PredsOf(d) : ~is_wk_backedge(p, d)}]
  /\ w' = DFS_n - 1
  /\ phase' = "nest"
  /\ UNCHANGED <<edges, dfsVars, scanning, P, Q, header, isCyclic, reducible,
                 uf, treeVars, markVars>>

-----------------------------------------------------------------------------
(* GetTarjans.                                                             *)

\* The sources of cycle arcs, but for w itself, are the first of P and Q.
StartVertex ==
  /\ phase = "nest"
  /\ w # ROOT
  /\ ~scanning
  /\ scanning' = TRUE
  /\ LET sources == backPreds[w] \ {NIL, w}
     IN  /\ P' = {Find(uf, v) : v \in sources}
         /\ uf' = Compressed(uf, sources)
  /\ Q' = P'
  /\ isCyclic' = [isCyclic EXCEPT ![w] = w \in backPreds[w] \/ P' # {}]
  /\ UNCHANGED <<phase, edges, dfsVars, predVars, w, header, reducible,
                 treeVars, markVars>>

\* Slip: the published algorithm as the old comment has it, without the line
\* that hands entries on to the loops around.
NotHandedOn(x, outside) == nonBackPreds

\* Entries into a loop that do not come from its header's descendants are kept
\* as predecessors of the header, for the loops around.
HandedOn(x, outside) == [nonBackPreds EXCEPT ![w] = @ \cup outside]

ScanPreds ==
  /\ phase = "nest"
  /\ scanning
  /\ \E x \in Q :
       LET preds   == nonBackPreds[x] \ {NIL}
           found   == {Find(uf, y) : y \in preds}
           inside  == {yy \in found : is_wk_backedge(yy, w)}
           outside == found \ inside
           new     == inside \ (P \cup {w})
       IN  /\ P' = P \cup new
           /\ Q' = (Q \ {x}) \cup new
           /\ uf' = Compressed(uf, preds)
           /\ reducible' = [reducible EXCEPT ![w] = @ /\ outside = {}]
           /\ nonBackPreds' = HandedOn(x, outside)
  /\ UNCHANGED <<phase, edges, dfsVars, backPreds, w, scanning, header, isCyclic,
                 treeVars, markVars>>

\* P is the loop of w: its members, inner loops by their headers, get w as
\* their header and are one set with the name w from here on.
EndVertex ==
  /\ phase = "nest"
  /\ scanning
  /\ Q = {}
  /\ header' = [d \in Numbers |->
       IF d \in P /\ header[d] = ROOT /\ d # w THEN w ELSE header[d]]
  /\ uf' = UnionAll(uf, P, w)
  /\ P' = {}
  /\ scanning' = FALSE
  /\ w' = w - 1
  /\ UNCHANGED <<phase, edges, dfsVars, predVars, Q, isCyclic, reducible,
                 treeVars, markVars>>

-----------------------------------------------------------------------------
(* Build, Sort, ComputeIntervalIndex.                                      *)

Levels ==
  LET lev[d \in Reached] ==
        IF d = ROOT THEN 0
        ELSE lev[header[d]] + IF isCyclic[d] THEN 1 ELSE 0
  IN  lev

Build ==
  /\ phase = "nest"
  /\ w = ROOT
  /\ phase' = "sort"
  /\ outer' = [d \in Numbers |-> IF d \in Reached \ {ROOT} THEN header[d] ELSE NIL]
  /\ type' = [d \in Numbers |->
       IF d \notin Reached \ {ROOT} THEN "nothing"
       ELSE IF ~isCyclic[d] THEN "acyclic"
       ELSE IF reducible[d] THEN "interval" ELSE "irreducible"]
  /\ level' = [d \in Numbers |-> IF d \in Reached THEN Levels[d] ELSE 0]
  /\ UNCHANGED <<edges, dfsVars, predVars, nestVars, inners, order, prenum, last,
                 loopIndex, markVars>>

\* Slip: the order of the search itself.
FromList(list) == list

\* Each node is put in front of those already there.
Prepended(list) == Reverse(list)

Sorted(d) ==
  Prepended(SelectSeq([i \in DOMAIN rev_top_list |-> dfnum[rev_top_list[i]]],
                      LAMBDA kid : outer[kid] = d))

\* Prenumber: the tree below each node, itself first.
Preorder(kids) ==
  LET pre[d \in Reached] ==
        <<d>> \o FlattenSeq([i \in DOMAIN kids[d] |-> pre[kids[d][i]]])
  IN  pre[ROOT]

Place(d, seq) == CHOOSE i \in DOMAIN seq : seq[i] = d

LastBelow(d, kids) ==
  LET down[c \in Reached] == IF kids[c] = << >> THEN c ELSE down[Last(kids[c])]
  IN  down[d]

Sort ==
  /\ phase = "sort"
  /\ phase' = "index"
  /\ inners' = [d \in Numbers |-> Sorted(d)]
  /\ order' = Preorder(inners')
  /\ prenum' = [d \in Numbers |-> IF d \in Reached THEN Place(d, order') ELSE -1]
  /\ last' = [d \in Numbers |-> IF d \in Reached THEN LastBelow(d, inners') ELSE NIL]
  /\ UNCHANGED <<edges, dfsVars, predVars, nestVars, outer, type, level,
                 loopIndex, markVars>>

NodeIsLoopHeader(d) == type[d] \in {"interval", "irreducible"}

\* A number for the root and each loop, in the order of the tree; the other
\* nodes have that of their loop.
ComputeIntervalIndex ==
  /\ phase = "index"
  /\ phase' = "mark"
  /\ LET Loop(d)   == IF d = ROOT \/ NodeIsLoopHeader(d) THEN d ELSE outer[d]
         Number(d) == Cardinality({i \in 1 .. prenum[d] : Loop(order[i]) = order[i]})
     IN  loopIndex' = [d \in Numbers |-> IF d \in Reached THEN Number(Loop(d)) ELSE -1]
  /\ UNCHANGED <<edges, dfsVars, predVars, nestVars, outer, type, level, inners,
                 order, prenum, last, markVars>>

-----------------------------------------------------------------------------
(* The queries.                                                            *)

TARJ_contains(a, b) == prenum[a] <= prenum[b] /\ prenum[b] <= prenum[last[a]]

LCA(a, b) ==
  LET up[d \in Reached] == IF TARJ_contains(d, a) THEN d ELSE up[outer[d]]
  IN  IF TARJ_contains(a, b) THEN a ELSE up[b]

\* tarj_entries_exits.
Exits(src, sink)   == Max({0, level[src] - level[LCA(src, sink)]})
Entries(src, sink) == Max({0, level[sink] - level[LCA(src, sink)]})

\* The loops around a node, the innermost first, up to the k-th.
LoopsUp(d, k) ==
  LET up[n \in 1 .. k] ==
        IF n = 1 THEN IF NodeIsLoopHeader(d) THEN d ELSE outer[d]
        ELSE outer[up[n - 1]]
  IN  up

\* tarj_loop_exited and tarj_loop_entered: what their assertions say of the way
\* up, and the loop they return.
AssertUp(d, k) ==
  /\ NodeIsLoopHeader(d) \/ inners[d] = << >>
  /\ \A n \in 1 .. k : NodeIsLoopHeader(LoopsUp(d, k)[n])

\* Slip: the innermost loop, whose header the way up starts at.
InnermostOf(d, k) == LoopsUp(d, k)[1]

Outermost(d, k) == LoopsUp(d, k)[k]

\* find_entry_exit_edges_for_interval, from the root: each edge counts for the
\* loops it leaves and those it enters.
Arcs == {<<dfnum[e[1]], dfnum[e[2]]>> : e \in {f \in edges : dfnum[f[1]] # NIL}}

CountExits ==
  [h \in Reached |-> Cardinality({e \in Arcs :
     \E k \in {Exits(e[1], e[2])} : h \in Range(LoopsUp(e[1], k))})]
CountEntries ==
  [h \in Reached |-> Cardinality({e \in Arcs :
     \E k \in {Entries(e[1], e[2])} : h \in Range(LoopsUp(e[2], k))})]

-----------------------------------------------------------------------------
(* PrivateCFG::mark_loop_back_edges and build_loops_scope_tree.            *)

Kid == order[next]
InArcs == {<<p, Kid>> : p \in PredsOf(Kid)}
ExitArcs  == {e \in InArcs : Exits(e[1], e[2]) > 0}
EntryArcs == {e \in InArcs : Entries(e[1], e[2]) > 0}

\* The edges into the next node of the tree.
MarkIncoming ==
  /\ phase = "mark"
  /\ next \in DOMAIN order
  /\ NIL \notin PredsOf(Kid)
  /\ backEdges' = backEdges \cup {e \in InArcs : TARJ_contains(Kid, e[1])}
  /\ exited' = exited @@ [e \in ExitArcs |->
       [levels |-> Exits(e[1], e[2]), loop |-> Outermost(e[1], Exits(e[1], e[2]))]]
  /\ entered' = entered @@ [e \in EntryArcs |->
       [levels |-> Entries(e[1], e[2]), loop |-> Outermost(Kid, Entries(e[1], e[2]))]]
  /\ entryEdges' = entryEdges \cup UNION
       {Range(LoopsUp(Kid, Entries(e[1], e[2]))) \X {e} : e \in EntryArcs}
  \* numExitEdges counts when it is first asked.
  /\ IF ExitArcs # {} /\ numExits = << >>
       THEN numExits' = CountExits /\ numEntries' = CountEntries
       ELSE UNCHANGED <<numExits, numEntries>>
  /\ phase' =
       IF /\ \A e \in ExitArcs :
               AssertUp(e[1], Exits(e[1], Kid)) /\ numExits'[exited'[e].loop] > 0
          /\ \A e \in EntryArcs : AssertUp(Kid, Entries(e[1], Kid))
         THEN phase ELSE "aborted"
  /\ next' = next + 1
  /\ UNCHANGED <<edges, dfsVars, predVars, nestVars, treeVars, loopTree>>

\* An edge from a block the search has not reached: the tree is read at
\* DFNUM_NIL, outside of its array.
MarkFromUnreached ==
  /\ phase = "mark"
  /\ next \in DOMAIN order
  /\ NIL \in PredsOf(Kid)
  /\ phase' = "outside"
  /\ UNCHANGED <<edges, dfsVars, predVars, nestVars, treeVars, markVars>>

build_loops_scope_tree ==
  /\ phase = "mark"
  /\ next \notin DOMAIN order
  /\ phase' = "done"
  /\ LET loops == {d \in Reached : d = ROOT \/ NodeIsLoopHeader(d)}
         Parent(d) == IF d = ROOT THEN 0 ELSE loopIndex[outer[d]]
     IN  loopTree' = [i \in {loopIndex[d] : d \in loops} |->
           Parent(CHOOSE d \in loops : loopIndex[d] = i)]
  /\ UNCHANGED <<edges, dfsVars, predVars, nestVars, treeVars, next, numExits,
                 numEntries, backEdges, exited, entered, entryEdges>>

Next ==
  \/ computeTopNodes
  \/ DFSRoot \/ DFSSon \/ DFSReturn
  \/ FillPredLists
  \/ StartVertex \/ ScanPreds \/ EndVertex
  \/ Build \/ Sort \/ ComputeIntervalIndex
  \/ MarkIncoming \/ MarkFromUnreached
  \/ build_loops_scope_tree

Spec == Init /\ [][Next]_vars
-----------------------------------------------------------------------------
(* Loops by definition.                                                    *)

\* The descendants of h in the tree of the search.
Desc(h) == {d \in Reached : h <= d /\ d <= TLast[h]}

\* Those from which h is reached again without leaving the descendants.
LoopOf(h) ==
  LET inside == {e \in Arcs : e[1] \in Desc(h) /\ e[2] \in Desc(h)}
      path   == ConnectionsIn([node |-> Desc(h), edge |-> inside])
  IN  {d \in Desc(h) : path[d, h]}

\* h is the header of a loop: an edge comes back to it.
Headers == {h \in Reached \ {ROOT} : \E d \in Desc(h) : <<d, h>> \in Arcs}

\* Every way from the entry to b passes a.
Dominates(a, b) ==
  LET rest == Reached \ {a}
      path == ConnectionsIn([node |-> rest, edge |-> {e \in Arcs : {e[1], e[2]} \subseteq rest}])
  IN  a = b \/ ~path[ROOT, b]

\* All loops, by their headers, and those a node is in.
Loops == [h \in Headers |-> LoopOf(h)]
Around(loops, d) == {h \in DOMAIN loops : d \in loops[h]}

-----------------------------------------------------------------------------
(* Properties.                                                             *)

\* The tree is the nesting of the loops: its subtrees are the loops as defined
\* above, a node's level is the number of loops around it, and a loop is called
\* an interval just if its header dominates it (TarjanIntervals.C:437-652).
LoopsNested ==
  phase = "index" =>
    LET loops == Loops
    IN  \A d \in Reached \ {ROOT} :
          /\ NodeIsLoopHeader(d) <=> d \in Headers
          /\ {b \in Reached : TARJ_contains(d, b)} =
               {d} \cup IF d \in Headers THEN loops[d] ELSE {}
          /\ level[d] = Cardinality(Around(loops, d))
          /\ d \in Headers =>
               (type[d] = "interval" <=> \A b \in loops[d] : Dominates(d, b))

\* The nested intervals of each loop are in topological order, whatever the
\* order of the search and however many entries the loops have: no edge goes
\* from one to an earlier one (TarjanIntervals.C:232-277).
SiblingsInOrder ==
  phase = "index" =>
    \A e \in Arcs : \A a, b \in Reached \ {ROOT} :
      outer[a] = outer[b] /\ a # b /\ TARJ_contains(a, e[1]) /\ TARJ_contains(b, e[2])
        => prenum[a] < prenum[b]

\* The marks on edges are what the loops say: an edge goes back if it comes
\* from the loop of its sink, it leaves and enters each loop that has one of
\* its ends only, and the exits of a loop are the edges that leave it.  Scopes
\* are nested as loops are.  No assertion on the way fails, and marking only
\* breaks off at an edge from an unreached block, which is on or behind a cycle
\* that nothing leads to (PrivateCFG.C:624-864, TarjanIntervals.C:957-1222).
EdgesMarked ==
  /\ phase # "aborted"
  /\ phase = "outside" =>
       LET path == ConnectionsIn([node |-> Nodes, edge |-> edges])
       IN  \A b \in Blocks : dfnum[b] = NIL =>
             \E e \in edges : dfnum[e[1]] = NIL /\ path[e[2], e[1]] /\ path[e[1], b]
  /\ phase = "done" =>
       LET loops == Loops
           Left(e)    == Around(loops, e[1]) \ Around(loops, e[2])
           Reaches(e) == Around(loops, e[2]) \ Around(loops, e[1])
       IN  /\ backEdges = {e \in Arcs : e[2] \in Around(loops, e[1])}
           /\ DOMAIN exited = {e \in Arcs : Left(e) # {}}
           /\ DOMAIN entered = {e \in Arcs : Reaches(e) # {}}
           /\ \A e \in DOMAIN exited :
                exited[e] = [levels |-> Cardinality(Left(e)), loop |-> Min(Left(e))]
           /\ \A e \in DOMAIN entered :
                entered[e] = [levels |-> Cardinality(Reaches(e)), loop |-> Min(Reaches(e))]
           /\ entryEdges = UNION {Reaches(e) \X {e} : e \in Arcs}
           /\ numExits # << >> => \A h \in DOMAIN loops :
                numExits[h] = Cardinality({e \in Arcs : h \in Left(e)})
           /\ \A h \in DOMAIN loops :
                loopTree[loopIndex[h]] = loopIndex[Max({ROOT} \cup (Around(loops, h) \ {h}))]
=============================================================================
