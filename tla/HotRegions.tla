------------------------------ MODULE HotRegions ------------------------------
(***************************************************************************)
(* The regions of the affinity analysis in loc-anlys/src/main.cpp: to the  *)
(* regions the zoom has found (ZoomAnalysis) come the address ranges of    *)
(* hot instructions the zoom did not reach, then every access of the trace *)
(* gets the index of its region.  getTopInst counts the instructions in    *)
(* one pass and forgets the rare ones at each sample; findHotPage with     *)
(* zoomOption 4 takes a hot range apart.                                   *)
(*                                                                         *)
(* An action reads one access, or treats one hot range.  HotLines goes on  *)
(* with what it leaves.                                                    *)
(***************************************************************************)
EXTENDS Integers, Sequences, FiniteSetsExt, SequencesExt

CONSTANTS
  Insns,         \* the instructions
  Traces,        \* the traces looked at
  ZoomRegions,   \* the lists of regions the zoom may have found
  PurgeShare,    \* 100: at a sample, up to 1/100 of the accesses is rare
  TopShare,      \* 50: at the end, up to 1/50
  MaxInsns,      \* 10 instructions at most
  OSPageSize,    \* 16384
  ZoomShare,     \* 10: 1/zoomThreshold
  MaxGroups,     \* 16: numBlockGroup
  heapAddrEnd

Line   == [insn : Insns, addr : Nat, sample : Nat]
Region == [min : Nat, max : Nat, strID : Seq(Nat)]

\* No two regions of a list have the same name, or start.
NamesApart(list) ==
  \A j, k \in DOMAIN list : j # k => list[j].strID # list[k].strID
StartsApart(list) ==
  \A j, k \in DOMAIN list : j # k => list[j].min # list[k].min

\* The root page has the first address of the trace: 0 is none.  The zoom finds
\* pages with accesses and names of their own (ZoomAnalysis), but it can find a
\* page twice.
ASSUME HotAssumption ==
  /\ Insns \subseteq Nat
  /\ Traces \subseteq Seq(Line) \ {<< >>}
  /\ \A t \in Traces : \A i \in DOMAIN t : t[i].addr > 0
  /\ ZoomRegions \subseteq Seq(Region)
  /\ \A z \in ZoomRegions : /\ NamesApart(z)
                            /\ \A k \in DOMAIN z : z[k].min <= z[k].max
  /\ \A c \in {PurgeShare, TopShare, MaxInsns, OSPageSize, ZoomShare, MaxGroups} :
       c \in Nat \ {0}
  /\ MaxGroups > 1 /\ MaxGroups <= 2 * ZoomShare
  /\ heapAddrEnd \in Nat

VARIABLES
  phase,          \* "count", "coalesce", "add", "number" and "done"
  trace,          \* vecInstAddr
  itr,            \* the accesses getTopInst has read
  insMap,         \* its counts, 0 for an instruction that is not in the map
  real,           \* history: the accesses of each instruction so far
  purged,         \* history: the counts purges may have dropped so far
  zoomed,         \* history: the regions of the zoom
  hot,            \* vecInstRegion: the ranges of the hot instructions
  next,           \* cntVecInsn
  insnRegSet,     \* the addresses of the interval set
  regions,        \* spatialRegionList
  setRegionAddr,
  final,          \* finalRegionList
  regionId        \* the region ids of the trace

countVars  == <<itr, insMap, real, purged>>
regionVars == <<hot, next, insnRegSet, regions, setRegionAddr>>
hotVars    == <<phase, trace, zoomed, countVars, regionVars, final, regionId>>

Addrs(r) == <<r.min, r.max>>
Before(x, y) == x[1] < y[1] \/ (x[1] = y[1] /\ x[2] < y[2])

\* A sequence of pairs in order: before the k-th one there are k - 1.
Sorted(s) ==
  LET Precedes(i, j) == Before(s[i], s[j]) \/ (s[i] = s[j] /\ i < j)
  IN  [k \in DOMAIN s |->
         s[CHOOSE j \in DOMAIN s :
             Cardinality({i \in DOMAIN s : Precedes(i, j)}) = k - 1]]

\* The elements of a set by increasing, or by decreasing pairs.
Ascending(S) ==
  [k \in 1 .. Cardinality(S) |->
     CHOOSE x \in S : Cardinality({y \in S : Before(y, x)}) = k - 1]
Descending(S) == Reverse(Ascending(S))

RegionsInit ==
  /\ phase = "count"
  /\ trace \in Traces
  /\ itr = 0
  /\ insMap = [i \in Insns |-> 0]
  /\ real = [i \in Insns |-> 0]
  /\ purged = 0
  /\ hot = << >>
  /\ next = 1
  /\ insnRegSet = {}
  /\ zoomed \in ZoomRegions
  /\ regions = zoomed
  /\ setRegionAddr = << >>
  /\ final = << >>
  /\ regionId = << >>

-----------------------------------------------------------------------------
(* getTopInst.                                                             *)

\* The counts without those of up to 1/share of n accesses.
Without(share, n) ==
  [i \in Insns |-> IF insMap[i] * share <= n THEN 0 ELSE insMap[i]]

\* Slip: the purge at a sample drops what is rare at the end.
PurgeRare == Without(TopShare, itr + 1)

\* At the first access of another sample, which is counted in numInsn already.
Purge == Without(PurgeShare, itr + 1)

NewSample == itr > 0 /\ trace[itr + 1].sample # trace[itr].sample

CountInsn ==
  /\ phase = "count"
  /\ itr < Len(trace)
  /\ itr' = itr + 1
  /\ \E i \in {trace[itr + 1].insn} :
       /\ real' = [real EXCEPT ![i] = @ + 1]
       /\ \/ /\ NewSample
             /\ insMap' = [Purge EXCEPT ![i] = @ + 1]
             /\ purged' = purged + (itr + 1) \div PurgeShare
          \/ /\ ~NewSample
             /\ insMap' = [insMap EXCEPT ![i] = @ + 1]
             /\ UNCHANGED purged
  /\ UNCHANGED <<phase, trace, zoomed, regionVars, final, regionId>>

\* The MaxInsns greatest counts, of equal ones those of the higher addresses.
Top(counts) ==
  {i \in Insns :
     /\ counts[i] > 0
     /\ Cardinality({j \in Insns : \/ counts[j] > counts[i]
                                   \/ counts[j] = counts[i] /\ j > i}) < MaxInsns}

\* getRegionforInst: from the lowest to the highest address of its accesses.
RangeOf(i) ==
  LET as == {trace[k].addr : k \in {m \in DOMAIN trace : trace[m].insn = i}}
  IN  <<Min(as), Max(as)>>

-----------------------------------------------------------------------------
(* boost::icl::interval_set, on integers: intervals that overlap or follow *)
(* one another are joined.                                                 *)

Lowers(cells) == {a \in cells : a - 1 \notin cells}
Uppers(cells) == {b \in cells : b + 1 \notin cells}

Intervals(cells) ==
  {c \in Lowers(cells) \X Uppers(cells) :
     c[1] <= c[2] /\ (c[1] .. c[2]) \subseteq cells}

iterative_size(cells) == Cardinality(Lowers(cells))

\* The ranges are put in as open intervals and taken out by their bounds.  A
\* range of one address, or two with one address in common, vanishes or stay
\* apart.
Coalesced(ranges) ==
  {<<c[1] - 1, c[2] + 1>> :
     c \in Intervals(UNION {r[1] + 1 .. r[2] - 1 : r \in ranges})}

\* The ranges of the hot instructions, then the regions of the zoom.
Coalesce ==
  /\ phase = "count"
  /\ itr = Len(trace)
  /\ phase' = "add"
  /\ insMap' = Without(TopShare, Len(trace))
  /\ hot' = Ascending(Coalesced({RangeOf(i) : i \in Top(insMap')}))
  /\ setRegionAddr' = Sorted([k \in DOMAIN regions |-> Addrs(regions[k])])
  /\ insnRegSet' = UNION {r.min .. r.max : r \in ToSet(regions)}
  /\ UNCHANGED <<trace, zoomed, itr, real, purged, next, regions, final, regionId>>

-----------------------------------------------------------------------------
(* The pages of a hot range: findHotPage with zoomOption 4.                *)

CeilDiv(a, b) == (a + b - 1) \div b
BlockCount(r) == CeilDiv(r[2] - r[1], OSPageSize)

\* getAccessCount: the last block has what the blocks leave over.
BlockOf(r, a) == Min({(a - r[1]) \div OSPageSize, BlockCount(r) - 1})

Accesses(r) == {k \in DOMAIN trace : r[1] <= trace[k].addr /\ trace[k].addr <= r[2]}

getAccessCount(r) ==
  [b \in 0 .. BlockCount(r) - 1 |->
     Cardinality({k \in Accesses(r) : BlockOf(r, trace[k].addr) = b})]

Sum(count, blocks) ==
  SumFunctionOnSet(count, blocks \cap DOMAIN count)

\* Contiguous blocks with accesses, as first block and width.
Runs(count) ==
  {<<c[1], c[2] - c[1] + 1>> :
     c \in Intervals({b \in DOMAIN count : count[b] > 0})}

\* Slip: the share is one of all accesses (thresholdTotAccess).
IsHotInTrace(run, count) ==
  Sum(count, run[1] .. run[1] + run[2] - 1) * ZoomShare >= Len(trace)

IsHot(run, count) ==
  Sum(count, run[1] .. run[1] + run[2] - 1) * ZoomShare >= Sum(count, DOMAIN count)

\* More blocks than groups: the pages in a group are doubled until so many
\* groups have enough of them, the remainder of the division aside.
doubled[n \in Nat] == IF n = 0 THEN 1 ELSE 2 * doubled[n - 1]

numPagesInGroup(blocks) ==
  LET Fit(n) == blocks \div doubled[n] <= MaxGroups
  IN  doubled[CHOOSE n \in 0 .. blocks : Fit(n) /\ (n > 0 => ~Fit(n - 1))]

numBlockGroup(blocks) == IF blocks <= MaxGroups THEN 1 ELSE MaxGroups

GroupStart(g, n) == g * n

\* vecAccessPages, sorted: accesses and first block of each group.
Groups(count) ==
  LET blocks == Cardinality(DOMAIN count)
      n      == numPagesInGroup(blocks)
      Group(g) == <<Sum(count, g * n .. g * n + n - 1), GroupStart(g, n)>>
  IN  Descending({Group(g) : g \in 0 .. numBlockGroup(blocks) - 1})

\* The two best groups, if no run is hot; the code does not look at how many
\* groups there are.
TwoGroups(count) ==
  [c \in 1 .. Min({2, Len(Groups(count))}) |->
     <<Groups(count)[c][2], numPagesInGroup(Cardinality(DOMAIN count))>>]

HotRuns(count) ==
  Ascending({run \in Runs(count) : IsHot(run, count)})

Children(count) == IF HotRuns(count) = << >> THEN TwoGroups(count) ELSE HotRuns(count)

\* "HotIns-" is in no name of the zoom.
HotIns == -1

\* Then come the number of the range and that of the child: there are ten
\* ranges at most, so each name is of one child.
Child(r, run, n) ==
  [min |-> r[1] + OSPageSize * run[1],
   max |-> r[1] + OSPageSize * (run[1] + run[2]) - 1,
   strID |-> <<HotIns, next - 1, IF HotRuns(getAccessCount(r)) = << >> THEN n ELSE n - 1>>]

-----------------------------------------------------------------------------
(* Adding the hot ranges.                                                  *)

Current == hot[next]
InHeap(r) == r[2] < heapAddrEnd

\* Slip: whatever is already in the list.
CoveredNever(r) == FALSE

\* No interval more than before.
Covered(r) ==
  iterative_size(insnRegSet \cup (r[1] .. r[2])) <= iterative_size(insnRegSet)

\* In the stack, or not apart from the regions and ranges seen so far.
SkipRange ==
  /\ phase = "add"
  /\ next \in DOMAIN hot
  /\ \/ ~InHeap(Current) /\ UNCHANGED insnRegSet
     \/ /\ InHeap(Current)
        /\ Covered(Current)
        /\ insnRegSet' = insnRegSet \cup (Current[1] .. Current[2])
  /\ next' = next + 1
  /\ UNCHANGED <<phase, trace, zoomed, countVars, hot, regions, setRegionAddr, final,
                 regionId>>

AddRange ==
  /\ phase = "add"
  /\ next \in DOMAIN hot
  /\ InHeap(Current)
  /\ ~Covered(Current)
  /\ insnRegSet' = insnRegSet \cup (Current[1] .. Current[2])
  /\ LET runs     == Children(getAccessCount(Current))
         children == [n \in DOMAIN runs |-> Child(Current, runs[n], n)]
     IN  /\ regions' = regions \o children
         /\ setRegionAddr' =
              setRegionAddr \o [n \in DOMAIN children |-> Addrs(children[n])]
  /\ next' = next + 1
  /\ UNCHANGED <<phase, trace, zoomed, countVars, hot, final, regionId>>

-----------------------------------------------------------------------------
(* The final list and the region ids.                                      *)

\* For each of the sorted addresses, the regions that have them.
SelectRegions ==
  /\ phase = "add"
  /\ next \notin DOMAIN hot
  /\ LET sorted == Sorted(setRegionAddr)
         found  == Ascending({x \in (DOMAIN sorted) \X (DOMAIN regions) :
                                Addrs(regions[x[2]]) = sorted[x[1]]})
     IN  /\ setRegionAddr' = sorted
         /\ final' = [k \in DOMAIN found |-> regions[found[k][2]]]
         /\ phase' = IF sorted = << >> THEN "done" ELSE "number"
  /\ regions' = << >>
  /\ UNCHANGED <<trace, zoomed, countVars, hot, next, insnRegSet, regionId>>

NonHot == 254
Stack  == 255

\* The first region that has the address.  There are less than 256.
RegionOf(a) ==
  LET in == {k \in DOMAIN setRegionAddr :
               setRegionAddr[k][1] <= a /\ a <= setRegionAddr[k][2]}
  IN  IF in # {} THEN Min(in) - 1 ELSE IF a > heapAddrEnd THEN Stack ELSE NonHot

updateTraceRegion ==
  /\ phase = "number"
  /\ phase' = "done"
  /\ regionId' = [k \in DOMAIN trace |-> RegionOf(trace[k].addr)]
  /\ UNCHANGED <<trace, zoomed, countVars, regionVars, final>>

RegionsNext ==
  CountInsn \/ Coalesce \/ SkipRange \/ AddRange \/ SelectRegions \/ updateTraceRegion

RegionsSpec == RegionsInit /\ [][RegionsNext]_hotVars
-----------------------------------------------------------------------------
(* Properties.                                                             *)

\* What the purges can cost: a count in the map is never too high, and too low
\* by no more than the shares of the purges together, although an instruction
\* can be dropped and found again any number of times (memoryanalysis.cpp:
\* 198-225).  So the instructions the analysis is meant for are reported.
LossyCount ==
  phase = "count" =>
    \A i \in Insns : insMap[i] <= real[i] /\ real[i] <= insMap[i] + purged

\* The ids in the trace are indices of setRegionAddr, the steps after use them
\* as indices of finalRegionList, and names are found by the lowest address:
\* the three agree, so no two regions have the same addresses, nor the same
\* start, unless the zoom has found two like that: the final list then has each
\* of them twice (main.cpp:1055, 1171, 1192-1207, memoryanalysis.cpp:253-280).
RegionIndexAgrees ==
  phase \in {"number", "done"} /\ StartsApart(zoomed) =>
    /\ Len(final) = Len(setRegionAddr)
    /\ \A k \in DOMAIN final : Addrs(final[k]) = setRegionAddr[k]
    /\ \A j, k \in DOMAIN final :
         j < k => final[j].min < final[k].min /\ final[j].strID # final[k].strID
    /\ \A k \in DOMAIN regionId :
         regionId[k] < NonHot =>
           /\ final[regionId[k] + 1].min <= trace[k].addr
           /\ trace[k].addr <= final[regionId[k] + 1].max

\* The pages that are in none of the groups.
LeftOut(count) ==
  LET blocks == Cardinality(DOMAIN count)
  IN  {b \in DOMAIN count : b >= numBlockGroup(blocks) * numPagesInGroup(blocks)}

\* Taking a hot range apart never reads a second group where there is only one:
\* the runs of few blocks are too few for each of them to be cold.  And each
\* child has accesses, unless the last block of the range is in no group
\* (main.cpp:272-375).
ChildrenAccessed ==
  phase = "add" /\ next \in DOMAIN hot =>
    LET r     == Current
        count == getAccessCount(r)
        runs  == Children(count)
    IN  /\ HotRuns(count) = << >> => Len(runs) = 2
        /\ LeftOut(count) = {} =>
             \A n \in DOMAIN runs :
               Sum(count, runs[n][1] .. runs[n][1] + runs[n][2] - 1) > 0
=============================================================================
