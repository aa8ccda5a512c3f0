---------------------------- MODULE ZoomAnalysis ----------------------------
(***************************************************************************)
(* The zoom loop of loc-anlys/src/main.cpp with --zoomRUD: areas of the    *)
(* address space are divided into blocks, contiguous blocks with accesses  *)
(* become the pages that are zoomed into next, first in first out, and the *)
(* regions for the affinity analysis are taken from the pages of small     *)
(* block size.  findHotPage, getAccessCount, writeZoomFile and the copy of *)
(* the final regions; hot instructions add no region here.                 *)
(*                                                                         *)
(* A turn of the loop skips its area, or counts the accesses in it and     *)
(* then gives up or zooms in.                                              *)
(***************************************************************************)
EXTENDS Integers, Sequences, FiniteSetsExt, SequencesExt, TLC

CONSTANTS
  Traces,               \* the accesses by address: functions to positive counts
  mempin,               \* the number of blocks of the root, 16
  pageSize,             \* areas up to this size are skipped, 64
  MinBlockSize,         \* areas with smaller blocks are skipped, 32
  LevelOneSize,         \* levelOneSize at the start
  cacheLineWidth,
  zoomLastLvlPageWidth,
  heapAddrEnd,
  FirstShare,           \* 1000: pages of the first levels have 1/FirstShare
  ZoomShare,            \* 10: 1/zoomThreshold
  Radix,                \* 10: the digits of std::to_string
  RootLetter,           \* 17, letters are counted from 'A'
  MaxZooms              \* bound on the turns of the loop

ASSUME ZoomAssumption ==
  /\ \A c \in {mempin, pageSize, MinBlockSize, LevelOneSize, cacheLineWidth,
               zoomLastLvlPageWidth, heapAddrEnd, MaxZooms} : c \in Nat \ {0}
  /\ Radix \in Nat \ {0, 1} /\ RootLetter \in Nat
  /\ ZoomShare \in 1 .. Radix /\ FirstShare \in Nat \ {0}
  /\ cacheLineWidth < zoomLastLvlPageWidth
  /\ \A t \in Traces : DOMAIN t # {} /\ \A a \in DOMAIN t : t[a] \in Nat \ {0}

VARIABLES
  phase,         \* "zoom", "counted", "done", "selected", or "failed": main
                 \* returned -1
  trace,         \* vecInstAddr
  levelOneSize,
  page,          \* thisMemblock
  memarea,
  pageTotalAccess,
  zoomin,
  queue,         \* zoomPageList
  regions,       \* spatialRegionList
  report,        \* the zoom file: each page with what was found in it
  final          \* finalRegionList

vars == <<phase, trace, levelOneSize, page, memarea, pageTotalAccess, zoomin,
          queue, regions, report, final>>

lvlConstBlockSize == 2

CeilDiv(a, b) == (a + b - 1) \div b

-----------------------------------------------------------------------------
(* Counting the accesses of an area.                                       *)

\* The last block includes what the blocks leave over.
BlockOf(area, addr) ==
  LET block == (addr - area.min) \div area.blockSize
  IN IF block = area.blockCount THEN block - 1 ELSE block

Inside(addr, area) == area.min <= addr /\ addr <= area.max

AccessesOf(addrs) == MapThenSumSet(LAMBDA a : trace[a], addrs)

getAccessCount(area) ==
  [b \in 0 .. area.blockCount - 1 |->
     AccessesOf({a \in DOMAIN trace : Inside(a, area) /\ BlockOf(area, a) = b})]

Sum(count, blocks) == MapThenSumSet(LAMBDA b : count[b], blocks)
Total(count) == Sum(count, DOMAIN count)

-----------------------------------------------------------------------------
(* findHotPage with zoomOption 2.                                          *)

Blocks == 0 .. memarea.blockCount - 1

\* Slip: the search goes on with the next block instead of behind the run.
RunsFromEach ==
  LET Hit(k) == k \in Blocks /\ pageTotalAccess[k] > 0
  IN {<<i, j>> \in Blocks \X Blocks :
        i <= j /\ ~Hit(j + 1) /\ \A k \in i .. j : Hit(k)}

\* Contiguous blocks with accesses, as first and last block.
Runs ==
  LET Hit(k) == k \in Blocks /\ pageTotalAccess[k] > 0
  IN {<<i, j>> \in Blocks \X Blocks :
        /\ i <= j /\ ~Hit(i - 1) /\ ~Hit(j + 1)
        /\ \A k \in i .. j : Hit(k)}

\* A power of two that holds a block of the root, if that is small enough.
FirstSize ==
  LET levelSize[n \in Nat] ==
        IF n < memarea.blockSize THEN levelSize[2 * n] ELSE n
  IN IF page.level = lvlConstBlockSize - 1 /\ memarea.blockSize <= levelOneSize
     THEN levelSize[1]
     ELSE levelOneSize

\* Large blocks of the root are kept apart.
Candidates ==
  IF page.level = lvlConstBlockSize - 1 /\ memarea.blockSize > levelOneSize
  THEN {<<i, i>> : i \in Blocks}
  ELSE Runs

\* Slip: the thresholds are integers.
IsHotRounded(run) ==
  LET access == Sum(pageTotalAccess, run[1] .. run[2])
      total  == Total(pageTotalAccess)
  IN \/ page.level <= lvlConstBlockSize /\ access >= total \div FirstShare
     \/ page.level >= lvlConstBlockSize /\ access >= total \div ZoomShare

IsHot(run) ==
  LET access == Sum(pageTotalAccess, run[1] .. run[2])
      total  == Total(pageTotalAccess)
  IN \/ page.level <= lvlConstBlockSize /\ access * FirstShare >= total
     \/ page.level >= lvlConstBlockSize /\ access * ZoomShare >= total

MinOf(run) == memarea.min + memarea.blockSize * run[1]

\* Slip: one address too many.
MaxOfNext(run) == memarea.min + memarea.blockSize * (run[2] + 1)

MaxOf(run) == memarea.min + memarea.blockSize * (run[2] + 1) - 1

\* Slip: the last level is divided again.
IsZoomedAlways(run) ==
  \/ page.level = lvlConstBlockSize - 1
  \/ page.level >= lvlConstBlockSize /\ MaxOf(run) <= heapAddrEnd

\* The stack is only zoomed into at the root, cache lines never.
IsZoomed(run) ==
  \/ page.level = lvlConstBlockSize - 1
  \/ /\ page.level >= lvlConstBlockSize
     /\ MaxOf(run) <= heapAddrEnd
     /\ memarea.blockSize # cacheLineWidth

BlockSizeOf(level) ==
  IF memarea.blockSize <= zoomLastLvlPageWidth THEN cacheLineWidth
  ELSE FirstSize \div 4 ^ (level - lvlConstBlockSize)

\* std::to_string, as a sequence of digits.
to_string[n \in Nat] ==
  IF n < Radix THEN <<n>> ELSE Append(to_string[n \div Radix], n % Radix)

\* "R": a later page can have the name of the root.
RootID == <<RootLetter>>

\* A letter below the root, then the number of the child appended.
ChildID(run, n) ==
  IF page.strID = RootID THEN <<n>> ELSE page.strID \o to_string[n]

\* The n-th page that is put on the list, from 0.
HotPage(run, n) ==
  [strID |-> ChildID(run, n), strParentID |-> page.strID, level |-> page.level + 1,
   min |-> MinOf(run), max |-> MaxOf(run), blockSize |-> BlockSizeOf(page.level + 1),
   leftPid |-> run[1], rightPid |-> run[2]]

\* Blocks are searched from the first one up.
InOrder(runs) ==
  [k \in 1 .. Cardinality(runs) |->
     CHOOSE r \in runs : Cardinality({s \in runs : s[1] < r[1]}) = k - 1]

findHotPage ==
  LET runs == InOrder({run \in Candidates : IsHot(run) /\ IsZoomed(run)})
  IN [k \in DOMAIN runs |-> HotPage(runs[k], k - 1)]

-----------------------------------------------------------------------------
Init ==
  /\ phase = "zoom"
  /\ trace \in Traces
  /\ levelOneSize = LevelOneSize
  /\ page = [strID |-> RootID, strParentID |-> << >>, level |-> 1,
             min |-> Min(DOMAIN trace), max |-> Max(DOMAIN trace),
             blockSize |-> 0, leftPid |-> 0, rightPid |-> 0]
  /\ memarea =
       [min |-> Min(DOMAIN trace), max |-> Max(DOMAIN trace), blockCount |-> mempin,
        blockSize |-> CeilDiv(Max(DOMAIN trace) - Min(DOMAIN trace), mempin)]
  /\ pageTotalAccess = << >>
  /\ zoomin = 0
  /\ queue = << >>
  /\ regions = << >>
  /\ report = << >>
  /\ final = << >>

\* Pages of the last levels are the regions of the affinity analysis.
IsRegion(p) ==
  p.blockSize = cacheLineWidth \/ p.blockSize <= 4 * zoomLastLvlPageWidth

AreaOf(p) ==
  [min |-> p.min, max |-> p.max, blockSize |-> p.blockSize,
   blockCount |-> CeilDiv(p.max - p.min, p.blockSize)]

\* The end of a turn: the next of the pages on the list, if there is one.
NextPage(pages, number) ==
  /\ IF number # 0 /\ pages # << >>
     THEN LET next == Head(pages) IN
          /\ page' = next
          /\ memarea' = AreaOf(next)
          /\ queue' = Tail(pages)
          /\ regions' = IF IsRegion(next) THEN Append(regions, next) ELSE regions
          /\ phase' = "zoom"
     ELSE /\ phase' = "done"
          /\ queue' = pages
          /\ UNCHANGED <<page, memarea, regions>>
  /\ zoomin' = IF number # 0 THEN number - 1 ELSE 0

IsSmall == memarea.max - memarea.min <= pageSize \/ memarea.blockSize < MinBlockSize

SkipArea ==
  /\ phase = "zoom"
  /\ Len(report) < MaxZooms
  /\ IsSmall
  /\ report' = Append(report, [page |-> page, area |-> memarea, count |-> << >>])
  /\ NextPage(queue, zoomin)
  /\ UNCHANGED <<trace, levelOneSize, pageTotalAccess, final>>

CountAccesses ==
  /\ phase = "zoom"
  /\ Len(report) < MaxZooms
  /\ ~IsSmall
  /\ phase' = "counted"
  /\ pageTotalAccess' = getAccessCount(memarea)
  /\ UNCHANGED <<trace, levelOneSize, page, memarea, zoomin, queue, regions, report, final>>

ZoomIn ==
  /\ phase = "counted"
  /\ Total(pageTotalAccess) # 0
  /\ report' =
       Append(report, [page |-> page, area |-> memarea, count |-> pageTotalAccess])
  /\ levelOneSize' = FirstSize
  /\ \E pages \in {findHotPage} : NextPage(queue \o pages, zoomin + Len(pages))
  /\ UNCHANGED <<trace, pageTotalAccess, final>>

\* "All values are zero - No analysis done"
FailOnEmptyArea ==
  /\ phase = "counted"
  /\ Total(pageTotalAccess) = 0
  /\ phase' = "failed"
  /\ UNCHANGED <<trace, levelOneSize, page, memarea, pageTotalAccess, zoomin, queue,
                 regions, report, final>>

\* Slip: the block size is that of the first one.
FirstLevelRegions ==
  SelectSeq(regions, LAMBDA r : r.blockSize = Head(regions).blockSize)

LastLevelRegions ==
  SelectSeq(regions, LAMBDA r : r.blockSize = Last(regions).blockSize)

\* setRegionAddr, sorted.
RegionAddrs ==
  SortSeq([k \in DOMAIN LastLevelRegions |->
             <<LastLevelRegions[k].min, LastLevelRegions[k].max>>],
          LAMBDA r, s : r[1] < s[1] \/ (r[1] = s[1] /\ r[2] < s[2]))

\* For each of the addresses, the regions that have them.
SelectRegions ==
  /\ phase = "done"
  /\ phase' = "selected"
  /\ final' =
       FlattenSeq([k \in DOMAIN RegionAddrs |->
         SelectSeq(LastLevelRegions, LAMBDA r : <<r.min, r.max>> = RegionAddrs[k])])
  /\ UNCHANGED <<trace, levelOneSize, page, memarea, pageTotalAccess, zoomin, queue,
                 regions, report>>

Next == SkipArea \/ CountAccesses \/ ZoomIn \/ FailOnEmptyArea \/ SelectRegions

Spec == Init /\ [][Next]_vars /\ WF_vars(Next)
-----------------------------------------------------------------------------
(* Properties.                                                             *)

IDs   == Seq(Nat)
Pages == [strID : IDs, strParentID : IDs, level : Nat \ {0}, min : Nat, max : Nat,
          blockSize : Nat, leftPid : Nat, rightPid : Nat]
Areas == [min : Nat, max : Nat, blockSize : Nat, blockCount : Nat]

\* The state is well formed, the list is as long as zoomin says, so "Zoomlist
\* empty" is never reached (main.cpp:953-977), and the bound on the turns is
\* not met.
TypeOK ==
  /\ phase \in {"zoom", "counted", "done", "selected", "failed"}
  /\ levelOneSize \in Nat \ {0}
  /\ page \in Pages
  /\ memarea \in Areas
  /\ queue \in Seq(Pages) /\ regions \in Seq(Pages) /\ final \in Seq(Pages)
  /\ zoomin = Len(queue)
  /\ Len(report) < MaxZooms
  /\ \A k \in DOMAIN report : report[k].page \in Pages /\ report[k].area \in Areas

Listed   == {report[k].page : k \in DOMAIN report} \union {page} \union ToSet(queue)
ParentOf(p) == {k \in DOMAIN report : /\ report[k].page.strID = p.strParentID
                                      /\ report[k].page.level = p.level - 1}

\* The name and the level of a page tell it from all others, although a name
\* is the numbers of its ancestors without a separator and a page can be named
\* like the root: below level 3 a page has too few hot children for two digits
\* (main.cpp:156-183).
UniqueIDs ==
  \A p, q \in Listed : p.level = q.level /\ p.strID = q.strID => p = q

\* An address of the trace that is one more than the blocks of the area hold.
Spills(area) ==
  /\ area.blockCount > 0
  /\ area.max = area.min + area.blockSize * area.blockCount
  /\ area.max \in DOMAIN trace

\* The analysis is only given up because of accesses that were counted in the
\* last block of an area, and are outside of the page made of that block
\* (memoryanalysis.cpp:301-306, main.cpp:185, 941-944).
FailsOnlyBySpill ==
  phase = "failed" =>
    \E k \in ParentOf(page) :
      /\ Spills(report[k].area)
      /\ page.rightPid = report[k].area.blockCount - 1

\* What was counted in the blocks of a page is found again when the page is
\* zoomed into, but for what is spilled; only the page of the last block may
\* have more (main.cpp:184-200, 966-970, memoryanalysis.cpp:285-309).
AccessesFoundAgain ==
  \A k, up \in DOMAIN report :
    (up \in ParentOf(report[k].page) /\ report[k].count # << >>) =>
      LET p     == report[k].page
          area  == report[up].area
          found == Total(report[k].count)
          there == Sum(report[up].count, p.leftPid .. p.rightPid)
      IN IF p.rightPid < area.blockCount - 1 THEN found = there
         ELSE found >= IF Spills(area) THEN there - trace[area.max] ELSE there

\* The page of level 2 that p is or descends from.
Origin(p) ==
  LET up[l \in 2 .. p.level] ==
        IF l = p.level THEN p ELSE report[Min(ParentOf(up[l + 1]))].page
  IN up[2]
Own(p) == {a \in DOMAIN trace : Inside(a, p) /\ Inside(a, Origin(p))}

\* Pages of one level have no access in common, but where they reach beyond
\* the page of level 2 they come from: blocks of levelOneSize do not divide it
\* evenly (main.cpp:159-170, 188-191).
PagesApart ==
  \A p, q \in Listed :
    p.level = q.level /\ p.level > 1 /\ p # q => Own(p) \intersect Own(q) = {}

\* All that makes the list of pages sound: it is well formed, and its pages are
\* told apart by name and by access.
PagesDistinct == TypeOK /\ UniqueIDs /\ PagesApart

\* The regions of the affinity analysis are those of the smallest blocks the
\* zoom got to: the last one on the list has them.  Each has addresses and, as
\* they are all of one level, its own name (main.cpp:962-963, 1040-1056).
FinestRegions ==
  \A r \in ToSet(final), p \in ToSet(regions) :
    /\ r.blockSize <= p.blockSize
    /\ p.blockSize = r.blockSize => p \in ToSet(final)
    /\ p.blockSize = r.blockSize /\ p # r => p.strID # r.strID
    /\ r.min <= r.max

\* The zoom ends (main.cpp:871-980).
ZoomEnds == <>(phase \in {"selected", "failed"})
=============================================================================
