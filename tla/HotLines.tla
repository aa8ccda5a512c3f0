------------------------------- MODULE HotLines -------------------------------
(***************************************************************************)
(* The hot pages and cache lines of the affinity analysis, steps 2 to 2.6  *)
(* of loc-anlys/src/main.cpp, on the state HotRegions leaves: the pages of *)
(* a region with the most accesses (findHotPage with zoomOption 3), for    *)
(* each region the lines of its hot pages with the most accesses           *)
(* (getTopAccessCountLines), and the hottest lines of all, which           *)
(* SpatialAnalysis is called with.                                         *)
(*                                                                         *)
(* An action treats one region.  All regions of the final list meet the    *)
(* condition of the last loop, since the list was made with it.            *)
(***************************************************************************)
EXTENDS HotRegions

CONSTANTS
  cacheLineWidth,  \* 64
  MaxPages,        \* 10: numBlocksToZoom
  MaxLines         \* 10: of a region, and cntTopHotLines

\* What the defaults have in common: a page has whole lines, and enough.
ASSUME LinesAssumption ==
  /\ \A c \in {cacheLineWidth, MaxPages, MaxLines} : c \in Nat \ {0}
  /\ OSPageSize % cacheLineWidth = 0
  /\ MaxLines <= OSPageSize \div cacheLineWidth

VARIABLES
  step,               \* "pages", "lines", "top", then "done" or "aborted"
  reg,                \* itrRegion, as a position of the final list
  spatialOSPageList,
  vecLineInfo,
  topLines            \* vecTopAccessLineAddr, with what is known of the lines

lineVars == <<step, reg, spatialOSPageList, vecLineInfo, topLines>>
vars     == <<hotVars, lineVars>>

Init ==
  /\ RegionsInit
  /\ step = "pages"
  /\ reg = 1
  /\ spatialOSPageList = << >>
  /\ vecLineInfo = << >>
  /\ topLines = << >>

\* The next region, or the first one of the step after.
Advance(after) ==
  /\ reg \in DOMAIN final
  /\ IF reg = Len(final) THEN reg' = 1 /\ step' = after
                         ELSE reg' = reg + 1 /\ UNCHANGED step

\* The first n elements, or all of them.
Upto(n, s) == SubSeq(s, 1, Min({n, Len(s)}))

-----------------------------------------------------------------------------
(* The hot pages of a region.                                              *)

\* Of equal ones those of the higher addresses.
HottestBlocks(r) ==
  LET count == getAccessCount(Addrs(r))
  IN  {x[2] : x \in ToSet(Upto(MaxPages, Descending({<<count[b], b>> : b \in DOMAIN count})))}

\* Slip: a page that ends with the heap is left out.
EndsBeforeHeapEnd(p) == p.max < heapAddrEnd

EndsInHeap(p) == p.max <= heapAddrEnd

HotPages(r) ==
  LET Page(b) == [min |-> r.min + OSPageSize * b,
                  max |-> r.min + OSPageSize * (b + 1) - 1, strParentID |-> r.strID]
      blocks == SetToSortSeq(HottestBlocks(r), LAMBDA a, b : a < b)
  IN  SelectSeq([k \in DOMAIN blocks |-> Page(blocks[k])], EndsInHeap)

FindPages ==
  /\ phase = "done"
  /\ step = "pages"
  /\ Advance("lines")
  /\ spatialOSPageList' = spatialOSPageList \o HotPages(final[reg])
  /\ UNCHANGED <<hotVars, vecLineInfo, topLines>>

-----------------------------------------------------------------------------
(* The hot lines of a region.                                              *)

\* mapParentIndex, and the pages of vecParentChild.
ParentIndex(id) == Max({k \in DOMAIN final : final[k].strID = id})
PagesOf(k) ==
  SelectSeq(spatialOSPageList, LAMBDA p : ParentIndex(p.strParentID) = k)

numLinesInPage == OSPageSize \div cacheLineWidth

PagesWith(pages, a) == {j \in DOMAIN pages : pages[j].min <= a /\ a <= pages[j].max}
LineInPage(page, a) == (a - page.min) \div cacheLineWidth

\* Slip: the lines of all pages are counted together.
LineOfAnyPage(pages, a) == LineInPage(pages[Min(PagesWith(pages, a))], a)

\* The lines of the first page come first.
LineID(pages, a) ==
  LET j == Min(PagesWith(pages, a))
  IN  (j - 1) * numLinesInPage + LineInPage(pages[j], a)

\* For each line that has accesses their number and the first address.
totalAccess(k, pages) ==
  LET found == {i \in Accesses(Addrs(final[k])) : PagesWith(pages, trace[i].addr) # {}}
      Of(n) == {i \in found : LineID(pages, trace[i].addr) = n}
  IN  {<<Cardinality(Of(n)), trace[Min(Of(n))].addr>> :
         n \in {LineID(pages, trace[i].addr) : i \in found}}

TopAccessLine(pages, entry) ==
  LET j == Min(PagesWith(pages, entry[2]))
      lineId == LineInPage(pages[j], entry[2])
  IN  [accessCount |-> entry[1], regionId |-> reg - 1, pageId |-> j - 1,
       lineId |-> lineId, lowAddr |-> pages[j].min + lineId * cacheLineWidth]

HasLines(pages) == Len(pages) * numLinesInPage >= MaxLines

CountLines ==
  /\ step = "lines"
  /\ Advance("top")
  /\ \E k \in {ParentIndex(final[reg].strID)} :
       LET pages == PagesOf(k)
           top   == Upto(MaxLines, Descending(totalAccess(k, pages)))
       IN  /\ HasLines(pages)
           /\ vecLineInfo' =
                vecLineInfo \o [n \in DOMAIN top |-> TopAccessLine(pages, top[n])]
  /\ UNCHANGED <<hotVars, spatialOSPageList, topLines>>

\* The lines are printed without a look at how many there are: vector::at.
AbortWithoutLines ==
  /\ step = "lines"
  /\ reg \in DOMAIN final
  /\ ~HasLines(PagesOf(ParentIndex(final[reg].strID)))
  /\ step' = "aborted"
  /\ UNCHANGED <<hotVars, reg, spatialOSPageList, vecLineInfo, topLines>>

-----------------------------------------------------------------------------
(* The hot lines of all.                                                   *)

\* mapAddrHotLine
LineAt(a) ==
  vecLineInfo[Max({n \in DOMAIN vecLineInfo : vecLineInfo[n].lowAddr = a})]

ByAccess(x, y) == Before(y, x)

SelectTopLines ==
  /\ step = "top"
  /\ step' = "done"
  /\ LET vecAccessCount ==
           [n \in DOMAIN vecLineInfo |->
              <<vecLineInfo[n].accessCount, vecLineInfo[n].lowAddr>>]
         top == Upto(MaxLines, SortSeq(vecAccessCount, ByAccess))
     IN  topLines' = [n \in DOMAIN top |-> LineAt(top[n][2])]
  /\ UNCHANGED <<hotVars, reg, spatialOSPageList, vecLineInfo>>

Next ==
  \/ RegionsNext /\ UNCHANGED lineVars
  \/ FindPages
  \/ CountLines
  \/ AbortWithoutLines
  \/ SelectTopLines

Spec == Init /\ [][Next]_vars
-----------------------------------------------------------------------------
(* Properties.                                                             *)

\* The accesses to region k from address low on.
AccessesFrom(k, low, size) ==
  {i \in Accesses(Addrs(final[k])) : low <= trace[i].addr /\ trace[i].addr < low + size}

\* Where the page, or line, of an address starts, counted from the region.
StartOf(k, a, size) == final[k].min + ((a - final[k].min) \div size) * size

PageAccesses(k, a) == Cardinality(AccessesFrom(k, StartOf(k, a, OSPageSize), OSPageSize))

\* An access to a region is in a hot page of it, unless so many pages have as
\* many accesses, or its page reaches over the end of the heap.  The analysis
\* is only given up at a region that starts less than a page below that end:
\* the last page of a region is never all that is left of a larger one.  Of two
\* regions that start at one address, one may be left without its pages
\* (main.cpp:228-267, 1292-1383, memoryanalysis.cpp:364).
HotPagesFound ==
  /\ step \in {"done", "aborted"} /\ StartsApart(zoomed) =>
       \A k \in DOMAIN final : \A i \in Accesses(Addrs(final[k])) :
         LET a == trace[i].addr
         IN  \/ PagesWith(PagesOf(k), a) # {}
             \/ StartOf(k, a, OSPageSize) + OSPageSize - 1 > heapAddrEnd
             \/ Cardinality({StartOf(k, trace[j].addr, OSPageSize) :
                   j \in {m \in Accesses(Addrs(final[k])) :
                            PageAccesses(k, trace[m].addr) >= PageAccesses(k, a)}})
                  > MaxPages
  /\ step = "aborted" =>
       \E k \in DOMAIN final : final[k].min + OSPageSize - 1 > heapAddrEnd

Apart == \A j, k \in DOMAIN final : j < k => final[j].max < final[k].min

\* The hot lines are those of the whole trace, although each region hands on
\* only its own and the counts of its pages share an array: each is one line
\* with all of its accesses, in the region, page and line that are printed and
\* that the trace has for it, and a line of a hot page that is not one of them
\* has no more accesses (main.cpp:1342-1408, memoryanalysis.cpp:323-386).  The
\* pages of a hot range reach over its end by up to one page, where they can
\* meet another region: a line is listed twice then.
HottestLines ==
  step = "done" /\ Apart =>
    /\ \A n \in DOMAIN topLines :
         LET l    == topLines[n]
             k    == l.regionId + 1
             hits == AccessesFrom(k, l.lowAddr, cacheLineWidth)
         IN  /\ l.accessCount = Cardinality(hits)
             /\ \A i \in hits : regionId[i] = l.regionId
             /\ l.lowAddr = PagesOf(k)[l.pageId + 1].min + l.lineId * cacheLineWidth
             /\ \A m \in 1 .. n - 1 :
                  /\ topLines[m].lowAddr # l.lowAddr
                  /\ topLines[m].accessCount >= l.accessCount
    /\ \A k \in DOMAIN final : \A i \in Accesses(Addrs(final[k])) :
         LET low == StartOf(k, trace[i].addr, cacheLineWidth)
         IN  \/ PagesWith(PagesOf(k), trace[i].addr) = {}
             \/ \E l \in ToSet(topLines) : l.lowAddr = low
             \/ /\ Len(topLines) = MaxLines
                /\ \A l \in ToSet(topLines) :
                     l.accessCount >= Cardinality(AccessesFrom(k, low, cacheLineWidth))
=============================================================================
