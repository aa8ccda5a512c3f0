--------------------------- MODULE SpatialAnalysis ---------------------------
(***************************************************************************)
(* spatialAnalysis of loc-anlys/src/memoryanalysis.cpp: one pass over the  *)
(* trace that computes, for the blocks of a memory area, reuse distances   *)
(* within samples (an LRU stack), lifetimes, and how the accesses to other *)
(* pages lie between those to a block (spatial affinity).                  *)
(*                                                                         *)
(* One action per access of the trace, by whether it starts a sample.      *)
(* Running averages are kept as the sequence of what was averaged; its     *)
(* length is the counter of the code.  An entry spatialRUD does not have   *)
(* yet is one of zeros.  Affinity options 2 and 3 have no caller.          *)
(***************************************************************************)
EXTENDS Integers, Sequences, FiniteSetsExt, SequencesExt

CONSTANTS
  Calls,         \* the arguments spatialAnalysis is called with
  Addrs,         \* load addresses of the trace
  SampleIDs,     \* sample ids of the trace
  HeapAddrEnd,   \* heapAddrEnd
  MaxHotLines,   \* numHotLines, numHotPages: 10 in the code
  LineWidth,     \* the width of a hot line, 64 in the code
  MaxLines       \* bound on the accesses of a trace

ASSUME AddressesAssumption ==
  /\ Addrs \subseteq Nat /\ SampleIDs \subseteq Nat
  /\ HeapAddrEnd \in Nat /\ MaxHotLines \in Nat /\ LineWidth \in Nat

ASSUME CallsAssumption ==
  \A c \in Calls :
    /\ c.option \in {0, 1, 4} /\ c.spatial \in BOOLEAN
    /\ c.min \in Nat /\ c.max \in Nat /\ c.min < c.max
    /\ c.blockSize \in Nat \ {0}
    /\ c.regions \in Seq(Nat \X Nat)
    /\ c.hotLines \in Seq(Nat) /\ Len(c.hotLines) <= MaxHotLines
    \* blockCount as the callers compute it
    /\ c.blockCount = IF c.option = 0 THEN Len(c.regions)
                      ELSE (c.max - c.min + c.blockSize - 1) \div c.blockSize
    /\ c.option = 0 => c.regions # << >>

VARIABLES
  phase,   \* "reading" or "done"
  call,    \* the arguments of this call
  input,   \* the page and sample of each access; the last is lastPage
  smpl,    \* the arrays that are reset at a new sample
  totals,  \* the arrays that are not
  pairs    \* spatialRUD

vars == <<phase, call, input, smpl, totals, pairs>>

-----------------------------------------------------------------------------
(* Pages: the blocks of the area, then what the other addresses fall in.   *)

STACK  == 255
NONHOT == 254

Inside(addr, range) == range[1] <= addr /\ addr <= range[2]

\* updateTraceRegion: the first region of the list, the stack above the heap.
RegionID(addr) ==
  LET in == {k \in DOMAIN call.regions : Inside(addr, call.regions[k])}
  IN IF in # {} THEN Min(in) - 1
     ELSE IF addr > HeapAddrEnd THEN STACK ELSE NONHOT

RefBlocks == 0 .. call.blockCount - 1

NumBlocks ==
  IF call.option = 4
  THEN call.blockCount + MaxHotLines + Len(call.regions) + 2
  ELSE call.blockCount + 1
Pages == 0 .. NumBlocks - 1

\* Slip: the address at the end of the area gets a block of its own.
BlockOfSpill(addr) == (addr - call.min) \div call.blockSize

\* The last block includes what the blocks leave over.
BlockOf(addr) ==
  LET block == (addr - call.min) \div call.blockSize
  IN IF block = call.blockCount THEN block - 1 ELSE block

HotLinesOf(addr) ==
  {k \in DOMAIN call.hotLines :
     call.hotLines[k] <= addr /\ addr < call.hotLines[k] + LineWidth}

\* Hot lines first, then the regions, non-hot and the stack.
OtherPage(addr) ==
  LET numRegions == Len(call.regions)
      region == IF RegionID(addr) = STACK THEN numRegions + 1
                ELSE IF RegionID(addr) = NONHOT THEN numRegions
                ELSE RegionID(addr)
  IN IF HotLinesOf(addr) # {}
     THEN call.blockCount + Min(HotLinesOf(addr)) - 1
     ELSE call.blockCount + Len(call.hotLines) + region

InArea(addr) == Inside(addr, <<call.min, call.max>>)

PageID(addr) ==
  IF call.option = 0
  THEN IF RegionID(addr) \in {STACK, NONHOT} THEN call.blockCount ELSE RegionID(addr)
  ELSE IF InArea(addr) THEN BlockOf(addr)
  ELSE IF call.option = 1 THEN call.blockCount ELSE OtherPage(addr)

-----------------------------------------------------------------------------
(* The arrays.                                                             *)

Zeros == [p \in Pages |-> 0]

\* inSampleAccess, sampleStack, inSampleTotalRUD, sampleLastAccess and
\* sampleLifetime.
FreshSample ==
  [access |-> Zeros, stack |-> << >>, rud |-> Zeros, last |-> Zeros,
   life |-> Zeros]

\* A SpatialRUD.
NoPair ==
  [next |-> 0, access |-> 0, distance |-> 0, mid |-> 0, totalMid |-> 0,
   smplMiddle |-> 0, smplAvg |-> << >>]

Init ==
  /\ phase = "reading"
  /\ call \in Calls
  /\ input = << >>
  /\ smpl = FreshSample
  /\ totals = [access |-> Zeros, life |-> Zeros, avgRUD |-> [p \in Pages |-> << >>]]
  /\ pairs = [ij \in RefBlocks \X Pages |-> NoPair]

time == Len(input) + 1

\* Slip: the pages above are not moved down.
MovedToTopSwap(stack, pos) ==
  [stack EXCEPT ![pos] = Last(stack), ![Len(stack)] = stack[pos]]

\* The page at pos moves to the top of the stack.
MovedToTop(stack, pos) == Append(RemoveAt(stack, pos), stack[pos])

\* The time since the last access to the page in the sample, 0 if there is
\* none.
RefDistance(s, p) == IF s.access[p] = 0 THEN 0 ELSE time - s.last[p]

\* An access to page p.  Its reuse distance is its depth in the stack.
Touched(s, p) ==
  LET pos == CHOOSE k \in DOMAIN s.stack : s.stack[k] = p
      hit == s.access[p] > 0
  IN [access |-> [s.access EXCEPT ![p] = @ + 1],
      stack  |-> IF hit THEN MovedToTop(s.stack, pos) ELSE Append(s.stack, p),
      rud    |-> IF hit THEN [s.rud EXCEPT ![p] = @ + Len(s.stack) - pos]
                        ELSE s.rud,
      last   |-> [s.last EXCEPT ![p] = time],
      life   |-> IF p \in RefBlocks
                 THEN [s.life EXCEPT ![p] = @ + RefDistance(s, p)]
                 ELSE s.life]

Counted(t, s, p) ==
  [t EXCEPT !.access[p] = @ + 1,
            !.life[p] = IF p \in RefBlocks THEN @ + RefDistance(s, p) ELSE @]

\* At an access to the block i of the pair, what is in the middle is added.
Flushed(pr, i, j, p) ==
  IF i # p THEN pr
  ELSE [pr EXCEPT !.totalMid = @ + pr.mid, !.smplMiddle = @ + pr.mid, !.mid = 0]

\* Slip: every access counts, not the first one after an access to i.
MetEvery(pr, i, j, p) ==
  IF j # p \/ smpl.last[i] = 0 THEN pr
  ELSE [pr EXCEPT !.distance = @ + time - smpl.last[i] - 1,
                  !.access = @ + 1, !.mid = @ + 1]

\* At an access to the page j of the pair after one to i in the sample: the
\* first one has a spatial distance to i.
Met(pr, i, j, p) ==
  IF j # p \/ smpl.last[i] = 0 THEN pr
  ELSE [pr EXCEPT
          !.distance = IF pr.mid = 0 THEN @ + time - smpl.last[i] - 1 ELSE @,
          !.access   = IF pr.mid = 0 THEN @ + 1 ELSE @,
          !.mid      = @ + 1]

\* The previous access was to i, this one is to j.
Followed(pr, i, j, p) ==
  IF i = Last(input).page /\ j = p THEN [pr EXCEPT !.next = @ + 1] ELSE pr

\* spatialRUD after an access to p that does not start a sample.
Related(p) ==
  [ij \in DOMAIN pairs |->
     LET i == ij[1]
         j == ij[2]
     IN Met(Flushed(Followed(pairs[ij], i, j, p), i, j, p), i, j, p)]

\* Slip: the middle counts go on in the next sample.
AveragedOnly(pr, life) ==
  IF life = 0 THEN pr
  ELSE [pr EXCEPT !.smplAvg = Append(@, <<pr.smplMiddle, life + 1>>)]

\* The end of a sample: the middle count over the lifetime is averaged.
Averaged(pr, life) ==
  [pr EXCEPT !.smplAvg = IF life = 0 THEN @
                         ELSE Append(@, <<pr.smplMiddle, life + 1>>),
             !.mid = 0, !.smplMiddle = 0]

AveragedPairs == [ij \in DOMAIN pairs |-> Averaged(pairs[ij], smpl.life[ij[1]])]

\* Slip: blocks with a single access get a lifetime.
ClosedLivesAll(t) ==
  [t EXCEPT !.life = [p \in Pages |-> IF smpl.access[p] # 0 THEN @[p] + 1 ELSE @[p]]]

\* The lifetime includes the first access.
ClosedLives(t) ==
  [t EXCEPT !.life = [p \in Pages |-> IF smpl.life[p] # 0 THEN @[p] + 1 ELSE @[p]]]

\* Slip: samples with a single access are averaged too.
AveragedRUDAll(t, of) ==
  [t EXCEPT !.avgRUD = [p \in Pages |->
     IF p \in of /\ smpl.access[p] > 0
     THEN Append(@[p], <<smpl.rud[p], smpl.access[p] - 1>>) ELSE @[p]]]

\* The reuse distances of the sample are averaged over its repeated accesses.
AveragedRUD(t, of) ==
  [t EXCEPT !.avgRUD = [p \in Pages |->
     IF p \in of /\ smpl.access[p] > 1
     THEN Append(@[p], <<smpl.rud[p], smpl.access[p] - 1>>) ELSE @[p]]]

-----------------------------------------------------------------------------
(* The pass over the trace.                                                *)

IsAccess(p, id) ==
  /\ phase = "reading"
  /\ Len(input) < MaxLines
  /\ input' = Append(input, [page |-> p, sample |-> id])
  /\ UNCHANGED <<phase, call>>

FirstAccess(addr, id) ==
  /\ input = << >>
  /\ IsAccess(PageID(addr), id)
  /\ smpl' = Touched(smpl, PageID(addr))
  /\ totals' = Counted(totals, smpl, PageID(addr))
  /\ UNCHANGED pairs

AccessInSample(addr, id) ==
  /\ input # << >>
  /\ id = Last(input).sample
  /\ IsAccess(PageID(addr), id)
  /\ smpl' = Touched(smpl, PageID(addr))
  /\ totals' = Counted(totals, smpl, PageID(addr))
  /\ pairs' = IF call.spatial THEN Related(PageID(addr)) ELSE pairs

\* The ids of samples only grow in a trace.
AccessOfNewSample(addr, id) ==
  /\ input # << >>
  /\ id > Last(input).sample
  /\ IsAccess(PageID(addr), id)
  /\ smpl' = Touched(FreshSample, PageID(addr))
  /\ totals' = Counted(AveragedRUD(ClosedLives(totals), Pages), FreshSample,
                       PageID(addr))
  /\ pairs' = AveragedPairs

\* The code after the loop, which leaves the lifetimes of the last sample one
\* short when no spatial result is asked for.
EndOfTrace ==
  /\ phase = "reading"
  /\ phase' = "done"
  /\ totals' = IF call.spatial THEN AveragedRUD(ClosedLives(totals), RefBlocks)
                               ELSE AveragedRUD(totals, RefBlocks)
  /\ pairs' = IF call.spatial THEN AveragedPairs ELSE pairs
  /\ UNCHANGED <<call, input, smpl>>

Next ==
  \/ \E addr \in Addrs, id \in SampleIDs :
       \/ FirstAccess(addr, id)
       \/ AccessInSample(addr, id)
       \/ AccessOfNewSample(addr, id)
  \/ EndOfTrace

Spec == Init /\ [][Next]_vars
-----------------------------------------------------------------------------
(* Properties.                                                             *)

Counts == [Pages -> Nat]
Terms  == Seq(Nat \X Nat)

\* The state is well formed: no array is indexed past its numBlocks elements.
TypeOK ==
  /\ phase \in {"reading", "done"}
  /\ call \in Calls
  /\ input \in Seq([page : Pages, sample : SampleIDs])
  /\ smpl \in [access : Counts, stack : Seq(Pages), rud : Counts,
               last : Counts, life : Counts]
  /\ totals \in [access : Counts, life : Counts, avgRUD : [Pages -> Terms]]
  /\ pairs \in [RefBlocks \X Pages ->
                  [next : Nat, access : Nat, distance : Nat, mid : Nat,
                   totalMid : Nat, smplMiddle : Nat, smplAvg : Terms]]

\* Reference blocks and affinity pages never share accesses: the blocks of the
\* area get exactly the accesses to it (memoryanalysis.cpp:567-570, 587), and
\* hot lines, regions, non-hot and stack addresses stay apart (:618-638).  No
\* array is indexed past its numBlocks elements.
ClassOf(addr) ==
  IF InArea(addr) THEN "area"
  ELSE IF HotLinesOf(addr) # {} THEN <<Min(HotLinesOf(addr))>>
  ELSE RegionID(addr)

PagesApart ==
  /\ TypeOK
  /\ \A addr \in Addrs :
       /\ PageID(addr) \in RefBlocks <=>
            IF call.option = 0
            THEN \E k \in DOMAIN call.regions : Inside(addr, call.regions[k])
            ELSE InArea(addr)
       /\ call.option = 4 => \A other \in Addrs :
            PageID(addr) = PageID(other) => ClassOf(addr) = ClassOf(other)

Positions  == DOMAIN input
Page(l)    == input[l].page
Sample(l)  == input[l].sample
Ids        == {Sample(l) : l \in Positions}
Current    == {id \in Ids : \A other \in Ids : other <= id}
Complete   == IF phase = "done" THEN Ids ELSE Ids \ Current
Acc(p, id) == {l \in Positions : Page(l) = p /\ Sample(l) = id}

\* The accesses to j after the last one to i before l, l excluded.
Before(l, i) == {k \in Acc(i, Sample(l)) : k < l}

\* The stack holds the pages of the current sample in the order of their last
\* access, each once (memoryanalysis.cpp:545-550, 645-662).
StackIsRecency ==
  LET Latest(p, id) == Max(Acc(p, id))
      s == smpl.stack
  IN \A id \in Current :
       /\ ToSet(s) = {Page(l) : l \in {m \in Positions : Sample(m) = id}}
       /\ \A j, k \in DOMAIN s : j < k => Latest(s[j], id) < Latest(s[k], id)

Repeats(p, id) == {l \in Acc(p, id) : Before(l, p) # {}}
PagesBetween(k, l) == {Page(m) : m \in k + 1 .. l - 1}
ReuseSum(p, id) ==
  SumFunction([l \in Repeats(p, id) |->
                 Cardinality(PagesBetween(Max(Before(l, p)), l))])

\* Sample ids from the least to the greatest.
InOrder(ids) ==
  CHOOSE s \in [1 .. Cardinality(ids) -> ids] :
    \A j, k \in DOMAIN s : j < k => s[j] < s[k]

\* A term for each of these samples, in order.
TermsOver(ids, Term(_)) ==
  LET s == InOrder(ids) IN [k \in DOMAIN s |-> Term(s[k])]

\* Reuse distances are, for each repeated access in a sample, the number of
\* other pages since the access before: in the running sums of the sample and
\* in the averages over samples, which leave out those where a page is not
\* repeated (memoryanalysis.cpp:537-544, 645-666, 738-745).
ReuseDistances ==
  /\ \A id \in Current, p \in Pages : smpl.rud[p] = ReuseSum(p, id)
  /\ \A p \in Pages :
       (phase = "reading" \/ p \in RefBlocks) =>
         totals.avgRUD[p] =
           TermsOver({id \in Complete : Repeats(p, id) # {}},
                     LAMBDA id : <<ReuseSum(p, id), Cardinality(Repeats(p, id))>>)

LifeIn(p, id) == IF Acc(p, id) = {} THEN 0 ELSE Max(Acc(p, id)) - Min(Acc(p, id))

\* The lifetime of a block is what lies between its first and its last access
\* of each sample, both included if they differ; never across samples
\* (memoryanalysis.cpp:517-523, 728-731, 752-758).
LifetimesWithinSamples ==
  \A p \in RefBlocks :
    totals.life[p] =
      SumFunction([id \in Ids |-> LifeIn(p, id)])
      + Cardinality({id \in IF call.spatial THEN Complete ELSE Ids \ Current :
                       LifeIn(p, id) > 0})

MiddleIn(i, j, id) ==
  Cardinality({l \in Acc(j, id) : /\ Before(l, i) # {}
                                  /\ \E k \in Acc(i, id) : l < k})

\* The middle counts of a pair are the accesses to j strictly between the
\* first and the last access to i in the sample, and they are averaged over
\* the samples where i has a lifetime (memoryanalysis.cpp:524-535, 683-702,
\* 720-721, 759-769).
MiddleCounts ==
  call.spatial => \A i \in RefBlocks, j \in Pages :
    LET pr == pairs[<<i, j>>]
    IN /\ pr.totalMid = SumFunction([id \in Ids |-> MiddleIn(i, j, id)])
       /\ phase = "reading" =>
            \A id \in Current : pr.smplMiddle = MiddleIn(i, j, id)
       /\ pr.smplAvg =
            TermsOver({id \in Complete : LifeIn(i, id) > 0},
                      LAMBDA id : <<MiddleIn(i, j, id), LifeIn(i, id) + 1>>)

\* The accesses to j that are the first since an access to i.
FirstsAfter(i, j) ==
  {l \in Positions :
     /\ Page(l) = j
     /\ Before(l, i) # {}
     /\ \A k \in Before(l, j) : i # j => k < Max(Before(l, i))}

\* Spatial probability and interval count, for each access to i, the next
\* access to j in the sample before i again, and the accesses between the two
\* (memoryanalysis.cpp:704-726).
IntervalsToNext ==
  call.spatial => \A i \in RefBlocks, j \in Pages :
    LET pr == pairs[<<i, j>>]
    IN /\ pr.access = Cardinality(FirstsAfter(i, j))
       /\ pr.distance =
            SumFunction([l \in FirstsAfter(i, j) |-> l - Max(Before(l, i)) - 1])

\* spatialNext counts neighbours of one sample, never the last access of a
\* sample with the first one of the next (memoryanalysis.cpp:667-681).
NextWithinSamples ==
  call.spatial => \A i \in RefBlocks, j \in Pages :
    pairs[<<i, j>>].next =
      Cardinality({l \in Positions :
        /\ l + 1 \in Positions /\ Sample(l) = Sample(l + 1)
        /\ Page(l) = i /\ Page(l + 1) = j})

\* Both: what pairs say of next accesses is what the samples have.
NextAccesses == IntervalsToNext /\ NextWithinSamples
=============================================================================
