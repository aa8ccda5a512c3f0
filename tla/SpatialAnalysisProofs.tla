------------------------ MODULE SpatialAnalysisProofs ------------------------
(***************************************************************************)
(* Proofs about SpatialAnalysis, for any calls, traces and addresses.      *)
(*                                                                         *)
(* Every address falls in one of the numBlocks pages. The inductive        *)
(* invariant SpatialInv adds to the types what the arrays of a sample say  *)
(* of its accesses (RecencyOf), page by page; that the stack is in the     *)
(* order of the last accesses follows. On top of it, PairInv says that     *)
(* what is counted for a pair of pages are sets of accesses, and           *)
(* AccountInv that the arrays of a sample, the totals and the averages are *)
(* the sums over its accesses and over the samples that have ended.        *)
(***************************************************************************)
EXTENDS SpatialAnalysis, SetsOfNumbers, SequenceTheorems

-----------------------------------------------------------------------------
(* Arithmetic of blocks.                                                   *)

\* The integer quotient of a and b.
LEMMA Quotient ==
  ASSUME NEW a \in Nat, NEW b \in Nat \ {0}
  PROVE  /\ a \div b \in Nat
         /\ b * (a \div b) <= a
         /\ a < b * (a \div b) + b
OBVIOUS

\* Multiples of b are in the order of their factors.
LEMMA FactorOrder ==
  ASSUME NEW b \in Nat \ {0}, NEW m \in Nat, NEW n \in Nat, b * m <= b * n
  PROVE  m <= n
<1> SUFFICES ASSUME m > n PROVE FALSE
  OBVIOUS
<1> DEFINE k == m - n - 1
<1>1. k \in Nat /\ m = n + 1 + k
  OBVIOUS
<1>2. b * m = b * n + b + b * k
  BY <1>1
<1>3. b * k \in Nat /\ b * n \in Nat
  BY <1>1
<1> QED BY <1>2, <1>3

\* Rounding up: so many blocks of size b hold d addresses.
LEMMA BlocksHold ==
  ASSUME NEW d \in Nat \ {0}, NEW b \in Nat \ {0}, NEW a \in 0 .. d
  PROVE  /\ (d + b - 1) \div b \in Nat \ {0}
         /\ a \div b <= (d + b - 1) \div b
<1> DEFINE n == (d + b - 1) \div b
           m == a \div b
<1>1. d + b - 1 \in Nat /\ a \in Nat
  OBVIOUS
<1>2. n \in Nat /\ d + b - 1 < b * n + b
  BY <1>1, Quotient
<1>3. m \in Nat /\ b * m <= a
  BY <1>1, Quotient
<1> HIDE DEF n, m
<1>4. b * n \in Nat /\ b * m \in Nat
  BY <1>2, <1>3
<1>5. d <= b * n
  BY <1>2, <1>4
<1>6. n # 0
  <2>1. b * 0 = 0
    OBVIOUS
  <2> QED BY <1>5, <2>1
<1>7. b * m <= b * n
  BY <1>3, <1>4, <1>5
<1>8. m <= n
  BY <1>2, <1>3, <1>7, FactorOrder
<1> QED BY <1>2, <1>6, <1>8 DEF n, m

-----------------------------------------------------------------------------
(* The page of an address.                                                 *)

LEMMA CallTypes ==
  ASSUME call \in Calls
  PROVE  /\ call.option \in {0, 1, 4}
         /\ call.min \in Nat /\ call.max \in Nat /\ call.min < call.max
         /\ call.blockSize \in Nat \ {0}
         /\ call.regions \in Seq(Nat \X Nat) /\ Len(call.regions) \in Nat
         /\ call.hotLines \in Seq(Nat) /\ Len(call.hotLines) \in 0 .. MaxHotLines
         /\ call.option = 0 => call.blockCount = Len(call.regions)
         /\ call.option # 0 =>
              call.blockCount =
                (call.max - call.min + call.blockSize - 1) \div call.blockSize
         /\ call.option = 0 => Len(call.regions) > 0
         /\ DOMAIN call.regions = 1 .. Len(call.regions)
         /\ DOMAIN call.hotLines = 1 .. Len(call.hotLines)
         /\ Len(call.hotLines) \in Nat
<1>1. call.regions \in Seq(Nat \X Nat) /\ call.hotLines \in Seq(Nat)
  BY CallsAssumption
<1>2. Len(call.regions) \in Nat /\ Len(call.hotLines) \in Nat
  BY <1>1
<1>3. Len(call.hotLines) <= MaxHotLines /\ MaxHotLines \in Nat
  BY CallsAssumption, AddressesAssumption
<1>4. call.option = 0 => Len(call.regions) > 0
  BY <1>1, <1>2, CallsAssumption
<1>5. /\ DOMAIN call.regions = 1 .. Len(call.regions)
      /\ DOMAIN call.hotLines = 1 .. Len(call.hotLines)
  BY <1>1
<1> QED BY <1>1, <1>2, <1>3, <1>4, <1>5, CallsAssumption

LEMMA BlockCountType ==
  ASSUME call \in Calls
  PROVE  call.blockCount \in Nat \ {0}
<1> USE CallTypes
<1>1. CASE call.option = 0
  BY <1>1
<1>2. CASE call.option # 0
  <2>1. call.max - call.min \in Nat \ {0} /\ 0 \in 0 .. call.max - call.min
    OBVIOUS
  <2>2. (call.max - call.min + call.blockSize - 1) \div call.blockSize \in Nat \ {0}
    BY <2>1, BlocksHold
  <2> QED BY <1>2, <2>2
<1> QED BY <1>1, <1>2

LEMMA PagesType ==
  ASSUME call \in Calls
  PROVE  NumBlocks \in Nat /\ RefBlocks \subseteq Pages /\ Pages \subseteq Nat
<1>1. /\ call.blockCount \in Nat /\ MaxHotLines \in Nat /\ Len(call.regions) \in Nat
  BY CallTypes, BlockCountType, AddressesAssumption
<1>2. NumBlocks \in Nat /\ call.blockCount < NumBlocks
  BY <1>1 DEF NumBlocks
<1> QED BY <1>1, <1>2 DEF RefBlocks, Pages

\* An address of the area is in one of its blocks.
LEMMA BlockOfType ==
  ASSUME call \in Calls, call.option # 0, NEW addr \in Nat,
         InArea(addr)
  PROVE  BlockOf(addr) \in RefBlocks
<1> DEFINE a == addr - call.min
           d == call.max - call.min
           block == a \div call.blockSize
<1>1. call.min <= addr /\ addr <= call.max
  BY DEF InArea, Inside
<1>2. d \in Nat \ {0} /\ a \in 0 .. d /\ a \in Nat
  BY <1>1, CallTypes
<1>3. call.blockSize \in Nat \ {0}
  BY CallTypes
<1>4. block <= (d + call.blockSize - 1) \div call.blockSize
  BY <1>2, <1>3, BlocksHold
<1>5. block <= call.blockCount
  BY <1>4, CallTypes
<1>6. block \in Nat
  BY <1>2, <1>3, Quotient
<1>7. BlockOf(addr) = IF block = call.blockCount THEN block - 1 ELSE block
  BY DEF BlockOf
<1> HIDE DEF block
<1> QED BY <1>5, <1>6, <1>7, BlockCountType DEF RefBlocks

\* The first index of a sequence with some property.
LEMMA FirstIndex ==
  ASSUME NEW n \in Nat, NEW S, S \subseteq 1 .. n, S # {}
  PROVE  Min(S) \in S /\ Min(S) \in 1 .. n /\ \A k \in S : Min(S) <= k
<1>1. S \subseteq Nat
  OBVIOUS
<1>2. \E x \in S : \A y \in S : x <= y
  BY <1>1, LeastElement
<1>3. Min(S) \in S /\ \A y \in S : Min(S) <= y
  BY <1>2 DEF Min
<1> QED BY <1>3

\* updateTraceRegion: a region in which the address is, or one of two others.
LEMMA RegionIDType ==
  ASSUME call \in Calls, NEW addr \in Nat
  PROVE  \/ /\ RegionID(addr) \in 0 .. Len(call.regions) - 1
            /\ Inside(addr, call.regions[RegionID(addr) + 1])
         \/ /\ RegionID(addr) \in {STACK, NONHOT}
            /\ \A k \in DOMAIN call.regions : ~Inside(addr, call.regions[k])
<1> DEFINE in == {k \in DOMAIN call.regions : Inside(addr, call.regions[k])}
<1>1. RegionID(addr) = IF in # {} THEN Min(in) - 1
                       ELSE IF addr > HeapAddrEnd THEN STACK ELSE NONHOT
  BY DEF RegionID
<1>2. CASE in # {}
  <2>1. Len(call.regions) \in Nat /\ in \subseteq 1 .. Len(call.regions)
    BY CallTypes
  <2>2. Min(in) \in in /\ Min(in) \in 1 .. Len(call.regions)
    BY <1>2, <2>1, FirstIndex
  <2>3. RegionID(addr) = Min(in) - 1
    BY <1>1, <1>2
  <2>4. RegionID(addr) + 1 = Min(in) /\ RegionID(addr) \in 0 .. Len(call.regions) - 1
    BY <2>1, <2>2, <2>3
  <2> QED BY <2>2, <2>4
<1>3. CASE in = {}
  BY <1>1, <1>3
<1> QED BY <1>2, <1>3

LEMMA HotLinesType ==
  ASSUME call \in Calls, NEW addr \in Nat, HotLinesOf(addr) # {}
  PROVE  Min(HotLinesOf(addr)) \in 1 .. Len(call.hotLines)
<1>1. Len(call.hotLines) \in Nat /\ HotLinesOf(addr) \subseteq 1 .. Len(call.hotLines)
  BY CallTypes DEF HotLinesOf
<1> QED BY <1>1, FirstIndex

LEMMA OtherPageType ==
  ASSUME call \in Calls, call.option = 4, NEW addr \in Nat
  PROVE  OtherPage(addr) \in Pages \ RefBlocks
<1> DEFINE bc == call.blockCount
           nl == Len(call.hotLines)
           nr == Len(call.regions)
<1>1. bc \in Nat /\ MaxHotLines \in Nat /\ nr \in Nat /\ nl \in Nat /\ nl <= MaxHotLines
  BY CallTypes, BlockCountType, AddressesAssumption
<1>2. NumBlocks = bc + MaxHotLines + nr + 2
  BY DEF NumBlocks
<1>3. OtherPage(addr) \in bc .. bc + nl + nr + 1
  <2>1. CASE HotLinesOf(addr) # {}
    <3>1. Min(HotLinesOf(addr)) \in 1 .. nl
      BY <2>1, HotLinesType
    <3>2. OtherPage(addr) = bc + Min(HotLinesOf(addr)) - 1
      BY <2>1 DEF OtherPage
    <3> QED BY SMTT(30), <1>1, <3>1, <3>2
  <2>2. CASE HotLinesOf(addr) = {}
    <3> DEFINE id == RegionID(addr)
               region == IF id = STACK THEN nr + 1 ELSE IF id = NONHOT THEN nr ELSE id
    <3>1. id \in 0 .. nr - 1 \/ id \in {STACK, NONHOT}
      BY RegionIDType
    <3>2. region \in 0 .. nr + 1
      BY <1>1, <3>1
    <3>3. OtherPage(addr) = bc + nl + region
      BY <2>2 DEF OtherPage
    <3> HIDE DEF region
    <3> QED BY SMTT(30), <1>1, <3>2, <3>3
  <2> QED BY <2>1, <2>2
<1> HIDE DEF bc, nl, nr
<1>4. OtherPage(addr) \in 0 .. NumBlocks - 1 /\ OtherPage(addr) >= bc
  BY <1>1, <1>2, <1>3
<1> QED BY <1>1, <1>4 DEF Pages, RefBlocks, bc

\* No address has a page that the arrays have no element for.
LEMMA PageIDType ==
  ASSUME call \in Calls, NEW addr \in Nat
  PROVE  PageID(addr) \in Pages
<1>1. RefBlocks \subseteq Pages
  BY PagesType
<1>2. call.option # 4 => call.blockCount \in Pages
  BY CallTypes, BlockCountType DEF Pages, NumBlocks
<1>3. CASE call.option = 0
  <2>1. RegionID(addr) \in RefBlocks \/ RegionID(addr) \in {STACK, NONHOT}
    BY <1>3, RegionIDType, CallTypes DEF RefBlocks
  <2> QED BY <1>1, <1>2, <1>3, <2>1 DEF PageID
<1>4. CASE call.option # 0 /\ InArea(addr)
  BY <1>1, <1>4, BlockOfType DEF PageID
<1>5. CASE call.option = 1 /\ ~InArea(addr)
  BY <1>2, <1>5 DEF PageID
<1>6. CASE call.option = 4 /\ ~InArea(addr)
  BY <1>6, OtherPageType DEF PageID
<1> QED BY <1>3, <1>4, <1>5, <1>6, CallTypes
-----------------------------------------------------------------------------
(* The invariant.                                                          *)

Inputs    == [page : Pages, sample : SampleIDs]
Samples   == [access : Counts, stack : Seq(Pages), rud : Counts, last : Counts,
              life : Counts]
AllTotals == [access : Counts, life : Counts, avgRUD : [Pages -> Terms]]
PairTypes == [next : Nat, access : Nat, distance : Nat, mid : Nat,
              totalMid : Nat, smplMiddle : Nat, smplAvg : Terms]

\* The arrays s say of the accesses of sample id in the trace in: which pages
\* are on the stack, in which order, and which access was a page's last one.
StackHasPages(s) ==
  \A p \in Pages : s.access[p] > 0 <=> \E k \in DOMAIN s.stack : s.stack[k] = p
StackByLast(s) ==
  \A j, k \in DOMAIN s.stack : j < k => s.last[s.stack[j]] < s.last[s.stack[k]]
LastIsAccess(s, in, id) ==
  \A p \in Pages :
    /\ s.access[p] = 0 => s.last[p] = 0
    /\ s.access[p] > 0 => /\ s.last[p] \in DOMAIN in
                          /\ in[s.last[p]].page = p
                          /\ in[s.last[p]].sample = id
LastIsLatest(s, in, id) ==
  \A l \in DOMAIN in :
    in[l].sample = id => s.access[in[l].page] > 0 /\ l <= s.last[in[l].page]

RecencyOf(s, in, id) ==
  /\ StackHasPages(s) /\ StackByLast(s)
  /\ LastIsAccess(s, in, id) /\ LastIsLatest(s, in, id)

SortedSamples ==
  \A k, l \in DOMAIN input : k <= l => input[k].sample <= input[l].sample

SpatialInv ==
  /\ TypeOK
  /\ SortedSamples
  /\ input = << >> => smpl = FreshSample
  /\ input # << >> => RecencyOf(smpl, input, Last(input).sample)

\* The arrays of a sample without an access.
LEMMA FreshType ==
  ASSUME call \in Calls
  PROVE  FreshSample \in Samples
BY PagesType DEF FreshSample, Samples, Zeros, Counts

LEMMA FreshRecency ==
  ASSUME call \in Calls, NEW id, \A l \in DOMAIN input : input[l].sample # id
  PROVE  RecencyOf(FreshSample, input, id)
<1>1. StackHasPages(FreshSample)
  BY DEF StackHasPages, FreshSample, Zeros
<1>2. StackByLast(FreshSample)
  BY DEF StackByLast, FreshSample
<1>3. LastIsAccess(FreshSample, input, id)
  BY DEF LastIsAccess, FreshSample, Zeros
<1>4. LastIsLatest(FreshSample, input, id)
  BY DEF LastIsLatest
<1> QED BY <1>1, <1>2, <1>3, <1>4 DEF RecencyOf

\* What the stack is after a hit.
LEMMA MovedToTopIs ==
  ASSUME NEW S, NEW s \in Seq(S), NEW pos \in 1 .. Len(s)
  PROVE  /\ MovedToTop(s, pos) \in Seq(S)
         /\ Len(MovedToTop(s, pos)) = Len(s)
         /\ \A k \in 1 .. Len(s) :
              MovedToTop(s, pos)[k] = IF k < pos THEN s[k]
                                      ELSE IF k < Len(s) THEN s[k + 1] ELSE s[pos]
<1> DEFINE u == SubSeq(s, 1, pos - 1)
           v == SubSeq(s, pos + 1, Len(s))
<1>1. Len(s) \in Nat /\ pos \in Nat /\ 1 <= pos /\ pos <= Len(s) /\ s[pos] \in S
  OBVIOUS
<1>2. u \in Seq(S) /\ Len(u) = pos - 1 /\ \A k \in 1 .. pos - 1 : u[k] = s[k]
  OBVIOUS
<1>3. /\ v \in Seq(S) /\ Len(v) = Len(s) - pos
      /\ \A k \in 1 .. Len(s) - pos : v[k] = s[pos + k]
  OBVIOUS
<1>4. MovedToTop(s, pos) = Append(u \o v, s[pos])
  BY DEF MovedToTop, RemoveAt
<1> HIDE DEF u, v
<1> DEFINE w == u \o v
<1>5. w \in Seq(S)
  BY <1>2, <1>3
<1>6. Len(w) = Len(s) - 1
  <2>1. Len(w) = Len(u) + Len(v)
    BY <1>2, <1>3, ConcatProperties
  <2> HIDE DEF w
  <2> QED BY <1>1, <1>2, <1>3, <2>1
<1>7. ASSUME NEW k \in 1 .. Len(s) - 1
      PROVE  w[k] = IF k < pos THEN s[k] ELSE s[k + 1]
  <2>1. k \in Nat /\ 1 <= k /\ k <= Len(s) - 1
    BY <1>1
  <2>2. CASE k < pos
    <3>1. k \in 1 .. pos - 1 /\ k <= Len(u)
      BY <1>1, <1>2, <2>1, <2>2
    <3>2. w[k] = u[k]
      BY <1>2, <1>3, <2>1, <3>1, ConcatProperties
    <3> QED BY <1>2, <2>2, <3>1, <3>2
  <2>3. CASE ~(k < pos)
    <3>1. k - (pos - 1) \in 1 .. Len(s) - pos /\ pos + (k - (pos - 1)) = k + 1
      BY <1>1, <2>1, <2>3
    <3>2. w[k] = v[k - (pos - 1)]
      <4>1. k \in 1 .. Len(u) + Len(v) /\ ~(k <= Len(u))
        BY <1>1, <1>2, <1>3, <2>1, <2>3
      <4>2. w[k] = v[k - Len(u)]
        BY <1>2, <1>3, <4>1, ConcatProperties
      <4> QED BY <1>2, <4>2
    <3>3. v[k - (pos - 1)] = s[k + 1]
      BY <1>3, <3>1
    <3> QED BY <2>3, <3>2, <3>3
  <2> QED BY <2>2, <2>3
<1> HIDE DEF w
<1>8. MovedToTop(s, pos) = Append(w, s[pos])
  BY <1>4 DEF w
<1>9. ASSUME NEW k \in 1 .. Len(s)
      PROVE  Append(w, s[pos])[k] = IF k < pos THEN s[k]
                                    ELSE IF k < Len(s) THEN s[k + 1] ELSE s[pos]
  <2>1. k \in Nat /\ 1 <= k /\ k <= Len(s)
    BY <1>1
  <2>2. CASE k < Len(s)
    <3>1. k \in 1 .. Len(s) - 1 /\ k \in 1 .. Len(w)
      BY <1>1, <1>6, <2>1, <2>2
    <3>2. Append(w, s[pos])[k] = w[k]
      BY <1>1, <1>5, <3>1
    <3> QED BY <1>7, <2>2, <3>1, <3>2
  <2>3. CASE ~(k < Len(s))
    <3>1. k = Len(w) + 1 /\ ~(k < pos)
      BY <1>1, <1>6, <2>1, <2>3
    <3>2. Append(w, s[pos])[k] = s[pos]
      BY <1>1, <1>5, <3>1
    <3> QED BY <2>3, <3>1, <3>2
  <2> QED BY <2>2, <2>3
<1>10. Append(w, s[pos]) \in Seq(S) /\ Len(Append(w, s[pos])) = Len(s)
  BY <1>1, <1>5, <1>6
<1> QED BY <1>8, <1>9, <1>10

-----------------------------------------------------------------------------
(* An access to a page.                                                    *)

\* The time of an access to a page follows that of the one before.
LEMMA RefDistanceType ==
  ASSUME call \in Calls, input \in Seq(Inputs), NEW s \in Samples, NEW id,
         LastIsAccess(s, input, id), NEW p \in Pages
  PROVE  RefDistance(s, p) \in Nat
<1>1. s.access[p] \in Nat /\ s.last[p] \in Nat
  BY DEF Samples, Counts
<1>2. Len(input) \in Nat /\ DOMAIN input = 1 .. Len(input)
  OBVIOUS
<1>3. CASE s.access[p] = 0
  BY <1>3 DEF RefDistance
<1>4. CASE s.access[p] # 0
  <2>1. s.last[p] \in 1 .. Len(input)
    BY <1>1, <1>2, <1>4 DEF LastIsAccess
  <2>2. RefDistance(s, p) = Len(input) + 1 - s.last[p]
    BY <1>1, <1>2, <1>4 DEF RefDistance, time
  <2> QED BY <1>1, <1>2, <2>1, <2>2
<1> QED BY <1>3, <1>4

\* An access to a page that is not on the stack.
LEMMA MissIs ==
  ASSUME call \in Calls, NEW s \in Samples, NEW p \in Pages, ~(s.access[p] > 0)
  PROVE  /\ Touched(s, p).stack = Append(s.stack, p)
         /\ Touched(s, p).rud = s.rud
BY DEF Touched

\* An access to a page that has a place on the stack, and no other one.
LEMMA HitIs ==
  ASSUME call \in Calls, input \in Seq(Inputs), NEW s \in Samples, NEW id,
         RecencyOf(s, input, id), NEW p \in Pages, s.access[p] > 0
  PROVE  \E pos \in 1 .. Len(s.stack) :
           /\ s.stack[pos] = p
           /\ \A k \in 1 .. Len(s.stack) : k # pos => s.stack[k] # p
           /\ Touched(s, p).stack = MovedToTop(s.stack, pos)
           /\ Touched(s, p).rud \in [Pages -> Nat]
<1> DEFINE pos == CHOOSE k \in DOMAIN s.stack : s.stack[k] = p
<1>1. s.stack \in Seq(Pages) /\ s.last \in [Pages -> Nat]
  BY DEF Samples, Counts
<1>2. Len(s.stack) \in Nat /\ DOMAIN s.stack = 1 .. Len(s.stack)
  BY <1>1
<1>3. \E k \in DOMAIN s.stack : s.stack[k] = p
  BY DEF RecencyOf, StackHasPages
<1>4. pos \in DOMAIN s.stack /\ s.stack[pos] = p
  BY <1>3
<1>5. Touched(s, p).stack = MovedToTop(s.stack, pos)
  BY DEF Touched
<1>6. Touched(s, p).rud = [s.rud EXCEPT ![p] = @ + Len(s.stack) - pos]
  BY DEF Touched
<1> HIDE DEF pos
<1>7. Touched(s, p).rud \in [Pages -> Nat]
  <2>1. s.rud \in [Pages -> Nat] /\ s.rud[p] \in Nat
    BY DEF Samples, Counts
  <2>2. s.rud[p] + Len(s.stack) - pos \in Nat
    BY <1>2, <1>4, <2>1
  <2> QED BY <1>6, <2>1, <2>2
<1>8. ASSUME NEW k \in 1 .. Len(s.stack), k # pos, s.stack[k] = p
      PROVE  FALSE
  <2>1. k < pos \/ pos < k
    BY <1>2, <1>4, <1>8
  <2>2. s.last[p] < s.last[p]
    BY <1>2, <1>4, <1>8, <2>1 DEF RecencyOf, StackByLast
  <2>3. s.last[p] \in Nat
    BY <1>1
  <2> QED BY <2>2, <2>3
<1> QED BY <1>2, <1>4, <1>5, <1>7, <1>8

\* What either access does.
LEMMA TouchedIs ==
  ASSUME call \in Calls, input \in Seq(Inputs), NEW s \in Samples, NEW p \in Pages
  PROVE  /\ Touched(s, p).access = [s.access EXCEPT ![p] = @ + 1]
         /\ Touched(s, p).last = [s.last EXCEPT ![p] = Len(input) + 1]
         /\ Touched(s, p).life = IF p \in RefBlocks
                                 THEN [s.life EXCEPT ![p] = @ + RefDistance(s, p)]
                                 ELSE s.life
         /\ Touched(s, p) = [access |-> Touched(s, p).access,
                             stack  |-> Touched(s, p).stack,
                             rud    |-> Touched(s, p).rud,
                             last   |-> Touched(s, p).last,
                             life   |-> Touched(s, p).life]
BY DEF Touched, time

LEMMA TouchedType ==
  ASSUME call \in Calls, input \in Seq(Inputs), NEW s \in Samples, NEW id,
         RecencyOf(s, input, id), NEW p \in Pages
  PROVE  Touched(s, p) \in Samples
<1> DEFINE t == Touched(s, p)
<1>1. /\ s.access \in [Pages -> Nat] /\ s.last \in [Pages -> Nat]
      /\ s.rud \in [Pages -> Nat] /\ s.life \in [Pages -> Nat]
      /\ s.stack \in Seq(Pages)
  BY DEF Samples, Counts
<1>2. Len(input) + 1 \in Nat /\ RefDistance(s, p) \in Nat
  BY RefDistanceType DEF RecencyOf
<1>3. t.access \in [Pages -> Nat]
  <2>1. t.access = [s.access EXCEPT ![p] = @ + 1]
    BY TouchedIs
  <2> QED BY <1>1, <2>1
<1>4. t.last \in [Pages -> Nat]
  <2>1. t.last = [s.last EXCEPT ![p] = Len(input) + 1]
    BY TouchedIs
  <2> QED BY <1>1, <1>2, <2>1
<1>5. t.life \in [Pages -> Nat]
  <2>1. \/ t.life = [s.life EXCEPT ![p] = @ + RefDistance(s, p)]
        \/ t.life = s.life
    BY TouchedIs
  <2>2. s.life[p] + RefDistance(s, p) \in Nat
    BY <1>1, <1>2
  <2> QED BY <1>1, <2>1, <2>2
<1>6. t.stack \in Seq(Pages) /\ t.rud \in [Pages -> Nat]
  <2>1. CASE s.access[p] > 0
    <3>1. PICK pos \in 1 .. Len(s.stack) :
            /\ s.stack[pos] = p
            /\ \A k \in 1 .. Len(s.stack) : k # pos => s.stack[k] # p
            /\ t.stack = MovedToTop(s.stack, pos)
            /\ t.rud \in [Pages -> Nat]
      BY <2>1, HitIs
    <3>2. MovedToTop(s.stack, pos) \in Seq(Pages)
      BY <1>1, MovedToTopIs
    <3> QED BY <3>1, <3>2
  <2>2. CASE ~(s.access[p] > 0)
    <3>1. t.stack = Append(s.stack, p) /\ t.rud = s.rud
      BY <2>2, MissIs
    <3> QED BY <1>1, <3>1
  <2> QED BY <2>1, <2>2
<1>7. t = [access |-> t.access, stack |-> t.stack, rud |-> t.rud,
           last |-> t.last, life |-> t.life]
  BY TouchedIs
<1> HIDE DEF t
<1>8. t \in Samples
  BY <1>3, <1>4, <1>5, <1>6, <1>7 DEF Samples, Counts
<1> QED BY <1>8 DEF t

\* The stack after an access to p: the places before the last one are those of
\* other pages, in the order they had.
LEMMA TouchedStack ==
  ASSUME call \in Calls, input \in Seq(Inputs), NEW s \in Samples, NEW id,
         RecencyOf(s, input, id), NEW p \in Pages
  PROVE  \E n \in Nat : \E m \in [1 .. n -> 1 .. Len(s.stack)] :
           /\ DOMAIN Touched(s, p).stack = 1 .. n + 1
           /\ Touched(s, p).stack[n + 1] = p
           /\ \A k \in 1 .. n : Touched(s, p).stack[k] = s.stack[m[k]]
           /\ \A k \in 1 .. n : s.stack[m[k]] # p
           /\ \A j, k \in 1 .. n : j < k => m[j] < m[k]
           /\ \A i \in 1 .. Len(s.stack) :
                s.stack[i] # p => \E k \in 1 .. n : m[k] = i
<1> DEFINE t == Touched(s, p).stack
           L == Len(s.stack)
<1>1. s.stack \in Seq(Pages) /\ L \in Nat /\ DOMAIN s.stack = 1 .. L
  BY DEF Samples
<1>2. Touched(s, p).stack \in Seq(Pages)
  BY TouchedType DEF Samples
<1>3. CASE s.access[p] > 0
  <2>1. PICK pos \in 1 .. Len(s.stack) :
          /\ s.stack[pos] = p
          /\ \A k \in 1 .. Len(s.stack) : k # pos => s.stack[k] # p
          /\ Touched(s, p).stack = MovedToTop(s.stack, pos)
          /\ Touched(s, p).rud \in [Pages -> Nat]
    BY <1>3, HitIs
  <2>2. t = MovedToTop(s.stack, pos)
    BY <2>1
  <2>3. pos \in 1 .. L /\ pos \in Nat /\ L - 1 \in Nat
    BY <1>1
  <2>4. /\ Len(t) = L
        /\ \A k \in 1 .. L : t[k] = IF k < pos THEN s.stack[k]
                                    ELSE IF k < L THEN s.stack[k + 1] ELSE s.stack[pos]
    <3>1. /\ Len(MovedToTop(s.stack, pos)) = Len(s.stack)
          /\ \A k \in 1 .. Len(s.stack) :
               MovedToTop(s.stack, pos)[k] =
                 IF k < pos THEN s.stack[k]
                 ELSE IF k < Len(s.stack) THEN s.stack[k + 1]
                 ELSE s.stack[pos]
      <4> HIDE DEF t, L
      <4> QED BY <1>1, MovedToTopIs
    <3> QED BY <2>2, <3>1
  <2>5. DOMAIN t = 1 .. L
    BY <1>2, <2>4
  <2> HIDE DEF t, L
  <2> DEFINE n == L - 1
             m == [k \in 1 .. n |-> IF k < pos THEN k ELSE k + 1]
  <2>6. m \in [1 .. n -> 1 .. L]
    BY <1>1, <2>3
  <2>7. n \in Nat /\ n + 1 = L /\ DOMAIN t = 1 .. n + 1
    BY <1>1, <2>3, <2>5
  <2>8. t[n + 1] = p
    <3>1. L \in 1 .. L /\ ~(L < pos) /\ ~(L < L)
      BY <1>1, <2>3
    <3> QED BY <2>1, <2>4, <2>7, <3>1
  <2>9. ASSUME NEW k \in 1 .. n
        PROVE  t[k] = s.stack[m[k]] /\ s.stack[m[k]] # p
    <3>1. k \in 1 .. L /\ k < L /\ m[k] \in 1 .. L
      BY <1>1, <2>3, <2>6
    <3>2. m[k] # pos
      BY <2>3, <3>1
    <3>3. m[k] = IF k < pos THEN k ELSE k + 1
      OBVIOUS
    <3>4. t[k] = IF k < pos THEN s.stack[k] ELSE s.stack[k + 1]
      BY <2>4, <3>1
    <3> HIDE DEF m, n
    <3>5. t[k] = s.stack[m[k]]
      BY <3>3, <3>4
    <3> QED BY <2>1, <3>1, <3>2, <3>5 DEF L
  <2>10. \A j, k \in 1 .. n : j < k => m[j] < m[k]
    BY <1>1, <2>3
  <2>11. ASSUME NEW i \in 1 .. L, s.stack[i] # p
         PROVE  \E k \in 1 .. n : m[k] = i
    <3>1. i # pos
      BY <2>1, <2>11
    <3>2. CASE i < pos
      <4>1. i \in 1 .. n /\ m[i] = i
        BY <1>1, <2>3, <3>2
      <4> QED BY <4>1
    <3>3. CASE pos < i
      <4>1. i - 1 \in 1 .. n /\ m[i - 1] = i
        BY <1>1, <2>3, <3>3
      <4> QED BY <4>1
    <3> QED BY <1>1, <2>3, <3>1, <3>2, <3>3
  <2> HIDE DEF n, m
  <2> QED BY ZenonT(30), <2>6, <2>7, <2>8, <2>9, <2>10, <2>11 DEF t, L
<1>4. CASE ~(s.access[p] > 0)
  <2>1. t = Append(s.stack, p)
    BY <1>4, MissIs
  <2>2. Len(t) = L + 1 /\ t[L + 1] = p /\ \A k \in 1 .. L : t[k] = s.stack[k]
    BY <1>1, <2>1
  <2>3. DOMAIN t = 1 .. L + 1
    BY <1>2, <2>2
  <2>4. ASSUME NEW k \in 1 .. L PROVE s.stack[k] # p
    BY <1>1, <1>4 DEF RecencyOf, StackHasPages
  <2> DEFINE m == [k \in 1 .. L |-> k]
  <2>5. m \in [1 .. L -> 1 .. L] /\ \A k \in 1 .. L : m[k] = k
    OBVIOUS
  <2> HIDE DEF t, L, m
  <2>6. \A j, k \in 1 .. L : j < k => m[j] < m[k]
    BY <2>5
  <2>7. \A i \in 1 .. L : s.stack[i] # p => \E k \in 1 .. L : m[k] = i
    BY <2>5
  <2>8. \A k \in 1 .. L : t[k] = s.stack[m[k]] /\ s.stack[m[k]] # p
    BY <2>2, <2>4, <2>5
  <2>9. \E w \in [1 .. L -> 1 .. L] :
          /\ DOMAIN t = 1 .. L + 1
          /\ t[L + 1] = p
          /\ \A k \in 1 .. L : t[k] = s.stack[w[k]]
          /\ \A k \in 1 .. L : s.stack[w[k]] # p
          /\ \A j, k \in 1 .. L : j < k => w[j] < w[k]
          /\ \A i \in 1 .. L : s.stack[i] # p => \E k \in 1 .. L : w[k] = i
    <3>1. m \in [1 .. L -> 1 .. L]
      BY <2>5
    <3> WITNESS m \in [1 .. L -> 1 .. L]
    <3> QED BY <2>2, <2>3, <2>6, <2>7, <2>8
  <2> QED BY <1>1, <2>9 DEF t, L
<1> QED BY <1>3, <1>4

\* The arrays say of the trace with the access what they said without it.
LEMMA TouchedRecency ==
  ASSUME call \in Calls, input \in Seq(Inputs), NEW s \in Samples,
         NEW id \in SampleIDs, RecencyOf(s, input, id), NEW p \in Pages
  PROVE  RecencyOf(Touched(s, p), Append(input, [page |-> p, sample |-> id]), id)
<1> DEFINE t == Touched(s, p)
           N == Len(input) + 1
           r == [page |-> p, sample |-> id]
           in == Append(input, r)
<1>1. /\ s.access \in [Pages -> Nat] /\ s.last \in [Pages -> Nat]
      /\ s.stack \in Seq(Pages) /\ Len(s.stack) \in Nat
      /\ DOMAIN s.stack = 1 .. Len(s.stack)
  BY DEF Samples, Counts
<1>2. /\ Len(input) \in Nat /\ N \in Nat /\ DOMAIN input = 1 .. Len(input)
      /\ \A l \in DOMAIN input : l < N
      /\ N \in 1 .. N /\ \A l \in 1 .. N : l # N => l \in DOMAIN input
  OBVIOUS
<1>3. r \in Inputs
  BY DEF Inputs
<1>4. /\ DOMAIN in = 1 .. N /\ in[N] = r
      /\ \A l \in DOMAIN input : in[l] = input[l]
  BY <1>2, <1>3
<1>5. t.access = [s.access EXCEPT ![p] = @ + 1]
  BY TouchedIs
<1>6. t.last = [s.last EXCEPT ![p] = N]
  BY TouchedIs
<1>7. \A q \in Pages \ {p} : t.access[q] = s.access[q] /\ t.last[q] = s.last[q]
  BY <1>1, <1>5, <1>6
<1>8. t.access[p] \in Nat /\ t.access[p] > 0 /\ t.last[p] = N
  BY <1>1, <1>2, <1>5, <1>6
<1>9. PICK n \in Nat : \E m \in [1 .. n -> 1 .. Len(s.stack)] :
           /\ DOMAIN Touched(s, p).stack = 1 .. n + 1
           /\ Touched(s, p).stack[n + 1] = p
           /\ \A k \in 1 .. n : Touched(s, p).stack[k] = s.stack[m[k]]
           /\ \A k \in 1 .. n : s.stack[m[k]] # p
           /\ \A j, k \in 1 .. n : j < k => m[j] < m[k]
           /\ \A i \in 1 .. Len(s.stack) :
                s.stack[i] # p => \E k \in 1 .. n : m[k] = i
  BY ZenonT(30), TouchedStack
<1>10. PICK m \in [1 .. n -> 1 .. Len(s.stack)] :
           /\ DOMAIN t.stack = 1 .. n + 1
           /\ t.stack[n + 1] = p
           /\ \A k \in 1 .. n : t.stack[k] = s.stack[m[k]]
           /\ \A k \in 1 .. n : s.stack[m[k]] # p
           /\ \A j, k \in 1 .. n : j < k => m[j] < m[k]
           /\ \A i \in 1 .. Len(s.stack) :
                s.stack[i] # p => \E k \in 1 .. n : m[k] = i
  BY <1>9
<1> HIDE DEF t, N, in
<1>11. ASSUME NEW k \in 1 .. n
       PROVE  /\ m[k] \in 1 .. Len(s.stack)
              /\ t.stack[k] = s.stack[m[k]] /\ t.stack[k] \in Pages \ {p}
  <2>1. m[k] \in 1 .. Len(s.stack)
    OBVIOUS
  <2>2. s.stack[m[k]] \in Pages
    BY <1>1, <2>1
  <2> QED BY <1>10, <2>1, <2>2
<1>12. StackHasPages(t)
  <2>1. ASSUME NEW q \in Pages
        PROVE  t.access[q] > 0 <=> \E k \in DOMAIN t.stack : t.stack[k] = q
    <3>1. CASE q = p
      <4>1. n + 1 \in DOMAIN t.stack
        BY <1>10
      <4> QED BY <1>8, <1>10, <3>1, <4>1
    <3>2. CASE q # p
      <4>1. t.access[q] = s.access[q]
        BY <1>7, <3>2
      <4>2. s.access[q] > 0 <=> \E k \in 1 .. Len(s.stack) : s.stack[k] = q
        BY <1>1 DEF RecencyOf, StackHasPages
      <4>3. ASSUME NEW i \in 1 .. Len(s.stack), s.stack[i] = q
            PROVE  \E k \in DOMAIN t.stack : t.stack[k] = q
        <5>1. PICK k \in 1 .. n : m[k] = i
          BY <1>10, <3>2, <4>3
        <5>2. k \in DOMAIN t.stack /\ t.stack[k] = q
          BY <1>10, <4>3, <5>1
        <5> QED BY <5>2
      <4>4. ASSUME NEW k \in DOMAIN t.stack, t.stack[k] = q
            PROVE  \E i \in 1 .. Len(s.stack) : s.stack[i] = q
        <5>1. k \in 1 .. n + 1 /\ k # n + 1
          BY <1>10, <3>2, <4>4
        <5>2. k \in 1 .. n
          BY <5>1
        <5> QED BY <1>11, <4>4, <5>2
      <4> QED BY <4>1, <4>2, <4>3, <4>4
    <3> QED BY <3>1, <3>2
  <2> QED BY <2>1 DEF StackHasPages
<1>13. ASSUME NEW q \in Pages \ {p}, s.access[q] > 0
       PROVE  s.last[q] < N
  BY <1>2, <1>13 DEF RecencyOf, LastIsAccess
<1>14. StackByLast(t)
  <2>1. ASSUME NEW j \in DOMAIN t.stack, NEW k \in DOMAIN t.stack, j < k
        PROVE  t.last[t.stack[j]] < t.last[t.stack[k]]
    <3>1. j \in 1 .. n + 1 /\ k \in 1 .. n + 1
      BY <1>10
    <3>2. j \in 1 .. n
      BY <2>1, <3>1
    <3>3. t.last[t.stack[j]] = s.last[s.stack[m[j]]]
      BY <1>7, <1>11, <3>2
    <3>4. CASE k = n + 1
      <4>1. m[j] \in DOMAIN s.stack /\ s.stack[m[j]] \in Pages \ {p}
        BY <1>1, <1>11, <3>2
      <4>2. s.access[s.stack[m[j]]] > 0
        BY <4>1 DEF RecencyOf, StackHasPages
      <4>3. s.last[s.stack[m[j]]] < N
        BY <1>13, <4>1, <4>2
      <4>4. t.last[t.stack[k]] = N
        BY <1>8, <1>10, <3>4
      <4> QED BY <3>3, <4>3, <4>4
    <3>5. CASE k # n + 1
      <4>1. k \in 1 .. n
        BY <3>1, <3>5
      <4>2. m[j] < m[k]
        BY <1>10, <2>1, <3>2, <4>1
      <4>3. m[j] \in DOMAIN s.stack /\ m[k] \in DOMAIN s.stack
        BY <1>1, <1>11, <3>2, <4>1
      <4>4. s.last[s.stack[m[j]]] < s.last[s.stack[m[k]]]
        BY <4>2, <4>3 DEF RecencyOf, StackByLast
      <4>5. t.last[t.stack[k]] = s.last[s.stack[m[k]]]
        BY <1>7, <1>11, <4>1
      <4> QED BY <3>3, <4>4, <4>5
    <3> QED BY <3>4, <3>5
  <2> QED BY <2>1 DEF StackByLast
<1>15. LastIsAccess(t, in, id)
  <2>1. ASSUME NEW q \in Pages
        PROVE  /\ t.access[q] = 0 => t.last[q] = 0
               /\ t.access[q] > 0 => /\ t.last[q] \in DOMAIN in
                                     /\ in[t.last[q]].page = q
                                     /\ in[t.last[q]].sample = id
    <3>1. CASE q = p
      <4>1. N \in DOMAIN in
        BY <1>2, <1>4
      <4> QED BY <1>4, <1>8, <3>1, <4>1
    <3>2. CASE q # p
      <4>1. t.access[q] = s.access[q] /\ t.last[q] = s.last[q]
        BY <1>7, <3>2
      <4>2. /\ s.access[q] = 0 => s.last[q] = 0
            /\ s.access[q] > 0 => /\ s.last[q] \in DOMAIN input
                                  /\ input[s.last[q]].page = q
                                  /\ input[s.last[q]].sample = id
        BY DEF RecencyOf, LastIsAccess
      <4>3. DOMAIN input \subseteq DOMAIN in
        BY <1>2, <1>4
      <4> QED BY <1>4, <4>1, <4>2, <4>3
    <3> QED BY <3>1, <3>2
  <2> QED BY <2>1 DEF LastIsAccess
<1>16. LastIsLatest(t, in, id)
  <2>1. ASSUME NEW l \in DOMAIN in, in[l].sample = id
        PROVE  t.access[in[l].page] > 0 /\ l <= t.last[in[l].page]
    <3>1. l \in 1 .. N /\ l \in Nat
      BY <1>2, <1>4
    <3>2. CASE in[l].page = p
      BY <1>2, <1>8, <3>1, <3>2
    <3>3. CASE in[l].page # p
      <4>1. l # N
        BY <1>4, <3>3
      <4>2. l \in DOMAIN input /\ in[l] = input[l]
        BY <1>2, <1>4, <3>1, <4>1
      <4>3. input[l].page \in Pages \ {p}
        <5>1. input[l] \in Inputs
          BY <4>2
        <5> QED BY <3>3, <4>2, <5>1 DEF Inputs
      <4>4. s.access[input[l].page] > 0 /\ l <= s.last[input[l].page]
        BY <2>1, <4>2 DEF RecencyOf, LastIsLatest
      <4> QED BY <1>7, <4>2, <4>3, <4>4
    <3> QED BY <3>2, <3>3
  <2> QED BY <2>1 DEF LastIsLatest
<1> QED BY <1>12, <1>14, <1>15, <1>16 DEF RecencyOf, t, in

-----------------------------------------------------------------------------
(* The arrays that are kept over samples.                                  *)

PairArrays == [RefBlocks \X Pages -> PairTypes]

LEMMA CountedType ==
  ASSUME call \in Calls, NEW t \in AllTotals, NEW s, NEW p \in Pages,
         RefDistance(s, p) \in Nat
  PROVE  Counted(t, s, p) \in AllTotals
<1> DEFINE accesses == [t.access EXCEPT ![p] = @ + 1]
           life == [t.life EXCEPT ![p] = IF p \in RefBlocks THEN @ + RefDistance(s, p)
                                         ELSE @]
<1>1. t.access \in [Pages -> Nat] /\ t.life \in [Pages -> Nat]
  BY DEF AllTotals, Counts
<1>2. accesses \in [Pages -> Nat]
  BY <1>1
<1>3. life \in [Pages -> Nat]
  BY <1>1
<1>4. Counted(t, s, p) = [t EXCEPT !.access = accesses, !.life = life]
  BY DEF Counted
<1> HIDE DEF accesses, life
<1>5. [t EXCEPT !.access = accesses, !.life = life] \in AllTotals
  BY <1>2, <1>3 DEF AllTotals, Counts
<1> QED BY <1>4, <1>5

LEMMA ClosedLivesType ==
  ASSUME call \in Calls, NEW t \in AllTotals
  PROVE  ClosedLives(t) \in AllTotals
<1> DEFINE f == [p \in Pages |-> IF smpl.life[p] # 0 THEN t.life[p] + 1 ELSE t.life[p]]
<1>1. /\ t.life \in [Pages -> Nat]
      /\ t = [access |-> t.access, life |-> t.life, avgRUD |-> t.avgRUD]
  BY DEF AllTotals, Counts
<1>2. f \in [Pages -> Nat]
  BY <1>1
<1>3. ClosedLives(t) = [t EXCEPT !.life = f]
  BY DEF ClosedLives
<1> HIDE DEF f
<1> QED BY <1>1, <1>2, <1>3 DEF AllTotals, Counts

LEMMA AveragedRUDType ==
  ASSUME call \in Calls, smpl \in Samples, NEW t \in AllTotals, NEW of
  PROVE  AveragedRUD(t, of) \in AllTotals
<1> DEFINE f == [p \in Pages |->
                   IF p \in of /\ smpl.access[p] > 1
                   THEN Append(t.avgRUD[p], <<smpl.rud[p], smpl.access[p] - 1>>)
                   ELSE t.avgRUD[p]]
<1>1. /\ t.avgRUD \in [Pages -> Terms]
      /\ t = [access |-> t.access, life |-> t.life, avgRUD |-> t.avgRUD]
  BY DEF AllTotals
<1>2. smpl.rud \in [Pages -> Nat] /\ smpl.access \in [Pages -> Nat]
  BY DEF Samples, Counts
<1>3. ASSUME NEW p \in Pages PROVE f[p] \in Terms
  <2>1. CASE p \in of /\ smpl.access[p] > 1
    <3>1. <<smpl.rud[p], smpl.access[p] - 1>> \in Nat \X Nat
      BY <1>2, <2>1
    <3>2. t.avgRUD[p] \in Seq(Nat \X Nat)
      BY <1>1 DEF Terms
    <3>3. f[p] = Append(t.avgRUD[p], <<smpl.rud[p], smpl.access[p] - 1>>)
      BY <2>1
    <3> QED BY <3>1, <3>2, <3>3, AppendProperties DEF Terms
  <2>2. CASE ~(p \in of /\ smpl.access[p] > 1)
    BY <1>1, <2>2
  <2> QED BY <2>1, <2>2
<1>4. f \in [Pages -> Terms]
  BY <1>3
<1>5. AveragedRUD(t, of) = [t EXCEPT !.avgRUD = f]
  BY DEF AveragedRUD
<1> HIDE DEF f
<1> QED BY <1>1, <1>4, <1>5 DEF AllTotals

\* A distance of the sample is never negative: a block was accessed before now.
LEMMA FollowedType ==
  ASSUME NEW pr \in PairTypes, NEW i, NEW j, NEW p
  PROVE  Followed(pr, i, j, p) \in PairTypes
BY DEF PairTypes, Followed

LEMMA FlushedType ==
  ASSUME NEW pr \in PairTypes, NEW i, NEW j, NEW p
  PROVE  Flushed(pr, i, j, p) \in PairTypes
<1> DEFINE total  == pr.totalMid + pr.mid
           middle == pr.smplMiddle + pr.mid
<1>1. total \in Nat /\ middle \in Nat
  BY DEF PairTypes
<1>2. \/ Flushed(pr, i, j, p) = pr
      \/ Flushed(pr, i, j, p) =
           [pr EXCEPT !.totalMid = total, !.smplMiddle = middle, !.mid = 0]
  BY DEF Flushed
<1> HIDE DEF total, middle
<1>3. [pr EXCEPT !.totalMid = total, !.smplMiddle = middle, !.mid = 0] \in PairTypes
  BY <1>1 DEF PairTypes
<1> QED BY <1>2, <1>3

LEMMA MetType ==
  ASSUME NEW pr \in PairTypes, NEW i, NEW j, NEW p,
         smpl.last[i] \in 0 .. Len(input), Len(input) \in Nat
  PROVE  Met(pr, i, j, p) \in PairTypes
<1> DEFINE distance == IF pr.mid = 0 THEN pr.distance + time - smpl.last[i] - 1
                       ELSE pr.distance
           access == IF pr.mid = 0 THEN pr.access + 1 ELSE pr.access
           mid    == pr.mid + 1
<1>1. pr.distance \in Nat /\ pr.access \in Nat /\ pr.mid \in Nat
  BY DEF PairTypes
<1>2. distance \in Nat /\ access \in Nat /\ mid \in Nat
  <2>1. ASSUME NEW n \in Nat, NEW l \in 0 .. n, NEW d \in Nat
        PROVE  d + (n + 1) - l - 1 \in Nat
    OBVIOUS
  <2>2. pr.distance + time - smpl.last[i] - 1 \in Nat
    BY <1>1, <2>1 DEF time
  <2> QED BY <1>1, <2>2
<1>3. \/ Met(pr, i, j, p) = pr
      \/ Met(pr, i, j, p) =
           [pr EXCEPT !.distance = distance, !.access = access, !.mid = mid]
  BY DEF Met
<1> HIDE DEF distance, access, mid
<1>4. [pr EXCEPT !.distance = distance, !.access = access, !.mid = mid] \in PairTypes
  BY <1>2 DEF PairTypes
<1> QED BY <1>3, <1>4

LEMMA RelatedType ==
  ASSUME call \in Calls, input \in Seq(Inputs), smpl \in Samples,
         NEW id, RecencyOf(smpl, input, id), pairs \in PairArrays, NEW p
  PROVE  Related(p) \in PairArrays
<1>1. ASSUME NEW i \in RefBlocks PROVE smpl.last[i] \in 0 .. Len(input)
  <2>1. i \in Pages
    BY PagesType
  <2>2. /\ smpl.access[i] \in Nat
        /\ smpl.access[i] = 0 => smpl.last[i] = 0
        /\ smpl.access[i] > 0 => smpl.last[i] \in 1 .. Len(input)
    BY <2>1 DEF RecencyOf, LastIsAccess, Samples, Counts
  <2>3. Len(input) \in Nat
    OBVIOUS
  <2> QED BY <2>2, <2>3
<1> DEFINE R(ij) == Met(Flushed(Followed(pairs[ij], ij[1], ij[2], p),
                                ij[1], ij[2], p), ij[1], ij[2], p)
<1>2. ASSUME NEW ij \in RefBlocks \X Pages PROVE R(ij) \in PairTypes
  <2>1. pairs[ij] \in PairTypes
    BY DEF PairArrays
  <2>2. ij[1] \in RefBlocks
    OBVIOUS
  <2>3. Followed(pairs[ij], ij[1], ij[2], p) \in PairTypes
    BY <2>1, FollowedType
  <2>4. Flushed(Followed(pairs[ij], ij[1], ij[2], p), ij[1], ij[2], p) \in PairTypes
    BY <2>3, FlushedType
  <2>5. smpl.last[ij[1]] \in 0 .. Len(input) /\ Len(input) \in Nat
    BY <1>1, <2>2
  <2> QED BY <2>4, <2>5, MetType
<1>3. Related(p) = [ij \in RefBlocks \X Pages |-> R(ij)]
  BY DEF Related, PairArrays
<1> HIDE DEF R
<1> QED BY <1>2, <1>3 DEF PairArrays

LEMMA AveragedType ==
  ASSUME NEW pr \in PairTypes, NEW life \in Nat
  PROVE  Averaged(pr, life) \in PairTypes
<1> DEFINE a == IF life = 0 THEN pr.smplAvg
                ELSE Append(pr.smplAvg, <<pr.smplMiddle, life + 1>>)
<1>1. pr.smplMiddle \in Nat /\ pr.smplAvg \in Seq(Nat \X Nat)
  BY DEF PairTypes, Terms
<1>2. a \in Terms
  <2>1. <<pr.smplMiddle, life + 1>> \in Nat \X Nat
    BY <1>1
  <2>2. Append(pr.smplAvg, <<pr.smplMiddle, life + 1>>) \in Seq(Nat \X Nat)
    BY <1>1, <2>1, AppendProperties
  <2> QED BY <1>1, <2>2 DEF Terms
<1>3. Averaged(pr, life) = [pr EXCEPT !.smplAvg = a, !.mid = 0, !.smplMiddle = 0]
  BY DEF Averaged
<1> HIDE DEF a
<1>4. [pr EXCEPT !.smplAvg = a, !.mid = 0, !.smplMiddle = 0] \in PairTypes
  BY <1>2 DEF PairTypes
<1> QED BY <1>3, <1>4

LEMMA AveragedPairsType ==
  ASSUME call \in Calls, smpl \in Samples, pairs \in PairArrays
  PROVE  AveragedPairs \in PairArrays
<1>1. ASSUME NEW ij \in RefBlocks \X Pages
      PROVE  Averaged(pairs[ij], smpl.life[ij[1]]) \in PairTypes
  <2>1. pairs[ij] \in PairTypes
    BY DEF PairArrays
  <2>2. ij[1] \in Pages
    BY PagesType
  <2>3. smpl.life[ij[1]] \in Nat
    BY <2>2 DEF Samples, Counts
  <2> QED BY <2>1, <2>3, AveragedType
<1>2. AveragedPairs =
        [ij \in RefBlocks \X Pages |-> Averaged(pairs[ij], smpl.life[ij[1]])]
  BY DEF AveragedPairs, PairArrays
<1> QED BY <1>1, <1>2 DEF PairArrays

-----------------------------------------------------------------------------
(* Every step keeps the invariant.                                         *)

\* The pages are those of the call, which does not change.
LEMMA SameCall ==
  ASSUME call' = call
  PROVE  /\ RefBlocks' = RefBlocks /\ Pages' = Pages
         /\ Inputs' = Inputs /\ Samples' = Samples
         /\ AllTotals' = AllTotals /\ PairArrays' = PairArrays
<1>1. RefBlocks' = RefBlocks /\ Pages' = Pages
  BY DEF RefBlocks, Pages, NumBlocks
<1>2. Counts' = Counts
  BY <1>1 DEF Counts
<1> QED BY <1>1, <1>2 DEF Inputs, Samples, AllTotals, PairArrays, PairTypes, Terms

LEMMA TypeOKIs ==
  TypeOK <=> /\ phase \in {"reading", "done"} /\ call \in Calls
             /\ input \in Seq(Inputs) /\ smpl \in Samples
             /\ totals \in AllTotals /\ pairs \in PairArrays
BY DEF TypeOK, Inputs, Samples, AllTotals, PairArrays, PairTypes

\* An access whose sample is not before that of the last one, and of which the
\* arrays s say what they must of the trace before it.
LEMMA AccessKeeps ==
  ASSUME TypeOK, SortedSamples, NEW p \in Pages, NEW id \in SampleIDs,
         NEW s \in Samples, RecencyOf(s, input, id),
         input # << >> => Last(input).sample <= id,
         IsAccess(p, id), smpl' = Touched(s, p),
         totals' \in AllTotals, pairs' \in PairArrays
  PROVE  SpatialInv'
<1> DEFINE r == [page |-> p, sample |-> id]
           in == Append(input, r)
           N == Len(input) + 1
<1>1. /\ phase \in {"reading", "done"} /\ call \in Calls
      /\ input \in Seq(Inputs) /\ smpl \in Samples
  BY TypeOKIs
<1>2. input' = in /\ call' = call /\ phase' = phase
  BY DEF IsAccess
<1>3. r \in Inputs
  BY DEF Inputs
<1>4. /\ in \in Seq(Inputs) /\ Len(in) = N /\ N \in Nat /\ Len(input) \in Nat
      /\ DOMAIN in = 1 .. N /\ DOMAIN input = 1 .. Len(input)
      /\ in[N] = r /\ in # << >>
      /\ \A l \in 1 .. Len(input) : in[l] = input[l]
  BY <1>1, <1>3
<1>5. Last(in) = r
  BY <1>4 DEF Last
<1>6. Touched(s, p) \in Samples
  BY <1>1, TouchedType
<1>7. RecencyOf(Touched(s, p), in, id)
  BY <1>1, TouchedRecency
<1> HIDE DEF in
<1>8. TypeOK'
  <2>1. input' \in Seq(Inputs') /\ smpl' \in Samples'
    BY <1>2, <1>4, <1>6, SameCall
  <2>2. totals' \in AllTotals' /\ pairs' \in PairArrays'
    BY <1>2, SameCall
  <2>3. phase' \in {"reading", "done"} /\ call' \in Calls
    BY <1>1, <1>2
  <2> QED BY <2>1, <2>2, <2>3
          DEF TypeOK, Inputs, Samples, AllTotals, PairArrays, PairTypes
<1>9. SortedSamples'
  <2>1. ASSUME NEW k \in DOMAIN in, NEW l \in DOMAIN in, k <= l
        PROVE  in[k].sample <= in[l].sample
    <3>1. CASE l \in 1 .. Len(input)
      <4>1. k \in 1 .. Len(input)
        BY <1>4, <2>1, <3>1
      <4> QED BY <1>4, <2>1, <3>1, <4>1 DEF SortedSamples
    <3>2. CASE l = N /\ k = N
      BY <1>4, <3>2, AddressesAssumption
    <3>3. CASE l = N /\ k \in 1 .. Len(input)
      <4>1. input # << >> /\ Len(input) \in 1 .. Len(input) /\ k <= Len(input)
        BY <1>4, <3>3
      <4>2. input[k].sample <= input[Len(input)].sample
        BY <1>4, <3>3, <4>1 DEF SortedSamples
      <4>3. input[Len(input)].sample <= id
        BY <4>1 DEF Last
      <4>4. input[k].sample \in Nat /\ input[Len(input)].sample \in Nat /\ id \in Nat
        <5>1. input[k] \in Inputs /\ input[Len(input)] \in Inputs
          BY <1>1, <3>3, <4>1
        <5> QED BY <5>1, AddressesAssumption DEF Inputs
      <4>5. input[k].sample <= id
        BY <4>2, <4>3, <4>4
      <4> QED BY <1>4, <3>3, <4>5
    <3> QED BY <1>4, <3>1, <3>2, <3>3
  <2> QED BY <1>2, <2>1 DEF SortedSamples
<1>10. RecencyOf(smpl, input, Last(input).sample)'
  <2>1. Pages' = Pages
    BY <1>2, SameCall
  <2>2. RecencyOf(Touched(s, p), in, Last(in).sample)
    BY <1>5, <1>7
  <2> DEFINE t == Touched(s, p)
  <2> HIDE DEF t
  <2>3. smpl' = t
    BY DEF t
  <2>4. RecencyOf(t, in, Last(in).sample)
    BY <2>2 DEF t
  <2> QED BY <1>2, <2>1, <2>3, <2>4
          DEF RecencyOf, StackHasPages, StackByLast, LastIsAccess, LastIsLatest
<1> QED BY <1>2, <1>4, <1>8, <1>9, <1>10 DEF SpatialInv

\* The page of an address of the trace.
LEMMA PageOfAddr ==
  ASSUME TypeOK, NEW addr \in Addrs
  PROVE  PageID(addr) \in Pages
BY PageIDType, AddressesAssumption DEF TypeOK

\* The trace has no access of a sample yet.
LEMMA NewSample ==
  ASSUME TypeOK, NEW id, \A l \in DOMAIN input : input[l].sample # id,
         NEW p \in Pages
  PROVE  /\ FreshSample \in Samples
         /\ RecencyOf(FreshSample, input, id)
         /\ RefDistance(FreshSample, p) \in Nat
<1>1. call \in Calls
  BY DEF TypeOK
<1>2. FreshSample.access[p] = 0
  BY DEF FreshSample, Zeros
<1> QED BY <1>1, <1>2, FreshType, FreshRecency DEF RefDistance

LEMMA InitHolds ==
  ASSUME Init
  PROVE  SpatialInv
<1>1. call \in Calls /\ Pages \subseteq Nat /\ RefBlocks \subseteq Pages
  BY PagesType DEF Init
<1>2. smpl \in Samples
  BY <1>1, FreshType DEF Init
<1>3. << >> \in Terms
  BY DEF Terms
<1>4. totals \in AllTotals
  <2>1. Zeros \in [Pages -> Nat]
    BY DEF Zeros
  <2>2. [p \in Pages |-> << >>] \in [Pages -> Terms]
    BY <1>3
  <2> QED BY <2>1, <2>2 DEF Init, AllTotals, Counts
<1>5. pairs \in PairArrays
  BY <1>3 DEF Init, PairArrays, PairTypes, NoPair
<1>6. phase \in {"reading", "done"} /\ input \in Seq(Inputs)
  BY DEF Init
<1>7. TypeOK
  BY <1>1, <1>2, <1>4, <1>5, <1>6, TypeOKIs
<1>8. SortedSamples
  BY DEF Init, SortedSamples
<1> QED BY <1>7, <1>8 DEF SpatialInv, Init

LEMMA FirstAccessKeeps ==
  ASSUME SpatialInv, NEW addr \in Addrs, NEW id \in SampleIDs, FirstAccess(addr, id)
  PROVE  SpatialInv'
<1> DEFINE p == PageID(addr)
<1>1. /\ TypeOK /\ SortedSamples /\ smpl = FreshSample /\ input = << >>
      /\ call \in Calls
  BY DEF SpatialInv, FirstAccess, TypeOK
<1>2. p \in Pages
  BY <1>1, PageOfAddr
<1> HIDE DEF p
<1>3. /\ smpl \in Samples /\ RecencyOf(smpl, input, id)
      /\ RefDistance(smpl, p) \in Nat
  BY <1>1, <1>2, NewSample
<1>4. totals' \in AllTotals
  <2>1. totals \in AllTotals
    BY <1>1, TypeOKIs
  <2>2. totals' = Counted(totals, smpl, p)
    BY DEF FirstAccess, p
  <2> QED BY <1>1, <1>2, <1>3, <2>1, <2>2, CountedType
<1>5. pairs' \in PairArrays
  BY <1>1, TypeOKIs DEF FirstAccess
<1>6. IsAccess(p, id) /\ smpl' = Touched(smpl, p)
  BY DEF FirstAccess, p
<1> QED BY <1>1, <1>2, <1>3, <1>4, <1>5, <1>6, AccessKeeps

LEMMA AccessInSampleKeeps ==
  ASSUME SpatialInv, NEW addr \in Addrs, NEW id \in SampleIDs,
         AccessInSample(addr, id)
  PROVE  SpatialInv'
<1> DEFINE p == PageID(addr)
<1>1. /\ TypeOK /\ SortedSamples /\ input # << >> /\ id = Last(input).sample
      /\ RecencyOf(smpl, input, id)
  BY DEF SpatialInv, AccessInSample
<1>2. /\ call \in Calls /\ input \in Seq(Inputs) /\ smpl \in Samples
      /\ totals \in AllTotals /\ pairs \in PairArrays
  BY <1>1, TypeOKIs
<1>3. p \in Pages
  BY <1>1, PageOfAddr
<1> HIDE DEF p
<1>4. totals' \in AllTotals
  <2>1. RefDistance(smpl, p) \in Nat
    BY <1>1, <1>2, <1>3, RefDistanceType DEF RecencyOf
  <2>2. totals' = Counted(totals, smpl, p)
    BY DEF AccessInSample, p
  <2> QED BY <1>2, <1>3, <2>1, <2>2, CountedType
<1>5. pairs' \in PairArrays
  <2>1. Related(p) \in PairArrays
    BY <1>1, <1>2, RelatedType
  <2>2. pairs' = IF call.spatial THEN Related(p) ELSE pairs
    BY DEF AccessInSample, p
  <2> QED BY <1>2, <2>1, <2>2
<1>6. IsAccess(p, id) /\ smpl' = Touched(smpl, p)
  BY DEF AccessInSample, p
<1>7. Last(input).sample <= id
  BY <1>1, AddressesAssumption
<1> QED BY <1>1, <1>2, <1>3, <1>4, <1>5, <1>6, <1>7, AccessKeeps

LEMMA AccessOfNewSampleKeeps ==
  ASSUME SpatialInv, NEW addr \in Addrs, NEW id \in SampleIDs,
         AccessOfNewSample(addr, id)
  PROVE  SpatialInv'
<1> DEFINE p == PageID(addr)
<1>1. TypeOK /\ SortedSamples /\ input # << >> /\ id > Last(input).sample
  BY DEF SpatialInv, AccessOfNewSample
<1>2. /\ call \in Calls /\ input \in Seq(Inputs) /\ smpl \in Samples
      /\ totals \in AllTotals /\ pairs \in PairArrays
  BY <1>1, TypeOKIs
<1>3. p \in Pages
  BY <1>1, PageOfAddr
<1> HIDE DEF p
<1>4. Last(input).sample \in Nat /\ id \in Nat
  <2>1. Len(input) \in DOMAIN input
    BY <1>1, <1>2
  <2>2. input[Len(input)] \in Inputs
    BY <1>2, <2>1
  <2> QED BY <2>2, AddressesAssumption DEF Inputs, Last
<1>5. \A l \in DOMAIN input : input[l].sample # id
  <2>1. ASSUME NEW l \in DOMAIN input PROVE input[l].sample <= Last(input).sample
    <3>1. Len(input) \in DOMAIN input /\ l <= Len(input)
      BY <1>1, <1>2
    <3> QED BY <1>1, <3>1 DEF SortedSamples, Last
  <2> QED BY <1>1, <1>4, <2>1
<1>6. /\ FreshSample \in Samples /\ RecencyOf(FreshSample, input, id)
      /\ RefDistance(FreshSample, p) \in Nat
  BY <1>1, <1>3, <1>5, NewSample
<1>7. totals' \in AllTotals
  <2>1. totals' = Counted(AveragedRUD(ClosedLives(totals), Pages), FreshSample, p)
    BY DEF AccessOfNewSample, p
  <2>2. AveragedRUD(ClosedLives(totals), Pages) \in AllTotals
    BY <1>2, ClosedLivesType, AveragedRUDType
  <2> QED BY <1>2, <1>3, <1>6, <2>1, <2>2, CountedType
<1>8. pairs' \in PairArrays
  BY <1>2, AveragedPairsType DEF AccessOfNewSample
<1>9. IsAccess(p, id) /\ smpl' = Touched(FreshSample, p)
  BY DEF AccessOfNewSample, p
<1>10. Last(input).sample <= id
  BY <1>1, <1>4
<1> QED BY <1>1, <1>3, <1>6, <1>7, <1>8, <1>9, <1>10, AccessKeeps

LEMMA EndOfTraceKeeps ==
  ASSUME SpatialInv, EndOfTrace
  PROVE  SpatialInv'
<1>1. /\ TypeOK /\ call \in Calls /\ input \in Seq(Inputs) /\ smpl \in Samples
      /\ totals \in AllTotals /\ pairs \in PairArrays
  BY TypeOKIs DEF SpatialInv
<1>2. call' = call /\ input' = input /\ smpl' = smpl /\ phase' = "done"
  BY DEF EndOfTrace
<1>3. totals' \in AllTotals'
  <2>1. AveragedRUD(ClosedLives(totals), RefBlocks) \in AllTotals
    BY <1>1, ClosedLivesType, AveragedRUDType
  <2>2. AveragedRUD(totals, RefBlocks) \in AllTotals
    BY <1>1, AveragedRUDType
  <2>3. totals' \in AllTotals
    BY <2>1, <2>2 DEF EndOfTrace
  <2> QED BY <1>2, <2>3, SameCall
<1>4. pairs' \in PairArrays'
  <2>1. pairs' \in PairArrays
    BY <1>1, AveragedPairsType DEF EndOfTrace
  <2> QED BY <1>2, <2>1, SameCall
<1>5. input' \in Seq(Inputs') /\ smpl' \in Samples'
  BY <1>1, <1>2, SameCall
<1>6. TypeOK'
  BY <1>1, <1>2, <1>3, <1>4, <1>5
     DEF TypeOK, Inputs, Samples, AllTotals, PairArrays, PairTypes
<1>7. SortedSamples'
  BY <1>2 DEF SpatialInv, SortedSamples
<1>8. input' = << >> => smpl' = FreshSample'
  BY <1>2, SameCall DEF SpatialInv, FreshSample, Zeros
<1>9. input' # << >> => RecencyOf(smpl, input, Last(input).sample)'
  <2>1. Pages' = Pages
    BY <1>2, SameCall
  <2> QED BY <1>2, <2>1 DEF SpatialInv, RecencyOf, StackHasPages, StackByLast,
                            LastIsAccess, LastIsLatest
<1> QED BY <1>6, <1>7, <1>8, <1>9 DEF SpatialInv

LEMMA StutterKeeps ==
  ASSUME SpatialInv, UNCHANGED vars
  PROVE  SpatialInv'
<1>1. /\ call' = call /\ input' = input /\ smpl' = smpl /\ phase' = phase
      /\ totals' = totals /\ pairs' = pairs
  BY DEF vars
<1>2. TypeOK'
  <2>1. TypeOK
    BY DEF SpatialInv
  <2> QED BY <1>1, <2>1, SameCall, TypeOKIs
          DEF TypeOK, Inputs, Samples, AllTotals, PairArrays, PairTypes
<1>3. SortedSamples'
  BY <1>1 DEF SpatialInv, SortedSamples
<1>4. input' = << >> => smpl' = FreshSample'
  BY <1>1, SameCall DEF SpatialInv, FreshSample, Zeros
<1>5. input' # << >> => RecencyOf(smpl, input, Last(input).sample)'
  <2>1. Pages' = Pages
    BY <1>1, SameCall
  <2> QED BY <1>1, <2>1 DEF SpatialInv, RecencyOf, StackHasPages, StackByLast,
                            LastIsAccess, LastIsLatest
<1> QED BY <1>2, <1>3, <1>4, <1>5 DEF SpatialInv

LEMMA SpatialInvHolds == Spec => []SpatialInv
<1>1. Init => SpatialInv
  BY InitHolds
<1>2. SpatialInv /\ [Next]_vars => SpatialInv'
  <2> SUFFICES ASSUME SpatialInv, [Next]_vars PROVE SpatialInv'
    OBVIOUS
  <2>1. ASSUME NEW addr \in Addrs, NEW id \in SampleIDs, FirstAccess(addr, id)
        PROVE  SpatialInv'
    BY <2>1, FirstAccessKeeps
  <2>2. ASSUME NEW addr \in Addrs, NEW id \in SampleIDs, AccessInSample(addr, id)
        PROVE  SpatialInv'
    BY <2>2, AccessInSampleKeeps
  <2>3. ASSUME NEW addr \in Addrs, NEW id \in SampleIDs, AccessOfNewSample(addr, id)
        PROVE  SpatialInv'
    BY <2>3, AccessOfNewSampleKeeps
  <2>4. CASE EndOfTrace
    BY <2>4, EndOfTraceKeeps
  <2>5. CASE UNCHANGED vars
    BY <2>5, StutterKeeps
  <2> QED BY <2>1, <2>2, <2>3, <2>4, <2>5 DEF Next
<1> QED BY <1>1, <1>2, PTL DEF Spec

\* No array is indexed past its numBlocks elements, and no time, distance or
\* count is negative (memoryanalysis.cpp:486-517, 560-640).
THEOREM TypeCorrect == Spec => []TypeOK
<1>1. SpatialInv => TypeOK
  BY DEF SpatialInv
<1> QED BY <1>1, SpatialInvHolds, PTL

-----------------------------------------------------------------------------
(* The stack.                                                              *)

\* The sample of the last access is the current one, the only one.
LEMMA CurrentIs ==
  ASSUME SpatialInv, NEW id \in Current
  PROVE  input # << >> /\ id = Last(input).sample
<1>1. input \in Seq(Inputs)
  BY TypeOKIs DEF SpatialInv
<1>2. PICK l \in DOMAIN input : id = input[l].sample
  BY DEF Current, Ids, Sample, Positions
<1>3. Len(input) \in DOMAIN input /\ l <= Len(input) /\ input # << >>
  BY <1>1, <1>2
<1>4. input[l] \in Inputs /\ input[Len(input)] \in Inputs
  BY <1>1, <1>3
<1>5. id \in Nat /\ input[Len(input)].sample \in Nat
  BY <1>2, <1>4, AddressesAssumption DEF Inputs
<1>6. id <= input[Len(input)].sample
  BY <1>2, <1>3 DEF SpatialInv, SortedSamples
<1>7. input[Len(input)].sample <= id
  BY <1>3 DEF Current, Ids, Sample, Positions
<1> QED BY <1>3, <1>5, <1>6, <1>7 DEF Last

\* sampleLastAccess has the last access of the sample to a page.
LEMMA LatestIs ==
  ASSUME SpatialInv, NEW id \in Current, NEW q \in Pages, smpl.access[q] > 0
  PROVE  Max(Acc(q, id)) = smpl.last[q]
<1>1. RecencyOf(smpl, input, id)
  BY CurrentIs DEF SpatialInv
<1>2. smpl.access[q] \in Nat /\ smpl.last[q] \in Nat
  BY TypeOKIs DEF SpatialInv, Samples, Counts
<1>3. smpl.last[q] \in Acc(q, id)
  BY <1>1 DEF RecencyOf, LastIsAccess, Acc, Page, Sample, Positions
<1>4. \A l \in Acc(q, id) : l \in Nat /\ l <= smpl.last[q]
  <2>1. ASSUME NEW l \in Acc(q, id) PROVE l \in Nat /\ l <= smpl.last[q]
    <3>1. l \in DOMAIN input /\ input[l].page = q /\ input[l].sample = id
      BY DEF Acc, Page, Sample, Positions
    <3>2. input \in Seq(Inputs)
      BY TypeOKIs DEF SpatialInv
    <3> QED BY <1>1, <3>1, <3>2 DEF RecencyOf, LastIsLatest
  <2> QED BY <2>1
<1> DEFINE S == Acc(q, id)
           m == smpl.last[q]
<1> HIDE DEF S, m
<1>5. Max(S) = m
  <2>1. m \in S /\ m \in Nat /\ \A l \in S : l \in Nat /\ l <= m
    BY <1>2, <1>3, <1>4 DEF S, m
  <2>2. \A x \in S : (\A y \in S : x >= y) => x = m
    BY <2>1
  <2>3. \A y \in S : m >= y
    BY <2>1
  <2> QED BY <2>1, <2>2, <2>3 DEF Max
<1> QED BY <1>5 DEF S, m

\* The stack always holds the pages of the current sample, each once, in the
\* order of their last access: what reuse distances are read from
\* (memoryanalysis.cpp:545-550, 645-662).
THEOREM StackIsRecencyCorrect == Spec => []StackIsRecency
<1>1. SpatialInv => StackIsRecency
  <2> SUFFICES ASSUME SpatialInv, NEW id \in Current
               PROVE  /\ ToSet(smpl.stack) =
                           {Page(l) : l \in {m \in Positions : Sample(m) = id}}
                      /\ \A j, k \in DOMAIN smpl.stack :
                           j < k => Max(Acc(smpl.stack[j], id))
                                    < Max(Acc(smpl.stack[k], id))
    BY DEF StackIsRecency
  <2>1. RecencyOf(smpl, input, id)
    BY CurrentIs DEF SpatialInv
  <2>2. input \in Seq(Inputs) /\ smpl.stack \in Seq(Pages)
    BY TypeOKIs DEF SpatialInv, Samples
  <2>3. ASSUME NEW k \in DOMAIN smpl.stack
        PROVE  smpl.stack[k] \in Pages /\ smpl.access[smpl.stack[k]] > 0
    <3>1. smpl.stack[k] \in Pages
      BY <2>2
    <3> QED BY <2>1, <3>1 DEF RecencyOf, StackHasPages
  <2>4. ASSUME NEW k \in DOMAIN smpl.stack
        PROVE  \E l \in Positions : Sample(l) = id /\ Page(l) = smpl.stack[k]
    BY <2>1, <2>3 DEF RecencyOf, LastIsAccess, Positions, Sample, Page
  <2>5. ASSUME NEW l \in Positions, Sample(l) = id
        PROVE  \E k \in DOMAIN smpl.stack : smpl.stack[k] = Page(l)
    <3>1. input[l] \in Inputs
      BY <2>2 DEF Positions
    <3>2. Page(l) \in Pages
      BY <3>1 DEF Page, Inputs
    <3>3. smpl.access[Page(l)] > 0
      BY <2>1, <2>5 DEF RecencyOf, LastIsLatest, Positions, Sample, Page
    <3> QED BY <2>1, <3>2, <3>3 DEF RecencyOf, StackHasPages
  <2>6. ToSet(smpl.stack) = {Page(l) : l \in {m \in Positions : Sample(m) = id}}
    BY <2>4, <2>5 DEF ToSet
  <2>7. ASSUME NEW j \in DOMAIN smpl.stack, NEW k \in DOMAIN smpl.stack, j < k
        PROVE  Max(Acc(smpl.stack[j], id)) < Max(Acc(smpl.stack[k], id))
    <3>1. smpl.last[smpl.stack[j]] < smpl.last[smpl.stack[k]]
      BY <2>1, <2>7 DEF RecencyOf, StackByLast
    <3>2. Max(Acc(smpl.stack[j], id)) = smpl.last[smpl.stack[j]]
      BY <2>3, LatestIs
    <3>3. Max(Acc(smpl.stack[k], id)) = smpl.last[smpl.stack[k]]
      BY <2>3, LatestIs
    <3> QED BY <3>1, <3>2, <3>3
  <2> QED BY <2>6, <2>7
<1> QED BY <1>1, SpatialInvHolds, PTL

-----------------------------------------------------------------------------
(* The pages of the affinity.                                              *)

\* The ids of the regions are below those of the rest and of the stack.
FewRegions == \A c \in Calls : Len(c.regions) <= 254

LEMMA RegionOrRest ==
  ASSUME call \in Calls, FewRegions, NEW addr \in Nat
  PROVE  \/ /\ RegionID(addr) \in 0 .. Len(call.regions) - 1
            /\ RegionID(addr) \notin {STACK, NONHOT}
            /\ \E k \in DOMAIN call.regions : Inside(addr, call.regions[k])
         \/ /\ RegionID(addr) \in {STACK, NONHOT}
            /\ ~\E k \in DOMAIN call.regions : Inside(addr, call.regions[k])
<1>1. /\ Len(call.regions) \in Nat /\ Len(call.regions) <= 254
      /\ DOMAIN call.regions = 1 .. Len(call.regions)
  BY CallTypes DEF FewRegions
<1>2. CASE /\ RegionID(addr) \in 0 .. Len(call.regions) - 1
           /\ Inside(addr, call.regions[RegionID(addr) + 1])
  <2>1. RegionID(addr) \notin {STACK, NONHOT}
    BY <1>1, <1>2 DEF STACK, NONHOT
  <2>2. RegionID(addr) + 1 \in DOMAIN call.regions
    BY <1>1, <1>2
  <2> QED BY <1>2, <2>1, <2>2
<1> QED BY <1>2, RegionIDType

\* Outside the area, a page has addresses of one class.
LEMMA OtherPageTells ==
  ASSUME call \in Calls, FewRegions, call.option = 4,
         NEW a \in Nat, NEW b \in Nat, OtherPage(a) = OtherPage(b)
  PROVE  \/ /\ HotLinesOf(a) # {} /\ HotLinesOf(b) # {}
            /\ Min(HotLinesOf(a)) = Min(HotLinesOf(b))
         \/ /\ HotLinesOf(a) = {} /\ HotLinesOf(b) = {}
            /\ RegionID(a) = RegionID(b)
<1> DEFINE bc == call.blockCount
           nl == Len(call.hotLines)
           nr == Len(call.regions)
           region(x) == IF RegionID(x) = STACK THEN nr + 1
                        ELSE IF RegionID(x) = NONHOT THEN nr ELSE RegionID(x)
<1>1. bc \in Nat /\ nl \in Nat /\ nr \in Nat
  BY CallTypes, BlockCountType
<1>2. ASSUME NEW x \in Nat
      PROVE  IF HotLinesOf(x) # {}
             THEN /\ Min(HotLinesOf(x)) \in 1 .. nl
                  /\ OtherPage(x) = bc + Min(HotLinesOf(x)) - 1
             ELSE OtherPage(x) = bc + nl + region(x)
  BY HotLinesType DEF OtherPage
<1>3. ASSUME NEW x \in Nat
      PROVE  /\ region(x) \in Nat
             /\ \/ RegionID(x) \in 0 .. nr - 1 /\ region(x) = RegionID(x)
                \/ RegionID(x) = NONHOT /\ region(x) = nr
                \/ RegionID(x) = STACK /\ region(x) = nr + 1
  BY <1>1, RegionOrRest DEF STACK, NONHOT
<1>4. region(a) = region(b) => RegionID(a) = RegionID(b)
  BY <1>1, <1>3
<1> HIDE DEF bc, nl, nr, region
<1>5. CASE HotLinesOf(a) # {} /\ HotLinesOf(b) # {}
  <2>1. Min(HotLinesOf(a)) \in Nat /\ Min(HotLinesOf(b)) \in Nat
    BY <1>1, <1>2, <1>5
  <2> QED BY <1>1, <1>2, <1>5, <2>1
<1>6. CASE HotLinesOf(a) = {} /\ HotLinesOf(b) = {}
  <2>1. bc + nl + region(a) = bc + nl + region(b)
    BY <1>2, <1>6
  <2>2. region(a) = region(b)
    BY <1>1, <1>3, <2>1
  <2> QED BY <1>4, <1>6, <2>2
<1>7. CASE HotLinesOf(a) # {} /\ HotLinesOf(b) = {}
  BY <1>1, <1>2, <1>3, <1>7
<1>8. CASE HotLinesOf(a) = {} /\ HotLinesOf(b) # {}
  BY <1>1, <1>2, <1>3, <1>8
<1> QED BY <1>5, <1>6, <1>7, <1>8

\* A block of the area is the page of its accesses and of no others, and hot
\* lines, regions, the rest and the stack do not share a page: as long as there
\* are at most 254 regions, as their ids are bytes (memoryanalysis.cpp:261-268,
\* 567-570, 587, 618-638).
THEOREM PagesApartCorrect ==
  ASSUME FewRegions
  PROVE  Spec => []PagesApart
<1>1. SpatialInv => PagesApart
  <2> SUFFICES ASSUME SpatialInv, NEW addr \in Addrs
               PROVE  /\ PageID(addr) \in RefBlocks <=>
                           IF call.option = 0
                           THEN \E k \in DOMAIN call.regions :
                                  Inside(addr, call.regions[k])
                           ELSE InArea(addr)
                      /\ call.option = 4 => \A other \in Addrs :
                           PageID(addr) = PageID(other)
                             => ClassOf(addr) = ClassOf(other)
    BY DEF PagesApart, SpatialInv
  <2>1. call \in Calls /\ Addrs \subseteq Nat
    BY AddressesAssumption DEF SpatialInv, TypeOK
  <2>2. call.blockCount \in Nat /\ call.blockCount \notin RefBlocks
    BY <2>1, BlockCountType DEF RefBlocks
  <2>3. CASE call.option = 0
    <3>1. CASE RegionID(addr) \in {STACK, NONHOT}
      BY <2>1, <2>2, <2>3, <3>1, RegionOrRest DEF PageID
    <3>2. CASE RegionID(addr) \notin {STACK, NONHOT}
      <4>1. /\ RegionID(addr) \in 0 .. Len(call.regions) - 1
            /\ \E k \in DOMAIN call.regions : Inside(addr, call.regions[k])
        BY <2>1, <3>2, RegionOrRest
      <4>2. PageID(addr) \in RefBlocks
        BY <2>1, <2>3, <3>2, <4>1, CallTypes DEF PageID, RefBlocks
      <4> QED BY <2>3, <4>1, <4>2
    <3> QED BY <3>1, <3>2
  <2>4. CASE call.option # 0
    <3>1. ASSUME NEW x \in Addrs
          PROVE  PageID(x) \in RefBlocks <=> InArea(x)
      <4>1. CASE InArea(x)
        BY <2>1, <2>4, <4>1, BlockOfType DEF PageID
      <4>2. CASE ~InArea(x) /\ call.option = 1
        BY <2>2, <4>2 DEF PageID
      <4>3. CASE ~InArea(x) /\ call.option = 4
        BY <2>1, <4>3, OtherPageType DEF PageID
      <4> QED BY <2>1, <2>4, <4>1, <4>2, <4>3, CallTypes
    <3>2. ASSUME call.option = 4, NEW other \in Addrs, PageID(addr) = PageID(other)
          PROVE  ClassOf(addr) = ClassOf(other)
      <4>1. InArea(addr) <=> InArea(other)
        BY <3>1, <3>2
      <4>2. CASE InArea(addr)
        BY <4>1, <4>2 DEF ClassOf
      <4>3. CASE ~InArea(addr)
        <5>1. OtherPage(addr) = OtherPage(other)
          BY <3>2, <4>1, <4>3 DEF PageID
        <5> QED BY <2>1, <3>2, <4>1, <4>3, <5>1, OtherPageTells DEF ClassOf
      <4> QED BY <4>2, <4>3
    <3> QED BY <2>4, <3>1, <3>2
  <2> QED BY <2>3, <2>4
<1> QED BY <1>1, SpatialInvHolds, PTL
-----------------------------------------------------------------------------
(* Accesses of a trace, and of the trace with one access more.             *)

AccIn(in, p, id) == {l \in DOMAIN in : in[l].page = p /\ in[l].sample = id}
BeforeIn(in, l, i) == {k \in AccIn(in, i, in[l].sample) : k < l}
IdsIn(in) == {in[l].sample : l \in DOMAIN in}

\* Neighbours, and first accesses to j since one to i.
NextIn(in, i, j) ==
  {l \in DOMAIN in : /\ l + 1 \in DOMAIN in /\ in[l].sample = in[l + 1].sample
                     /\ in[l].page = i /\ in[l + 1].page = j}
FirstsIn(in, i, j) ==
  {l \in DOMAIN in :
     /\ in[l].page = j
     /\ BeforeIn(in, l, i) # {}
     /\ \A k \in BeforeIn(in, l, j) : i # j => k < Max(BeforeIn(in, l, i))}

\* An access e would be such a first access.
ComesFirst(in, e, i, j) ==
  /\ e.page = j /\ AccIn(in, i, e.sample) # {}
  /\ \A k \in AccIn(in, j, e.sample) : i # j => k < Max(AccIn(in, i, e.sample))

\* The accesses to j after the first one to i in the sample: those before the
\* last one to i, and the others, that may become such.
MiddleSet(in, i, j, id) ==
  {l \in AccIn(in, j, id) : BeforeIn(in, l, i) # {} /\ \E k \in AccIn(in, i, id) : l < k}
OpenSet(in, i, j, id) ==
  {l \in AccIn(in, j, id) : BeforeIn(in, l, i) # {} /\ \A k \in AccIn(in, i, id) : k <= l}

LEMMA Appended ==
  ASSUME NEW R, NEW in \in Seq(R), NEW e \in R
  PROVE  /\ Len(in) \in Nat /\ DOMAIN in = 1 .. Len(in)
         /\ DOMAIN Append(in, e) = 1 .. Len(in) + 1
         /\ DOMAIN Append(in, e) = DOMAIN in \cup {Len(in) + 1}
         /\ Append(in, e)[Len(in) + 1] = e
         /\ \A l \in DOMAIN in : Append(in, e)[l] = in[l] /\ l \in Nat /\ l < Len(in) + 1
<1>1. Len(in) \in Nat /\ DOMAIN in = 1 .. Len(in)
  OBVIOUS
<1>2. DOMAIN Append(in, e) = 1 .. Len(in) + 1
  OBVIOUS
<1>3. 1 .. Len(in) + 1 = 1 .. Len(in) \cup {Len(in) + 1}
  BY <1>1
<1>4. Append(in, e)[Len(in) + 1] = e
  OBVIOUS
<1>5. \A l \in DOMAIN in : Append(in, e)[l] = in[l] /\ l \in Nat /\ l < Len(in) + 1
  OBVIOUS
<1> QED BY <1>1, <1>2, <1>3, <1>4, <1>5

LEMMA AccAppended ==
  ASSUME NEW R, NEW in \in Seq(R), NEW e \in R, NEW p, NEW id
  PROVE  /\ AccIn(Append(in, e), p, id) =
              IF e.page = p /\ e.sample = id THEN AccIn(in, p, id) \cup {Len(in) + 1}
              ELSE AccIn(in, p, id)
         /\ \A l \in AccIn(in, p, id) : l \in Nat /\ l < Len(in) + 1 /\ l \in DOMAIN in
BY Appended DEF AccIn

LEMMA BeforeAppended ==
  ASSUME NEW R, NEW in \in Seq(R), NEW e \in R, NEW i
  PROVE  /\ \A l \in DOMAIN in : BeforeIn(Append(in, e), l, i) = BeforeIn(in, l, i)
         /\ BeforeIn(Append(in, e), Len(in) + 1, i) = AccIn(in, i, e.sample)
<1> DEFINE out == Append(in, e)
           N == Len(in) + 1
<1>1. /\ N \in Nat /\ out[N] = e
      /\ \A l \in DOMAIN in : out[l] = in[l] /\ l \in Nat /\ l < N
  BY Appended
<1>2. ASSUME NEW id
      PROVE  /\ AccIn(out, i, id) = IF e.page = i /\ e.sample = id
                                    THEN AccIn(in, i, id) \cup {N} ELSE AccIn(in, i, id)
             /\ \A k \in AccIn(in, i, id) : k < N
  BY AccAppended
<1> HIDE DEF out, N
<1>3. ASSUME NEW l \in DOMAIN in PROVE BeforeIn(out, l, i) = BeforeIn(in, l, i)
  <2>1. out[l] = in[l] /\ l < N /\ ~(N < l)
    BY <1>1
  <2> QED BY <1>2, <2>1 DEF BeforeIn
<1>4. BeforeIn(out, N, i) = AccIn(in, i, e.sample)
  <2>1. ~(N < N)
    BY <1>1
  <2> QED BY <1>1, <1>2, <2>1 DEF BeforeIn
<1> QED BY <1>3, <1>4 DEF out, N

LEMMA NextAppended ==
  ASSUME NEW R, NEW in \in Seq(R), NEW e \in R, NEW i, NEW j
  PROVE  /\ NextIn(Append(in, e), i, j) =
              IF /\ in # << >> /\ in[Len(in)].sample = e.sample
                 /\ in[Len(in)].page = i /\ e.page = j
              THEN NextIn(in, i, j) \cup {Len(in)} ELSE NextIn(in, i, j)
         /\ Len(in) \notin NextIn(in, i, j)
         /\ NextIn(in, i, j) \subseteq 1 .. Len(in)
<1> DEFINE out == Append(in, e)
           N == Len(in) + 1
           C == /\ in # << >> /\ in[Len(in)].sample = e.sample
                /\ in[Len(in)].page = i /\ e.page = j
<1>1. /\ N \in Nat /\ out[N] = e /\ Len(in) \in Nat /\ Len(in) + 1 = N
      /\ DOMAIN in = 1 .. Len(in) /\ DOMAIN out = 1 .. N
      /\ \A l \in DOMAIN in : out[l] = in[l] /\ l \in Nat /\ l < N
      /\ in = << >> <=> Len(in) = 0
  BY Appended
<1> HIDE DEF out, N
<1>2. NextIn(in, i, j) \subseteq 1 .. Len(in)
  BY <1>1 DEF NextIn
<1>3. Len(in) \notin NextIn(in, i, j)
  BY <1>1 DEF NextIn
<1>4. ASSUME NEW l \in 1 .. N, l # Len(in)
      PROVE  l \in NextIn(out, i, j) <=> l \in NextIn(in, i, j)
  <2>1. CASE l = N
    <3>1. l + 1 \notin 1 .. N /\ l \notin 1 .. Len(in)
      BY <1>1, <2>1
    <3> QED BY <1>1, <3>1 DEF NextIn
  <2>2. CASE l # N
    <3>1. Len(in) \in Nat /\ N = Len(in) + 1 /\ l \in 1 .. N /\ l # N /\ l # Len(in)
      BY <1>1, <1>4, <2>2
    <3>2. l \in 1 .. Len(in) /\ l + 1 \in 1 .. Len(in) /\ l + 1 \in 1 .. N
      BY <3>1
    <3> QED BY <1>1, <3>2 DEF NextIn
  <2> QED BY <2>1, <2>2
<1>5. Len(in) \in NextIn(out, i, j) <=> C
  <2>1. CASE in = << >>
    BY <1>1, <2>1 DEF NextIn
  <2>2. CASE in # << >>
    <3>1. Len(in) \in DOMAIN in /\ Len(in) \in DOMAIN out /\ N \in DOMAIN out
      BY <1>1, <2>2
    <3> QED BY <1>1, <2>2, <3>1 DEF NextIn
  <2> QED BY <2>1, <2>2
<1>6. NextIn(out, i, j) \subseteq 1 .. N /\ NextIn(in, i, j) \subseteq 1 .. N
  BY <1>1, <1>2 DEF NextIn
<1> HIDE DEF C
<1>7. NextIn(out, i, j) = IF C THEN NextIn(in, i, j) \cup {Len(in)} ELSE NextIn(in, i, j)
  <2>1. ASSUME C PROVE NextIn(out, i, j) = NextIn(in, i, j) \cup {Len(in)}
    <3>1. Len(in) \in NextIn(out, i, j)
      BY <1>5, <2>1
    <3> QED BY <1>4, <1>6, <3>1
  <2>2. ASSUME ~C PROVE NextIn(out, i, j) = NextIn(in, i, j)
    <3>1. \A l \in 1 .. N : l \in NextIn(out, i, j) <=> l \in NextIn(in, i, j)
      BY <1>3, <1>4, <1>5, <2>2
    <3> QED BY <1>6, <3>1
  <2> QED BY <2>1, <2>2
<1> QED BY <1>2, <1>3, <1>7 DEF out, C

LEMMA FirstsAppended ==
  ASSUME NEW R, NEW in \in Seq(R), NEW e \in R, NEW i, NEW j
  PROVE  /\ FirstsIn(Append(in, e), i, j) =
              IF ComesFirst(in, e, i, j)
              THEN FirstsIn(in, i, j) \cup {Len(in) + 1} ELSE FirstsIn(in, i, j)
         /\ FirstsIn(in, i, j) \subseteq DOMAIN in
<1> DEFINE out == Append(in, e)
           N == Len(in) + 1
           C == ComesFirst(in, e, i, j)
<1>1. /\ out[N] = e /\ DOMAIN out = DOMAIN in \cup {N} /\ N \notin DOMAIN in
      /\ \A l \in DOMAIN in : out[l] = in[l]
  BY Appended
<1>2. \A l \in DOMAIN in : /\ BeforeIn(out, l, i) = BeforeIn(in, l, i)
                           /\ BeforeIn(out, l, j) = BeforeIn(in, l, j)
  BY ZenonT(30), BeforeAppended
<1>3. /\ BeforeIn(out, N, i) = AccIn(in, i, e.sample)
      /\ BeforeIn(out, N, j) = AccIn(in, j, e.sample)
  BY BeforeAppended
<1> HIDE DEF out, N
<1>4. ASSUME NEW l \in DOMAIN in
      PROVE  l \in FirstsIn(out, i, j) <=> l \in FirstsIn(in, i, j)
  <2>1. l \in DOMAIN out /\ out[l] = in[l]
    BY <1>1
  <2> QED BY <1>2, <2>1 DEF FirstsIn
<1>5. N \in FirstsIn(out, i, j) <=> C
  BY <1>1, <1>3 DEF FirstsIn, ComesFirst
<1>6. FirstsIn(out, i, j) \subseteq DOMAIN in \cup {N} /\ FirstsIn(in, i, j) \subseteq DOMAIN in
  BY <1>1 DEF FirstsIn
<1> HIDE DEF C
<1>7. FirstsIn(out, i, j) = IF C THEN FirstsIn(in, i, j) \cup {N} ELSE FirstsIn(in, i, j)
  <2>1. CASE C
    BY <1>1, <1>4, <1>5, <1>6, <2>1
  <2>2. CASE ~C
    <3>1. \A l \in DOMAIN in \cup {N} :
            l \in FirstsIn(out, i, j) <=> l \in FirstsIn(in, i, j)
      BY <1>1, <1>4, <1>5, <1>6, <2>2
    <3>2. FirstsIn(out, i, j) = FirstsIn(in, i, j)
      BY <1>6, <3>1
    <3> QED BY <2>2, <3>2
  <2> QED BY <2>1, <2>2
<1> QED BY <1>6, <1>7 DEF out, N, C

\* What an access does to the middle of a pair.
LEMMA MiddleAppended ==
  ASSUME NEW R, NEW in \in Seq(R), NEW e \in R, NEW i, NEW j, NEW id
  PROVE  /\ IF e.page = i /\ e.sample = id
            THEN MiddleSet(Append(in, e), i, j, id) =
                   MiddleSet(in, i, j, id) \cup OpenSet(in, i, j, id)
            ELSE MiddleSet(Append(in, e), i, j, id) = MiddleSet(in, i, j, id)
         /\ LET rest == IF e.page = i /\ e.sample = id THEN {} ELSE OpenSet(in, i, j, id)
            IN  IF e.page = j /\ e.sample = id /\ AccIn(in, i, id) # {}
                THEN OpenSet(Append(in, e), i, j, id) = rest \cup {Len(in) + 1}
                ELSE OpenSet(Append(in, e), i, j, id) = rest
         /\ MiddleSet(in, i, j, id) \subseteq DOMAIN in
         /\ OpenSet(in, i, j, id) \subseteq DOMAIN in
         /\ MiddleSet(in, i, j, id) \cap OpenSet(in, i, j, id) = {}
<1> DEFINE out == Append(in, e)
           N == Len(in) + 1
<1>1. /\ N \in Nat /\ out[N] = e /\ DOMAIN out = DOMAIN in \cup {N} /\ N \notin DOMAIN in
      /\ \A l \in DOMAIN in : out[l] = in[l] /\ l \in Nat /\ l < N
  BY Appended
<1>2. ASSUME NEW p
      PROVE  /\ AccIn(out, p, id) = IF e.page = p /\ e.sample = id
                                    THEN AccIn(in, p, id) \cup {N} ELSE AccIn(in, p, id)
             /\ \A k \in AccIn(in, p, id) : k \in Nat /\ k < N /\ k \in DOMAIN in
  BY AccAppended
<1>3. \A l \in DOMAIN in : BeforeIn(out, l, i) = BeforeIn(in, l, i)
  BY BeforeAppended
<1>4. BeforeIn(out, N, i) = AccIn(in, i, e.sample)
  BY BeforeAppended
<1> HIDE DEF out, N
<1>5. ASSUME NEW l \in DOMAIN in
      PROVE  /\ l \in MiddleSet(out, i, j, id) <=>
                  \/ l \in MiddleSet(in, i, j, id)
                  \/ e.page = i /\ e.sample = id /\ l \in OpenSet(in, i, j, id)
             /\ l \in OpenSet(out, i, j, id) <=>
                  l \in OpenSet(in, i, j, id) /\ ~(e.page = i /\ e.sample = id)
  <2>1. l \in Nat /\ l < N /\ ~(N <= l) /\ l # N
    BY <1>1
  <2>2. l \in AccIn(out, j, id) <=> l \in AccIn(in, j, id)
    BY <1>2, <2>1
  <2>3. \A k \in AccIn(in, i, id) : k \in Nat /\ (~(l < k) <=> k <= l)
    BY <1>2, <2>1
  <2>4. CASE e.page = i /\ e.sample = id
    <3>1. AccIn(out, i, id) = AccIn(in, i, id) \cup {N}
      BY <1>2, <2>4
    <3> QED BY <1>3, <2>1, <2>2, <2>3, <2>4, <3>1 DEF MiddleSet, OpenSet
  <2>5. CASE ~(e.page = i /\ e.sample = id)
    <3>1. AccIn(out, i, id) = AccIn(in, i, id)
      BY <1>2, <2>5
    <3> QED BY <1>3, <2>2, <2>5, <3>1 DEF MiddleSet, OpenSet
  <2> QED BY <2>4, <2>5
<1>6. N \notin MiddleSet(out, i, j, id)
  <2>1. \A k \in AccIn(out, i, id) : ~(N < k)
    BY <1>1, <1>2
  <2> QED BY <2>1 DEF MiddleSet
<1>7. N \in OpenSet(out, i, j, id) <=>
        e.page = j /\ e.sample = id /\ AccIn(in, i, id) # {}
  <2>1. \A k \in AccIn(out, i, id) : k <= N
    BY <1>1, <1>2
  <2>2. N \in AccIn(out, j, id) <=> e.page = j /\ e.sample = id
    BY <1>1, <1>2
  <2> QED BY <1>4, <2>1, <2>2 DEF OpenSet
<1>8. /\ MiddleSet(in, i, j, id) \subseteq DOMAIN in
      /\ OpenSet(in, i, j, id) \subseteq DOMAIN in
      /\ MiddleSet(out, i, j, id) \subseteq DOMAIN in \cup {N}
      /\ OpenSet(out, i, j, id) \subseteq DOMAIN in \cup {N}
  BY <1>1 DEF MiddleSet, OpenSet, AccIn
<1>9. ASSUME NEW l \in MiddleSet(in, i, j, id), l \in OpenSet(in, i, j, id)
      PROVE  FALSE
  <2>1. l \in Nat
    BY <1>1, <1>8
  <2>2. PICK k \in AccIn(in, i, id) : l < k
    BY DEF MiddleSet
  <2>3. k <= l /\ k \in Nat
    BY <1>2, <1>9, <2>2 DEF OpenSet
  <2> QED BY <2>1, <2>2, <2>3
<1>10. IF e.page = i /\ e.sample = id
       THEN MiddleSet(out, i, j, id) = MiddleSet(in, i, j, id) \cup OpenSet(in, i, j, id)
       ELSE MiddleSet(out, i, j, id) = MiddleSet(in, i, j, id)
  <2>1. CASE e.page = i /\ e.sample = id
    BY <1>1, <1>5, <1>6, <1>8, <2>1
  <2>2. CASE ~(e.page = i /\ e.sample = id)
    <3>1. \A l \in DOMAIN in \cup {N} :
            l \in MiddleSet(out, i, j, id) <=> l \in MiddleSet(in, i, j, id)
      BY <1>1, <1>5, <1>6, <1>8, <2>2
    <3>2. MiddleSet(out, i, j, id) = MiddleSet(in, i, j, id)
      BY <1>8, <3>1
    <3> QED BY <2>2, <3>2
  <2> QED BY <2>1, <2>2
<1> DEFINE rest == IF e.page = i /\ e.sample = id THEN {} ELSE OpenSet(in, i, j, id)
<1>11. /\ rest \subseteq DOMAIN in
       /\ \A l \in DOMAIN in : l \in OpenSet(out, i, j, id) <=> l \in rest
  BY <1>5, <1>8
<1> HIDE DEF rest
<1>12. IF e.page = j /\ e.sample = id /\ AccIn(in, i, id) # {}
       THEN OpenSet(out, i, j, id) = rest \cup {N}
       ELSE OpenSet(out, i, j, id) = rest
  <2>1. CASE e.page = j /\ e.sample = id /\ AccIn(in, i, id) # {}
    BY <1>1, <1>7, <1>8, <1>11, <2>1
  <2>2. CASE ~(e.page = j /\ e.sample = id /\ AccIn(in, i, id) # {})
    <3>1. \A l \in DOMAIN in \cup {N} : l \in OpenSet(out, i, j, id) <=> l \in rest
      BY <1>1, <1>7, <1>8, <1>11, <2>2
    <3>2. OpenSet(out, i, j, id) = rest
      BY <1>8, <1>11, <3>1
    <3> QED BY <2>2, <3>2
  <2> QED BY <2>1, <2>2
<1> QED BY <1>8, <1>9, <1>10, <1>12 DEF out, N, rest

\* A first access to j since one to i: there was none after the last one to i.
LEMMA FirstIsNotOpen ==
  ASSUME NEW R, NEW in \in Seq(R), NEW i, NEW j, i # j, NEW id,
         NEW m \in AccIn(in, i, id), \A k \in AccIn(in, i, id) : k <= m
  PROVE  OpenSet(in, i, j, id) = {} <=> \A k \in AccIn(in, j, id) : k < m
<1>1. \A p : \A k \in AccIn(in, p, id) : /\ k \in Nat /\ k \in DOMAIN in
                                         /\ in[k].page = p /\ in[k].sample = id
  BY DEF AccIn
<1>2. ASSUME NEW k \in AccIn(in, j, id), k < m PROVE k \notin OpenSet(in, i, j, id)
  <2>1. k \in Nat /\ m \in Nat /\ ~(m <= k)
    BY <1>1, <1>2
  <2> QED BY <2>1 DEF OpenSet
<1>3. ASSUME NEW k \in AccIn(in, j, id), ~(k < m) PROVE k \in OpenSet(in, i, j, id)
  <2>1. k \in Nat /\ m \in Nat /\ k # m
    BY <1>1
  <2>2. m < k /\ \A h \in AccIn(in, i, id) : h <= k
    BY <1>1, <1>3, <2>1
  <2>3. m \in BeforeIn(in, k, i)
    BY <1>1, <2>2 DEF BeforeIn
  <2> QED BY <2>2, <2>3 DEF OpenSet
<1>4. OpenSet(in, i, j, id) \subseteq AccIn(in, j, id)
  BY DEF OpenSet
<1> QED BY <1>2, <1>3, <1>4
-----------------------------------------------------------------------------
(* Next accesses and middles of a pair of pages.                           *)

DistanceIn(in, i, j) ==
  SumFunction([l \in FirstsIn(in, i, j) |-> l - Max(BeforeIn(in, l, i)) - 1])

PairNext(pr, in, i, j) ==
  /\ pr.next = Cardinality(NextIn(in, i, j))
  /\ pr.access = Cardinality(FirstsIn(in, i, j))
  /\ pr.distance = DistanceIn(in, i, j)
PairMiddle(pr, in, i, j, id) ==
  /\ pr.mid = Cardinality(OpenSet(in, i, j, id))
  /\ pr.smplMiddle = Cardinality(MiddleSet(in, i, j, id))

\* What spatialRUD says of the trace so far, and of its last sample.
PairInv ==
  call.spatial => \A i \in RefBlocks, j \in Pages :
    /\ PairNext(pairs[<<i, j>>], input, i, j)
    /\ phase = "reading" =>
         PairMiddle(pairs[<<i, j>>], input, i, j, Last(input).sample)

LEMMA SetsOfPair ==
  ASSUME NEW R, NEW in \in Seq(R), NEW i, NEW j
  PROVE  /\ IsFiniteSet(NextIn(in, i, j)) /\ IsFiniteSet(FirstsIn(in, i, j))
         /\ \A id : /\ IsFiniteSet(OpenSet(in, i, j, id))
                    /\ IsFiniteSet(MiddleSet(in, i, j, id))
                    /\ IsFiniteSet(AccIn(in, i, id))
<1>1. Len(in) \in Nat /\ DOMAIN in = 1 .. Len(in)
  OBVIOUS
<1>2. IsFiniteSet(1 .. Len(in))
  BY <1>1, FS_Interval
<1>3. \A T \in SUBSET (1 .. Len(in)) : IsFiniteSet(T)
  BY <1>2, FS_Subset
<1>4. NextIn(in, i, j) \subseteq 1 .. Len(in) /\ FirstsIn(in, i, j) \subseteq 1 .. Len(in)
  BY <1>1 DEF NextIn, FirstsIn
<1>5. ASSUME NEW id
      PROVE  /\ OpenSet(in, i, j, id) \subseteq 1 .. Len(in)
             /\ MiddleSet(in, i, j, id) \subseteq 1 .. Len(in)
             /\ AccIn(in, i, id) \subseteq 1 .. Len(in)
  BY <1>1 DEF OpenSet, MiddleSet, AccIn
<1> QED BY <1>3, <1>4, <1>5

\* The greatest element is what Max says it is.
LEMMA MaxIs ==
  ASSUME NEW S, S \subseteq Nat, NEW m \in S, \A x \in S : x <= m
  PROVE  Max(S) = m
<1>1. \A x \in S : x \in Nat
  OBVIOUS
<1>2. \A x \in S : (\A y \in S : x >= y) => x = m
  BY <1>1
<1>3. \A y \in S : m >= y
  BY <1>1
<1> QED BY <1>2, <1>3 DEF Max

\* The distances to first accesses are natural numbers.
LEMMA DistanceType ==
  ASSUME NEW R, NEW in \in Seq(R), NEW i, NEW j, NEW l \in FirstsIn(in, i, j)
  PROVE  l - Max(BeforeIn(in, l, i)) - 1 \in Nat
<1>1. l \in Nat /\ BeforeIn(in, l, i) # {}
  BY DEF FirstsIn
<1>2. BeforeIn(in, l, i) \subseteq Nat /\ \A k \in BeforeIn(in, l, i) : k < l
  BY DEF BeforeIn, AccIn
<1>3. BeforeIn(in, l, i) \subseteq 0 .. l
  BY <1>1, <1>2
<1>4. PICK m \in BeforeIn(in, l, i) : \A x \in BeforeIn(in, l, i) : x <= m
  BY <1>1, <1>3, GreatestElement
<1>5. Max(BeforeIn(in, l, i)) = m
  BY <1>2, <1>4, MaxIs
<1>6. m \in Nat /\ m < l
  BY <1>2, <1>4
<1> QED BY <1>1, <1>5, <1>6

LEMMA DistanceAppended ==
  ASSUME NEW R, NEW in \in Seq(R), NEW e \in R, NEW i, NEW j,
         NEW N, N = Len(in) + 1
  PROVE  DistanceIn(Append(in, e), i, j) =
           IF ComesFirst(in, e, i, j)
           THEN DistanceIn(in, i, j) + (N - Max(AccIn(in, i, e.sample)) - 1)
           ELSE DistanceIn(in, i, j)
<1> DEFINE out == Append(in, e)
           C == ComesFirst(in, e, i, j)
           S == FirstsIn(in, i, j)
           T == FirstsIn(out, i, j)
           f == [l \in S |-> l - Max(BeforeIn(in, l, i)) - 1]
           g == [l \in T |-> l - Max(BeforeIn(out, l, i)) - 1]
<1>1. /\ T = IF C THEN S \cup {N} ELSE S
      /\ S \subseteq DOMAIN in /\ N \notin DOMAIN in
  <2>1. N \notin DOMAIN in
    BY Appended
  <2> QED BY <2>1, FirstsAppended
<1>2. /\ \A l \in S : BeforeIn(out, l, i) = BeforeIn(in, l, i)
      /\ BeforeIn(out, N, i) = AccIn(in, i, e.sample)
  <2>1. /\ \A l \in DOMAIN in : BeforeIn(out, l, i) = BeforeIn(in, l, i)
        /\ BeforeIn(out, N, i) = AccIn(in, i, e.sample)
    BY BeforeAppended
  <2> HIDE DEF S, out
  <2> QED BY <1>1, <2>1
<1>3. DistanceIn(in, i, j) = SumFunctionOnSet(f, S)
  BY Zenon DEF DistanceIn, SumFunction
<1>4. DistanceIn(out, i, j) = SumFunctionOnSet(g, T)
  BY Zenon DEF DistanceIn, SumFunction
<1>5. out \in Seq(R)
  OBVIOUS
<1>6. IsFiniteSet(S) /\ IsFiniteSet(T)
  BY <1>5, SetsOfPair
<1>7. \A l \in S : f[l] \in Nat
  BY DistanceType
<1>8. \A l \in T : g[l] \in Nat
  BY <1>5, DistanceType
<1>9. \A l \in S : l \in T /\ g[l] = f[l]
  BY <1>1, <1>2
<1>10. C => N \in T /\ g[N] = N - Max(AccIn(in, i, e.sample)) - 1
  BY <1>1, <1>2
<1> HIDE DEF f, g, S, T, C, out
<1>11. SumFunctionOnSet(g, S) = SumFunctionOnSet(f, S)
  BY <1>6, <1>7, <1>9, SumEqual
<1>12. ~C => DistanceIn(out, i, j) = DistanceIn(in, i, j)
  BY <1>1, <1>3, <1>4, <1>11
<1>13. C => DistanceIn(out, i, j) =
              DistanceIn(in, i, j) + (N - Max(AccIn(in, i, e.sample)) - 1)
  <2> SUFFICES ASSUME C
               PROVE  DistanceIn(out, i, j) =
                        DistanceIn(in, i, j) + (N - Max(AccIn(in, i, e.sample)) - 1)
    OBVIOUS
  <2>1. N \notin S /\ T = S \cup {N}
    BY <1>1
  <2>2. SumFunctionOnSet(g, T) = SumFunctionOnSet(g, S) + g[N]
    BY <1>6, <1>8, <2>1, SumAdd
  <2> QED BY <1>3, <1>4, <1>10, <1>11, <2>2
<1>14. DistanceIn(out, i, j) =
         IF C THEN DistanceIn(in, i, j) + (N - Max(AccIn(in, i, e.sample)) - 1)
         ELSE DistanceIn(in, i, j)
  BY <1>12, <1>13
<1> QED BY <1>14 DEF C, out
\* The same, counted.
LEMMA NextCount ==
  ASSUME NEW R, NEW in \in Seq(R), NEW e \in R, NEW i, NEW j
  PROVE  Cardinality(NextIn(Append(in, e), i, j)) =
           Cardinality(NextIn(in, i, j))
           + IF /\ in # << >> /\ in[Len(in)].sample = e.sample
                /\ in[Len(in)].page = i /\ e.page = j THEN 1 ELSE 0
<1> DEFINE C == /\ in # << >> /\ in[Len(in)].sample = e.sample
                /\ in[Len(in)].page = i /\ e.page = j
           S == NextIn(in, i, j)
<1>1. IsFiniteSet(S) /\ Cardinality(S) \in Nat /\ Len(in) \notin S
  BY SetsOfPair, NextAppended, FS_CardinalityType
<1>2. CASE C
  <2>1. NextIn(Append(in, e), i, j) = S \cup {Len(in)}
    BY <1>2, NextAppended
  <2>2. Cardinality(S \cup {Len(in)}) = Cardinality(S) + 1
    BY <1>1, FS_AddElement
  <2> QED BY <1>2, <2>1, <2>2
<1>3. CASE ~C
  <2>1. NextIn(Append(in, e), i, j) = S
    BY <1>3, NextAppended
  <2> HIDE DEF C, S
  <2>2. Cardinality(NextIn(Append(in, e), i, j)) = Cardinality(S) + IF C THEN 1 ELSE 0
    BY <1>1, <1>3, <2>1
  <2> QED BY <2>2 DEF C, S
<1> QED BY <1>2, <1>3

LEMMA FirstsCount ==
  ASSUME NEW R, NEW in \in Seq(R), NEW e \in R, NEW i, NEW j
  PROVE  Cardinality(FirstsIn(Append(in, e), i, j)) =
           Cardinality(FirstsIn(in, i, j)) + IF ComesFirst(in, e, i, j) THEN 1 ELSE 0
<1> DEFINE S == FirstsIn(in, i, j)
           N == Len(in) + 1
<1>1. S \subseteq DOMAIN in
  BY FirstsAppended
<1>2. N \notin DOMAIN in
  BY Appended
<1>3. IsFiniteSet(S) /\ Cardinality(S) \in Nat /\ N \notin S
  BY <1>1, <1>2, SetsOfPair, FS_CardinalityType
<1>4. CASE ComesFirst(in, e, i, j)
  <2>1. FirstsIn(Append(in, e), i, j) = S \cup {N}
    BY <1>4, FirstsAppended
  <2>2. Cardinality(S \cup {N}) = Cardinality(S) + 1
    BY <1>3, FS_AddElement
  <2> QED BY <1>4, <2>1, <2>2
<1>5. CASE ~ComesFirst(in, e, i, j)
  <2>1. FirstsIn(Append(in, e), i, j) = S
    BY <1>5, FirstsAppended
  <2> QED BY <1>3, <1>5, <2>1
<1> QED BY <1>4, <1>5

LEMMA MiddleCount ==
  ASSUME NEW R, NEW in \in Seq(R), NEW e \in R, NEW i, NEW j, NEW id
  PROVE  /\ Cardinality(MiddleSet(Append(in, e), i, j, id)) =
              Cardinality(MiddleSet(in, i, j, id))
              + IF e.page = i /\ e.sample = id
                THEN Cardinality(OpenSet(in, i, j, id)) ELSE 0
         /\ Cardinality(OpenSet(Append(in, e), i, j, id)) =
              (IF e.page = i /\ e.sample = id THEN 0
               ELSE Cardinality(OpenSet(in, i, j, id)))
              + IF e.page = j /\ e.sample = id /\ AccIn(in, i, id) # {} THEN 1 ELSE 0
         /\ Cardinality(OpenSet(in, i, j, id)) \in Nat
         /\ Cardinality(MiddleSet(in, i, j, id)) \in Nat
<1> DEFINE S == MiddleSet(in, i, j, id)
           T == OpenSet(in, i, j, id)
           out == Append(in, e)
           N == Len(in) + 1
           A == e.page = i /\ e.sample = id
           B == e.page = j /\ e.sample = id /\ AccIn(in, i, id) # {}
           U == IF A THEN {} ELSE T
<1>1. /\ A => MiddleSet(out, i, j, id) = S \cup T
      /\ ~A => MiddleSet(out, i, j, id) = S
      /\ B => OpenSet(out, i, j, id) = U \cup {N}
      /\ ~B => OpenSet(out, i, j, id) = U
      /\ S \cap T = {} /\ T \subseteq DOMAIN in
  BY MiddleAppended
<1>2. N \notin DOMAIN in
  BY Appended
<1>3. /\ IsFiniteSet(S) /\ IsFiniteSet(T)
      /\ Cardinality(S) \in Nat /\ Cardinality(T) \in Nat
  BY SetsOfPair, FS_CardinalityType
<1>4. Cardinality({}) = 0 /\ IsFiniteSet({})
  BY FS_EmptySet
<1>5. /\ U = {} \/ U = T
      /\ A => U = {}
      /\ ~A => U = T
  OBVIOUS
<1> HIDE DEF A, B, S, T, out, N, U
<1>6. Cardinality(S \cup T) = Cardinality(S) + Cardinality(T)
  <2>1. Cardinality(S \cup T) = Cardinality(S) + Cardinality(T) - Cardinality(S \cap T)
    BY <1>3, FS_Union
  <2>2. Cardinality(S \cap T) = 0
    BY <1>1, <1>4
  <2> QED BY <1>3, <2>1, <2>2
<1>7. /\ IsFiniteSet(U) /\ N \notin U
      /\ Cardinality(U) = IF A THEN 0 ELSE Cardinality(T)
      /\ Cardinality(U) \in Nat
  <2>1. CASE A
    <3>1. U = {}
      BY <1>5, <2>1
    <3> QED BY <1>4, <2>1, <3>1
  <2>2. CASE ~A
    BY <1>1, <1>2, <1>3, <1>5, <2>2
  <2> QED BY <2>1, <2>2
<1>8. Cardinality(U \cup {N}) = Cardinality(U) + 1
  BY <1>7, FS_AddElement
<1>9. Cardinality(MiddleSet(out, i, j, id)) =
        Cardinality(S) + IF A THEN Cardinality(T) ELSE 0
  <2>1. CASE A
    BY <1>1, <1>6, <2>1
  <2>2. CASE ~A
    BY <1>1, <1>3, <2>2
  <2> QED BY <2>1, <2>2
<1>10. Cardinality(OpenSet(out, i, j, id)) =
         (IF A THEN 0 ELSE Cardinality(T)) + IF B THEN 1 ELSE 0
  <2>1. CASE B
    BY <1>1, <1>7, <1>8, <2>1
  <2>2. CASE ~B
    BY <1>1, <1>7, <2>2
  <2> QED BY <2>1, <2>2
<1> QED BY <1>3, <1>9, <1>10 DEF A, B, S, T, out

\* sampleLastAccess has the last access to a page in the sample, if any.
LEMMA LastOf ==
  ASSUME call \in Calls, input \in Seq(Inputs), NEW s \in Samples, NEW id,
         RecencyOf(s, input, id), NEW i \in Pages
  PROVE  /\ s.last[i] \in Nat /\ s.last[i] <= Len(input)
         /\ s.last[i] = 0 <=> AccIn(input, i, id) = {}
         /\ s.last[i] = 0 <=> s.access[i] = 0
         /\ s.last[i] # 0 => /\ s.last[i] \in AccIn(input, i, id)
                             /\ \A k \in AccIn(input, i, id) : k <= s.last[i]
                             /\ Max(AccIn(input, i, id)) = s.last[i]
<1>1. s.access[i] \in Nat /\ s.last[i] \in Nat
  BY DEF Samples, Counts
<1>2. Len(input) \in Nat /\ DOMAIN input = 1 .. Len(input)
  OBVIOUS
<1>3. ASSUME NEW k \in AccIn(input, i, id)
      PROVE  s.access[i] > 0 /\ k <= s.last[i] /\ k \in 1 .. Len(input)
  BY <1>2 DEF AccIn, RecencyOf, LastIsLatest
<1>4. CASE s.access[i] = 0
  <2>1. s.last[i] = 0
    BY <1>4 DEF RecencyOf, LastIsAccess
  <2>2. AccIn(input, i, id) = {}
    BY <1>1, <1>3, <1>4
  <2> QED BY <1>2, <1>4, <2>1, <2>2
<1>5. CASE s.access[i] # 0
  <2>1. s.last[i] \in AccIn(input, i, id)
    BY <1>1, <1>5 DEF RecencyOf, LastIsAccess, AccIn
  <2>2. s.last[i] \in 1 .. Len(input)
    BY <1>3, <2>1
  <2>3. AccIn(input, i, id) \subseteq Nat
    BY <1>2 DEF AccIn
  <2>4. Max(AccIn(input, i, id)) = s.last[i]
    BY <1>3, <2>1, <2>3, MaxIs
  <2> QED BY <1>1, <1>2, <1>3, <1>5, <2>1, <2>2, <2>4
<1> QED BY <1>4, <1>5

\* The fields of a pair after an access.
RelatedPair(pr, i, j, p) ==
  Met(Flushed(Followed(pr, i, j, p), i, j, p), i, j, p)

LEMMA RelatedFields ==
  ASSUME NEW pr \in PairTypes, NEW i, NEW j, NEW p
  PROVE  LET q   == RelatedPair(pr, i, j, p)
             mid == IF i = p THEN 0 ELSE pr.mid
             met == j = p /\ smpl.last[i] # 0
         IN  /\ q.next = IF i = Last(input).page /\ j = p THEN pr.next + 1 ELSE pr.next
             /\ q.access = IF met /\ mid = 0 THEN pr.access + 1 ELSE pr.access
             /\ q.distance = IF met /\ mid = 0
                             THEN pr.distance + time - smpl.last[i] - 1
                             ELSE pr.distance
             /\ q.mid = IF met THEN mid + 1 ELSE mid
             /\ q.totalMid = IF i = p THEN pr.totalMid + pr.mid ELSE pr.totalMid
             /\ q.smplMiddle = IF i = p THEN pr.smplMiddle + pr.mid ELSE pr.smplMiddle
             /\ q.smplAvg = pr.smplAvg
<1> DEFINE a == Followed(pr, i, j, p)
           b == Flushed(a, i, j, p)
           q == Met(b, i, j, p)
<1>1. a \in PairTypes
  BY FollowedType
<1>2. b \in PairTypes
  BY <1>1, FlushedType
<1>3. /\ a.next = IF i = Last(input).page /\ j = p THEN pr.next + 1 ELSE pr.next
      /\ a.access = pr.access /\ a.distance = pr.distance /\ a.mid = pr.mid
      /\ a.totalMid = pr.totalMid /\ a.smplMiddle = pr.smplMiddle
      /\ a.smplAvg = pr.smplAvg
  BY DEF PairTypes, Followed
<1> HIDE DEF a
<1>4. /\ b.next = a.next /\ b.access = a.access /\ b.distance = a.distance
      /\ b.mid = IF i = p THEN 0 ELSE a.mid
      /\ b.totalMid = IF i = p THEN a.totalMid + a.mid ELSE a.totalMid
      /\ b.smplMiddle = IF i = p THEN a.smplMiddle + a.mid ELSE a.smplMiddle
      /\ b.smplAvg = a.smplAvg
  BY <1>1 DEF PairTypes, Flushed
<1> HIDE DEF b
<1>5. LET met == j = p /\ smpl.last[i] # 0
      IN /\ q.next = b.next
         /\ q.access = IF met /\ b.mid = 0 THEN b.access + 1 ELSE b.access
         /\ q.distance = IF met /\ b.mid = 0
                         THEN b.distance + time - smpl.last[i] - 1 ELSE b.distance
         /\ q.mid = IF met THEN b.mid + 1 ELSE b.mid
         /\ q.totalMid = b.totalMid /\ q.smplMiddle = b.smplMiddle
         /\ q.smplAvg = b.smplAvg
  BY <1>2 DEF PairTypes, Met
<1>6. RelatedPair(pr, i, j, p) = q
  BY DEF RelatedPair, a, b
<1> HIDE DEF q
<1> QED BY <1>3, <1>4, <1>5, <1>6

\* An access in the sample of the last one.
LEMMA PairInSample ==
  ASSUME call \in Calls, input \in Seq(Inputs), input # << >>, smpl \in Samples,
         NEW id \in SampleIDs, id = Last(input).sample, RecencyOf(smpl, input, id),
         NEW i \in RefBlocks, NEW j \in Pages, NEW p \in Pages,
         NEW pr \in PairTypes, PairNext(pr, input, i, j),
         PairMiddle(pr, input, i, j, id)
  PROVE  LET out == Append(input, [page |-> p, sample |-> id])
         IN  /\ PairNext(RelatedPair(pr, i, j, p), out, i, j)
             /\ PairMiddle(RelatedPair(pr, i, j, p), out, i, j, id)
<1> DEFINE e == [page |-> p, sample |-> id]
           out == Append(input, e)
           N == Len(input) + 1
           L == smpl.last[i]
           q == RelatedPair(pr, i, j, p)
           mid == IF i = p THEN 0 ELSE pr.mid
           met == j = p /\ smpl.last[i] # 0
           open == OpenSet(input, i, j, id)
           middle == MiddleSet(input, i, j, id)
<1>1. e \in Inputs /\ e.page = p /\ e.sample = id
  BY DEF Inputs
<1>2. i \in Pages
  BY PagesType
<1>3. /\ L \in Nat /\ L <= Len(input)
      /\ L = 0 <=> AccIn(input, i, id) = {}
      /\ L # 0 => /\ L \in AccIn(input, i, id)
                  /\ \A k \in AccIn(input, i, id) : k <= L
                  /\ Max(AccIn(input, i, id)) = L
  BY <1>2, LastOf
<1>4. /\ q.next = IF i = Last(input).page /\ j = p THEN pr.next + 1 ELSE pr.next
      /\ q.access = IF met /\ mid = 0 THEN pr.access + 1 ELSE pr.access
      /\ q.distance = IF met /\ mid = 0 THEN pr.distance + time - L - 1
                      ELSE pr.distance
      /\ q.mid = IF met THEN mid + 1 ELSE mid
      /\ q.smplMiddle = IF i = p THEN pr.smplMiddle + pr.mid ELSE pr.smplMiddle
  BY RelatedFields
<1>5. /\ IsFiniteSet(open) /\ IsFiniteSet(middle)
      /\ IsFiniteSet(NextIn(input, i, j)) /\ IsFiniteSet(FirstsIn(input, i, j))
  BY SetsOfPair
<1>6. Len(input) \in Nat /\ N = Len(input) + 1 /\ DOMAIN input = 1 .. Len(input)
      /\ N \notin DOMAIN input
  OBVIOUS
<1>7. pr.mid = Cardinality(open) /\ pr.smplMiddle = Cardinality(middle)
  BY DEF PairMiddle
<1>8. mid = 0 <=> i = p \/ open = {}
  BY <1>5, <1>7, FS_EmptySet
<1>9. ComesFirst(input, e, i, j) <=> met /\ mid = 0
  <2>1. ComesFirst(input, e, i, j) <=>
          /\ j = p /\ L # 0
          /\ \A k \in AccIn(input, j, id) : i # j => k < Max(AccIn(input, i, id))
    BY <1>1, <1>3 DEF ComesFirst
  <2>2. CASE ~met
    BY <2>1, <2>2
  <2>3. CASE met /\ i = j
    BY <1>8, <2>1, <2>3
  <2>4. CASE met /\ i # j
    <3>1. open = {} <=> \A k \in AccIn(input, j, id) : k < L
      BY <1>3, <2>4, FirstIsNotOpen
    <3> HIDE DEF open, mid
    <3> QED BY <1>3, <1>8, <2>1, <2>4, <3>1
  <2> QED BY <2>2, <2>3, <2>4
<1>10. q.next = Cardinality(NextIn(out, i, j))
  <2>1. Cardinality(NextIn(out, i, j)) =
          pr.next + IF i = Last(input).page /\ j = p THEN 1 ELSE 0
    BY <1>1, NextCount DEF Last, PairNext
  <2>2. pr.next \in Nat
    BY DEF PairTypes
  <2> HIDE DEF q, out
  <2> QED BY <1>4, <2>1, <2>2
<1>11. q.access = Cardinality(FirstsIn(out, i, j))
  <2>1. Cardinality(FirstsIn(out, i, j)) =
          pr.access + IF ComesFirst(input, e, i, j) THEN 1 ELSE 0
    BY <1>1, FirstsCount DEF PairNext
  <2>2. pr.access \in Nat
    BY DEF PairTypes
  <2> HIDE DEF q, out, met, mid, e
  <2> QED BY <1>4, <1>9, <2>1, <2>2
<1>12. q.distance = DistanceIn(out, i, j)
  <2>1. DistanceIn(out, i, j) =
          IF ComesFirst(input, e, i, j)
          THEN DistanceIn(input, i, j) + (N - Max(AccIn(input, i, id)) - 1)
          ELSE DistanceIn(input, i, j)
    BY <1>1, <1>6, DistanceAppended
  <2>2. pr.distance = DistanceIn(input, i, j) /\ pr.distance \in Nat
    BY DEF PairNext, PairTypes
  <2>3. met => L # 0
    OBVIOUS
  <2>4. time = N
    BY DEF time
  <2> HIDE DEF q, out, met, mid, L, N
  <2>5. CASE met /\ mid = 0
    <3>1. /\ q.distance = pr.distance + N - L - 1
          /\ DistanceIn(out, i, j) = pr.distance + (N - L - 1)
      BY <1>3, <1>4, <1>9, <2>1, <2>2, <2>3, <2>4, <2>5
    <3>2. N \in Nat /\ L \in Nat
      BY <1>3, <1>6
    <3> QED BY <2>2, <3>1, <3>2
  <2>6. CASE ~(met /\ mid = 0)
    BY <1>4, <1>9, <2>1, <2>2, <2>6
  <2> QED BY <2>5, <2>6
<1>13. /\ q.mid = Cardinality(OpenSet(out, i, j, id))
       /\ q.smplMiddle = Cardinality(MiddleSet(out, i, j, id))
  <2>1. /\ Cardinality(MiddleSet(out, i, j, id)) =
             Cardinality(middle) + IF i = p THEN Cardinality(open) ELSE 0
        /\ Cardinality(OpenSet(out, i, j, id)) =
             (IF i = p THEN 0 ELSE Cardinality(open)) + IF met THEN 1 ELSE 0
        /\ Cardinality(open) \in Nat /\ Cardinality(middle) \in Nat
    BY <1>1, <1>3, MiddleCount
  <2>2. mid = IF i = p THEN 0 ELSE pr.mid
    OBVIOUS
  <2> HIDE DEF q, out, met, mid, open, middle
  <2> QED BY <1>4, <1>7, <2>1, <2>2
<1> QED BY <1>10, <1>11, <1>12, <1>13 DEF PairNext, PairMiddle
\* An access of a sample the trace does not have yet.
LEMMA PairNewSample ==
  ASSUME NEW R, NEW in \in Seq(R), NEW e \in R, NEW i, NEW j,
         \A l \in DOMAIN in : in[l].sample # e.sample,
         NEW pr, PairNext(pr, in, i, j)
  PROVE  /\ PairNext(pr, Append(in, e), i, j)
         /\ Cardinality(OpenSet(Append(in, e), i, j, e.sample)) = 0
         /\ Cardinality(MiddleSet(Append(in, e), i, j, e.sample)) = 0
<1>1. \A p : AccIn(in, p, e.sample) = {}
  BY DEF AccIn
<1>2. ~ComesFirst(in, e, i, j)
  BY <1>1 DEF ComesFirst
<1>3. ~(in # << >> /\ in[Len(in)].sample = e.sample)
  OBVIOUS
<1>4. /\ Cardinality(NextIn(in, i, j)) \in Nat /\ Cardinality(FirstsIn(in, i, j)) \in Nat
  BY SetsOfPair, FS_CardinalityType
<1>5. Cardinality(NextIn(Append(in, e), i, j)) = Cardinality(NextIn(in, i, j)) + 0
  BY <1>3, NextCount
<1>6. Cardinality(FirstsIn(Append(in, e), i, j)) = Cardinality(FirstsIn(in, i, j)) + 0
  BY <1>2, FirstsCount
<1>7. DistanceIn(Append(in, e), i, j) = DistanceIn(in, i, j)
  BY <1>2, DistanceAppended
<1>8. OpenSet(in, i, j, e.sample) = {} /\ MiddleSet(in, i, j, e.sample) = {}
  BY <1>1 DEF OpenSet, MiddleSet
<1>9. Cardinality({}) = 0
  BY FS_EmptySet
<1>10. /\ Cardinality(OpenSet(Append(in, e), i, j, e.sample)) = 0
       /\ Cardinality(MiddleSet(Append(in, e), i, j, e.sample)) = 0
  <2> DEFINE m == Cardinality(MiddleSet(Append(in, e), i, j, e.sample))
             o == Cardinality(OpenSet(Append(in, e), i, j, e.sample))
  <2>1. /\ m = Cardinality(MiddleSet(in, i, j, e.sample))
               + IF e.page = i /\ e.sample = e.sample
                 THEN Cardinality(OpenSet(in, i, j, e.sample)) ELSE 0
        /\ o = (IF e.page = i /\ e.sample = e.sample THEN 0
                ELSE Cardinality(OpenSet(in, i, j, e.sample)))
               + IF /\ e.page = j /\ e.sample = e.sample
                    /\ AccIn(in, i, e.sample) # {} THEN 1 ELSE 0
    BY MiddleCount
  <2> HIDE DEF m, o
  <2>2. m = 0 /\ o = 0
    BY <1>1, <1>8, <1>9, <2>1
  <2> QED BY <2>2 DEF m, o
<1> QED BY <1>4, <1>5, <1>6, <1>7, <1>10 DEF PairNext

LEMMA PairInit ==
  ASSUME Init
  PROVE  PairInv
<1> SUFFICES ASSUME NEW i \in RefBlocks, NEW j \in Pages
             PROVE  /\ PairNext(pairs[<<i, j>>], input, i, j)
                    /\ PairMiddle(pairs[<<i, j>>], input, i, j, Last(input).sample)
  BY DEF PairInv
<1>1. pairs[<<i, j>>] = NoPair /\ input = << >>
  BY DEF Init
<1>2. NextIn(<< >>, i, j) = {} /\ FirstsIn(<< >>, i, j) = {}
  BY DEF NextIn, FirstsIn
<1>3. \A id : OpenSet(<< >>, i, j, id) = {} /\ MiddleSet(<< >>, i, j, id) = {}
  BY DEF OpenSet, MiddleSet, AccIn
<1>4. DistanceIn(<< >>, i, j) = 0
  <2> DEFINE f == [l \in FirstsIn(<< >>, i, j) |-> l - Max(BeforeIn(<< >>, l, i)) - 1]
  <2>1. DistanceIn(<< >>, i, j) = SumFunctionOnSet(f, FirstsIn(<< >>, i, j))
    BY Zenon DEF DistanceIn, SumFunction
  <2> HIDE DEF f
  <2> QED BY <1>2, <2>1, SumEmpty
<1>5. Cardinality({}) = 0
  BY FS_EmptySet
<1>6. /\ NoPair.next = 0 /\ NoPair.access = 0 /\ NoPair.distance = 0
      /\ NoPair.mid = 0 /\ NoPair.smplMiddle = 0
  BY DEF NoPair
<1>7. PairNext(NoPair, << >>, i, j)
  BY <1>2, <1>4, <1>5, <1>6 DEF PairNext
<1>8. \A id : PairMiddle(NoPair, << >>, i, j, id)
  BY <1>3, <1>5, <1>6 DEF PairMiddle
<1> QED BY <1>1, <1>7, <1>8

\* An access that starts a sample, the counters of which are 0.
LEMMA PairStartKeeps ==
  ASSUME TypeOK, NEW p \in Pages, NEW id \in SampleIDs, IsAccess(p, id),
         \A l \in DOMAIN input : input[l].sample # id,
         call.spatial => \A i \in RefBlocks, j \in Pages :
           /\ PairNext(pairs'[<<i, j>>], input, i, j)
           /\ pairs'[<<i, j>>].mid = 0 /\ pairs'[<<i, j>>].smplMiddle = 0
  PROVE  PairInv'
<1> DEFINE e == [page |-> p, sample |-> id]
           out == Append(input, e)
<1>1. input \in Seq(Inputs) /\ e \in Inputs /\ e.sample = id
  BY TypeOKIs DEF Inputs
<1>2. input' = out /\ call' = call /\ Last(out).sample = id
  <2>1. Last(out) = e
    BY <1>1 DEF Last
  <2> QED BY <1>1, <2>1 DEF IsAccess
<1>3. ASSUME call.spatial, NEW i \in RefBlocks, NEW j \in Pages
      PROVE  /\ PairNext(pairs'[<<i, j>>], out, i, j)
             /\ PairMiddle(pairs'[<<i, j>>], out, i, j, id)
  <2>1. /\ PairNext(pairs'[<<i, j>>], input, i, j)
        /\ pairs'[<<i, j>>].mid = 0 /\ pairs'[<<i, j>>].smplMiddle = 0
    BY <1>3
  <2> QED BY <1>1, <2>1, PairNewSample DEF PairMiddle
<1> HIDE DEF out
<1>4. RefBlocks' = RefBlocks /\ Pages' = Pages
  BY <1>2, SameCall
<1> QED BY <1>2, <1>3, <1>4 DEF PairInv

LEMMA PairFirstAccess ==
  ASSUME SpatialInv, PairInv, NEW addr \in Addrs, NEW id \in SampleIDs,
         FirstAccess(addr, id)
  PROVE  PairInv'
<1> DEFINE p == PageID(addr)
<1>1. /\ TypeOK /\ p \in Pages /\ IsAccess(p, id) /\ input = << >>
      /\ pairs' = pairs /\ phase = "reading"
  BY PageOfAddr DEF SpatialInv, FirstAccess, IsAccess
<1> HIDE DEF p
<1>2. ASSUME call.spatial, NEW i \in RefBlocks, NEW j \in Pages
      PROVE  /\ PairNext(pairs'[<<i, j>>], input, i, j)
             /\ pairs'[<<i, j>>].mid = 0 /\ pairs'[<<i, j>>].smplMiddle = 0
  <2>1. /\ PairNext(pairs[<<i, j>>], input, i, j)
        /\ PairMiddle(pairs[<<i, j>>], input, i, j, Last(input).sample)
    BY <1>1, <1>2 DEF PairInv
  <2>2. \A d : OpenSet(<< >>, i, j, d) = {} /\ MiddleSet(<< >>, i, j, d) = {}
    BY DEF OpenSet, MiddleSet, AccIn
  <2> QED BY <1>1, <2>1, <2>2, FS_EmptySet DEF PairMiddle
<1> QED BY <1>1, <1>2, PairStartKeeps

LEMMA PairAccessInSample ==
  ASSUME SpatialInv, PairInv, NEW addr \in Addrs, NEW id \in SampleIDs,
         AccessInSample(addr, id)
  PROVE  PairInv'
<1> DEFINE p == PageID(addr)
           e == [page |-> p, sample |-> id]
           out == Append(input, e)
<1>1. /\ TypeOK /\ p \in Pages /\ IsAccess(p, id) /\ input # << >>
      /\ id = Last(input).sample /\ phase = "reading"
      /\ pairs' = IF call.spatial THEN Related(p) ELSE pairs
      /\ RecencyOf(smpl, input, id)
  BY PageOfAddr DEF SpatialInv, AccessInSample, IsAccess
<1>2. /\ call \in Calls /\ input \in Seq(Inputs) /\ smpl \in Samples
      /\ pairs \in PairArrays /\ e \in Inputs
  BY <1>1, TypeOKIs DEF Inputs
<1>3. input' = out /\ call' = call /\ Last(out).sample = id
  <2>1. Last(out) = e
    BY <1>2 DEF Last
  <2> QED BY <1>1, <2>1 DEF IsAccess
<1>4. ASSUME call.spatial, NEW i \in RefBlocks, NEW j \in Pages
      PROVE  /\ PairNext(pairs'[<<i, j>>], out, i, j)
             /\ PairMiddle(pairs'[<<i, j>>], out, i, j, id)
  <2> DEFINE pr == pairs[<<i, j>>]
  <2>1. /\ PairNext(pr, input, i, j) /\ PairMiddle(pr, input, i, j, id)
    BY <1>1, <1>4 DEF PairInv
  <2>2. pr \in PairTypes /\ <<i, j>> \in DOMAIN pairs
    BY <1>2 DEF PairArrays
  <2>3. pairs'[<<i, j>>] = RelatedPair(pr, i, j, p)
    BY <1>1, <1>4, <2>2 DEF Related, RelatedPair
  <2> HIDE DEF pr
  <2> QED BY <1>1, <1>2, <2>1, <2>2, <2>3, PairInSample
<1> HIDE DEF out
<1>5. RefBlocks' = RefBlocks /\ Pages' = Pages
  BY <1>3, SameCall
<1> QED BY <1>3, <1>4, <1>5 DEF PairInv

\* No access of the trace has the id of a new sample.
LEMMA IdIsNew ==
  ASSUME TypeOK, SortedSamples, input # << >>, NEW id \in SampleIDs,
         id > Last(input).sample
  PROVE  \A l \in DOMAIN input : input[l].sample # id /\ input[l].sample < id
<1>1. input \in Seq(Inputs)
  BY TypeOKIs
<1>2. ASSUME NEW l \in DOMAIN input PROVE input[l].sample < id
  <2>1. Len(input) \in DOMAIN input /\ l <= Len(input)
    BY <1>1
  <2>2. input[l].sample <= Last(input).sample
    BY <2>1 DEF SortedSamples, Last
  <2>3. input[l].sample \in Nat /\ input[Len(input)].sample \in Nat /\ id \in Nat
    <3>1. input[l] \in Inputs /\ input[Len(input)] \in Inputs
      BY <1>1, <2>1
    <3> QED BY <3>1, AddressesAssumption DEF Inputs
  <2> QED BY <2>2, <2>3 DEF Last
<1>3. ASSUME NEW l \in DOMAIN input PROVE input[l].sample \in Nat /\ id \in Nat
  <2>1. input[l] \in Inputs
    BY <1>1
  <2> QED BY <2>1, AddressesAssumption DEF Inputs
<1> QED BY <1>2, <1>3

LEMMA AveragedFields ==
  ASSUME NEW pr \in PairTypes, NEW life \in Nat
  PROVE  LET q == Averaged(pr, life)
         IN  /\ q.next = pr.next /\ q.access = pr.access /\ q.distance = pr.distance
             /\ q.totalMid = pr.totalMid /\ q.mid = 0 /\ q.smplMiddle = 0
             /\ q.smplAvg = IF life = 0 THEN pr.smplAvg
                            ELSE Append(pr.smplAvg, <<pr.smplMiddle, life + 1>>)
BY DEF PairTypes, Averaged

LEMMA AveragedPairIs ==
  ASSUME call \in Calls, smpl \in Samples, pairs \in PairArrays,
         NEW i \in RefBlocks, NEW j \in Pages
  PROVE  /\ pairs[<<i, j>>] \in PairTypes /\ smpl.life[i] \in Nat
         /\ AveragedPairs[<<i, j>>] = Averaged(pairs[<<i, j>>], smpl.life[i])
<1>1. pairs[<<i, j>>] \in PairTypes /\ <<i, j>> \in DOMAIN pairs
  BY DEF PairArrays
<1>2. smpl.life[i] \in Nat
  BY PagesType DEF Samples, Counts
<1> QED BY <1>1, <1>2 DEF AveragedPairs

LEMMA PairAccessOfNewSample ==
  ASSUME SpatialInv, PairInv, NEW addr \in Addrs, NEW id \in SampleIDs,
         AccessOfNewSample(addr, id)
  PROVE  PairInv'
<1> DEFINE p == PageID(addr)
<1>1. /\ TypeOK /\ p \in Pages /\ IsAccess(p, id) /\ input # << >> /\ SortedSamples
      /\ id > Last(input).sample /\ pairs' = AveragedPairs
  BY PageOfAddr DEF SpatialInv, AccessOfNewSample
<1> HIDE DEF p
<1>2. \A l \in DOMAIN input : input[l].sample # id
  BY <1>1, IdIsNew
<1>3. call \in Calls /\ smpl \in Samples /\ pairs \in PairArrays
  BY <1>1, TypeOKIs
<1>4. ASSUME call.spatial, NEW i \in RefBlocks, NEW j \in Pages
      PROVE  /\ PairNext(pairs'[<<i, j>>], input, i, j)
             /\ pairs'[<<i, j>>].mid = 0 /\ pairs'[<<i, j>>].smplMiddle = 0
  <2>1. PairNext(pairs[<<i, j>>], input, i, j)
    BY <1>4 DEF PairInv
  <2>2. /\ pairs[<<i, j>>] \in PairTypes /\ smpl.life[i] \in Nat
        /\ pairs'[<<i, j>>] = Averaged(pairs[<<i, j>>], smpl.life[i])
    BY <1>1, <1>3, AveragedPairIs
  <2> DEFINE pr == pairs[<<i, j>>]
             q  == Averaged(pr, smpl.life[i])
  <2>3. /\ q.next = pr.next /\ q.access = pr.access /\ q.distance = pr.distance
        /\ q.mid = 0 /\ q.smplMiddle = 0
    BY <2>2, AveragedFields
  <2>4. PairNext(pr, input, i, j) /\ pairs'[<<i, j>>] = q
    BY <2>1, <2>2
  <2> HIDE DEF pr, q
  <2> QED BY <2>3, <2>4 DEF PairNext
<1> QED BY <1>1, <1>2, <1>4, PairStartKeeps

LEMMA PairEndOfTrace ==
  ASSUME SpatialInv, PairInv, EndOfTrace
  PROVE  PairInv'
<1>1. /\ call' = call /\ input' = input /\ phase' = "done"
      /\ pairs' = IF call.spatial THEN AveragedPairs ELSE pairs
  BY DEF EndOfTrace
<1>2. call \in Calls /\ smpl \in Samples /\ pairs \in PairArrays
  BY TypeOKIs DEF SpatialInv
<1>3. RefBlocks' = RefBlocks /\ Pages' = Pages
  BY <1>1, SameCall
<1>4. ASSUME call.spatial, NEW i \in RefBlocks, NEW j \in Pages
      PROVE  PairNext(pairs'[<<i, j>>], input, i, j)
  <2>1. PairNext(pairs[<<i, j>>], input, i, j)
    BY <1>4 DEF PairInv
  <2>2. /\ pairs[<<i, j>>] \in PairTypes /\ smpl.life[i] \in Nat
        /\ pairs'[<<i, j>>] = Averaged(pairs[<<i, j>>], smpl.life[i])
    BY <1>1, <1>2, <1>4, AveragedPairIs
  <2> DEFINE pr == pairs[<<i, j>>]
             q  == Averaged(pr, smpl.life[i])
  <2>3. /\ q.next = pr.next /\ q.access = pr.access /\ q.distance = pr.distance
        /\ q.mid = 0 /\ q.smplMiddle = 0
    BY <2>2, AveragedFields
  <2>4. PairNext(pr, input, i, j) /\ pairs'[<<i, j>>] = q
    BY <2>1, <2>2
  <2> HIDE DEF pr, q
  <2> QED BY <2>3, <2>4 DEF PairNext
<1> QED BY <1>1, <1>3, <1>4 DEF PairInv

LEMMA PairStutter ==
  ASSUME PairInv, UNCHANGED vars
  PROVE  PairInv'
<1>1. call' = call /\ input' = input /\ phase' = phase /\ pairs' = pairs
  BY DEF vars
<1> QED BY <1>1, SameCall DEF PairInv

LEMMA PairInvHolds == Spec => []PairInv
<1>1. Init => PairInv
  BY PairInit
<1>2. SpatialInv /\ PairInv /\ [Next]_vars => PairInv'
  <2> SUFFICES ASSUME SpatialInv, PairInv, [Next]_vars PROVE PairInv'
    OBVIOUS
  <2>1. ASSUME NEW addr \in Addrs, NEW id \in SampleIDs, FirstAccess(addr, id)
        PROVE  PairInv'
    BY <2>1, PairFirstAccess
  <2>2. ASSUME NEW addr \in Addrs, NEW id \in SampleIDs, AccessInSample(addr, id)
        PROVE  PairInv'
    BY <2>2, PairAccessInSample
  <2>3. ASSUME NEW addr \in Addrs, NEW id \in SampleIDs, AccessOfNewSample(addr, id)
        PROVE  PairInv'
    BY <2>3, PairAccessOfNewSample
  <2>4. CASE EndOfTrace
    BY <2>4, PairEndOfTrace
  <2>5. CASE UNCHANGED vars
    BY <2>5, PairStutter
  <2> QED BY <2>1, <2>2, <2>3, <2>4, <2>5 DEF Next
<1> QED BY <1>1, <1>2, SpatialInvHolds, PTL DEF Spec

\* The operators of the properties are those above, of the trace so far.
LEMMA OfInput ==
  /\ \A p, id : Acc(p, id) = AccIn(input, p, id)
  /\ \A l, i : Before(l, i) = BeforeIn(input, l, i)
  /\ \A i, j : FirstsAfter(i, j) = FirstsIn(input, i, j)
  /\ Ids = IdsIn(input)
<1>1. \A p, id : Acc(p, id) = AccIn(input, p, id)
  BY DEF Acc, AccIn, Positions, Page, Sample
<1>2. \A l, i : Before(l, i) = BeforeIn(input, l, i)
  BY <1>1 DEF Before, BeforeIn, Sample
<1>3. \A i, j : FirstsAfter(i, j) = FirstsIn(input, i, j)
  BY <1>2 DEF FirstsAfter, FirstsIn, Positions, Page
<1>4. Ids = IdsIn(input)
  BY DEF Ids, IdsIn, Positions, Sample
<1> QED BY <1>1, <1>2, <1>3, <1>4

\* Spatial probability, interval and next counts are, for each pair, what the
\* trace has of next accesses within a sample, never across two samples
\* (memoryanalysis.cpp:667-681, 704-726).
THEOREM NextAccessesCorrect == Spec => []NextAccesses
<1>1. PairInv => NextAccesses
  <2> SUFFICES ASSUME PairInv, call.spatial, NEW i \in RefBlocks, NEW j \in Pages
               PROVE  LET pr == pairs[<<i, j>>]
                      IN /\ pr.access = Cardinality(FirstsAfter(i, j))
                         /\ pr.distance =
                              SumFunction([l \in FirstsAfter(i, j) |->
                                             l - Max(Before(l, i)) - 1])
                         /\ pr.next =
                              Cardinality({l \in Positions :
                                /\ l + 1 \in Positions /\ Sample(l) = Sample(l + 1)
                                /\ Page(l) = i /\ Page(l + 1) = j})
    BY DEF NextAccesses, IntervalsToNext, NextWithinSamples
  <2>1. PairNext(pairs[<<i, j>>], input, i, j)
    BY DEF PairInv
  <2>2. {l \in Positions : /\ l + 1 \in Positions /\ Sample(l) = Sample(l + 1)
                           /\ Page(l) = i /\ Page(l + 1) = j} = NextIn(input, i, j)
    BY DEF NextIn, Positions, Sample, Page
  <2>3. [l \in FirstsAfter(i, j) |-> l - Max(Before(l, i)) - 1] =
          [l \in FirstsIn(input, i, j) |-> l - Max(BeforeIn(input, l, i)) - 1]
    BY OfInput
  <2>4. DistanceIn(input, i, j) =
          SumFunction([l \in FirstsAfter(i, j) |-> l - Max(Before(l, i)) - 1])
    BY <2>3 DEF DistanceIn
  <2> QED BY <2>1, <2>2, <2>4, OfInput DEF PairNext
<1> QED BY <1>1, PairInvHolds, PTL
-----------------------------------------------------------------------------
(* What the samples of a trace say of a page, and of a pair of pages.      *)

LifeOf(in, p, id) ==
  IF AccIn(in, p, id) = {} THEN 0 ELSE Max(AccIn(in, p, id)) - Min(AccIn(in, p, id))
RepeatsIn(in, p, id) == {l \in AccIn(in, p, id) : BeforeIn(in, l, p) # {}}
PagesIn(in, k, l) == {in[m].page : m \in k + 1 .. l - 1}
ReuseOf(in, p, id) ==
  SumFunction([l \in RepeatsIn(in, p, id) |->
                 Cardinality(PagesIn(in, Max(BeforeIn(in, l, p)), l))])

\* The least element is what Min says it is.
LEMMA MinIs ==
  ASSUME NEW S, S \subseteq Nat, NEW m \in S, \A x \in S : m <= x
  PROVE  Min(S) = m
<1>1. \A x \in S : x \in Nat
  OBVIOUS
<1>2. \A x \in S : (\A y \in S : x <= y) => x = m
  BY <1>1
<1> QED BY <1>2 DEF Min

LEMMA AccMinMax ==
  ASSUME NEW R, NEW in \in Seq(R), NEW p, NEW id, AccIn(in, p, id) # {}
  PROVE  \E a, b \in AccIn(in, p, id) :
           /\ Min(AccIn(in, p, id)) = a /\ \A x \in AccIn(in, p, id) : a <= x
           /\ Max(AccIn(in, p, id)) = b /\ \A x \in AccIn(in, p, id) : x <= b
<1> DEFINE S == AccIn(in, p, id)
<1>1. Len(in) \in Nat /\ S \subseteq Nat /\ S \subseteq 0 .. Len(in)
  BY DEF AccIn
<1> HIDE DEF S
<1>2. S # {}
  BY DEF S
<1>3. PICK a \in S : \A x \in S : a <= x
  BY <1>1, <1>2, LeastElement
<1>4. PICK b \in S : \A x \in S : x <= b
  BY <1>1, <1>2, GreatestElement
<1>5. Min(S) = a /\ Max(S) = b
  BY <1>1, <1>3, <1>4, MinIs, MaxIs
<1> QED BY <1>3, <1>4, <1>5 DEF S

LEMMA LifeType ==
  ASSUME NEW R, NEW in \in Seq(R), NEW p, NEW id
  PROVE  LifeOf(in, p, id) \in Nat
<1>1. CASE AccIn(in, p, id) = {}
  BY <1>1 DEF LifeOf
<1>2. CASE AccIn(in, p, id) # {}
  <2>1. PICK a, b \in AccIn(in, p, id) :
          /\ Min(AccIn(in, p, id)) = a /\ \A x \in AccIn(in, p, id) : a <= x
          /\ Max(AccIn(in, p, id)) = b /\ \A x \in AccIn(in, p, id) : x <= b
    BY <1>2, AccMinMax
  <2>2. a \in Nat /\ b \in Nat /\ a <= b
    BY <2>1 DEF AccIn
  <2> QED BY <1>2, <2>1, <2>2 DEF LifeOf
<1> QED BY <1>1, <1>2

\* The greatest access before a repeated one.
LEMMA PreviousIs ==
  ASSUME NEW R, NEW in \in Seq(R), NEW p, NEW id, NEW l \in RepeatsIn(in, p, id)
  PROVE  /\ Max(BeforeIn(in, l, p)) \in 1 .. l - 1
         /\ l \in DOMAIN in
<1>1. l \in DOMAIN in /\ l \in 1 .. Len(in) /\ Len(in) \in Nat
  BY DEF RepeatsIn, AccIn
<1>2. BeforeIn(in, l, p) \subseteq 1 .. l - 1 /\ BeforeIn(in, l, p) # {}
  BY <1>1 DEF RepeatsIn, BeforeIn, AccIn
<1>3. BeforeIn(in, l, p) \subseteq 0 .. l - 1 /\ BeforeIn(in, l, p) \subseteq Nat /\ l - 1 \in Nat
  BY <1>1, <1>2
<1>4. PICK m \in BeforeIn(in, l, p) : \A x \in BeforeIn(in, l, p) : x <= m
  BY <1>2, <1>3, GreatestElement
<1>5. Max(BeforeIn(in, l, p)) = m
  BY <1>3, <1>4, MaxIs
<1> QED BY <1>1, <1>2, <1>4, <1>5

\* The pages between two accesses of a trace stay.
LEMMA PagesStay ==
  ASSUME NEW R, NEW in \in Seq(R), NEW e \in R, NEW k \in Nat, NEW l \in 1 .. Len(in) + 1
  PROVE  /\ PagesIn(Append(in, e), k, l) = PagesIn(in, k, l)
         /\ IsFiniteSet(PagesIn(in, k, l)) /\ Cardinality(PagesIn(in, k, l)) \in Nat
<1>1. Len(in) \in Nat
  OBVIOUS
<1>2. \A m \in k + 1 .. l - 1 : m \in DOMAIN in
  BY <1>1
<1>3. \A m \in k + 1 .. l - 1 : Append(in, e)[m] = in[m]
  BY <1>2, Appended
<1>4. PagesIn(Append(in, e), k, l) = PagesIn(in, k, l)
  BY <1>3 DEF PagesIn
<1>5. IsFiniteSet(PagesIn(in, k, l))
  <2> DEFINE f == [m \in k + 1 .. l - 1 |-> in[m].page]
  <2>1. IsFiniteSet(k + 1 .. l - 1)
    BY <1>1, FS_Interval
  <2>2. f \in Surjection(k + 1 .. l - 1, PagesIn(in, k, l))
    BY DEF Surjection, PagesIn
  <2> QED BY <2>1, <2>2, FS_Surjection
<1> QED BY <1>4, <1>5, FS_CardinalityType

\* An access is in one sample and to one page: the rest stays.
LEMMA RestStays ==
  ASSUME NEW R, NEW in \in Seq(R), NEW e \in R, NEW p, NEW id,
         ~(e.page = p /\ e.sample = id)
  PROVE  /\ AccIn(Append(in, e), p, id) = AccIn(in, p, id)
         /\ LifeOf(Append(in, e), p, id) = LifeOf(in, p, id)
         /\ RepeatsIn(Append(in, e), p, id) = RepeatsIn(in, p, id)
         /\ ReuseOf(Append(in, e), p, id) = ReuseOf(in, p, id)
<1> DEFINE out == Append(in, e)
<1>1. AccIn(out, p, id) = AccIn(in, p, id)
  BY AccAppended
<1>2. LifeOf(out, p, id) = LifeOf(in, p, id)
  BY <1>1 DEF LifeOf
<1>6. AccIn(in, p, id) \subseteq DOMAIN in
  BY DEF AccIn
<1>7. \A l \in DOMAIN in : BeforeIn(out, l, p) = BeforeIn(in, l, p)
  BY BeforeAppended
<1>3. \A l \in AccIn(in, p, id) : BeforeIn(out, l, p) = BeforeIn(in, l, p)
  BY <1>6, <1>7
<1>4. RepeatsIn(out, p, id) = RepeatsIn(in, p, id)
  BY <1>1, <1>3 DEF RepeatsIn
<1>5. ASSUME NEW l \in RepeatsIn(in, p, id)
      PROVE  PagesIn(out, Max(BeforeIn(out, l, p)), l) =
               PagesIn(in, Max(BeforeIn(in, l, p)), l)
  <2>1. l \in AccIn(in, p, id)
    BY DEF RepeatsIn
  <2> DEFINE k == Max(BeforeIn(in, l, p))
  <2>2. k \in 1 .. l - 1 /\ l \in DOMAIN in
    BY PreviousIs
  <2>3. k \in Nat /\ l \in 1 .. Len(in) + 1
    BY <2>2
  <2> HIDE DEF k
  <2>4. PagesIn(out, k, l) = PagesIn(in, k, l)
    BY <2>3, PagesStay
  <2> QED BY <1>3, <2>1, <2>4 DEF k
<1> QED BY <1>1, <1>2, <1>4, <1>5 DEF ReuseOf
\* An access to the page.
LEMMA LifeAppended ==
  ASSUME NEW R, NEW in \in Seq(R), NEW e \in R, NEW N, N = Len(in) + 1
  PROVE  LifeOf(Append(in, e), e.page, e.sample) =
           LifeOf(in, e.page, e.sample)
           + IF AccIn(in, e.page, e.sample) = {} THEN 0 ELSE N - Max(AccIn(in, e.page, e.sample))
<1> DEFINE p == e.page
           id == e.sample
           out == Append(in, e)
           S == AccIn(in, p, id)
<1>1. AccIn(out, p, id) = S \cup {N} /\ \A x \in S : x \in Nat /\ x < N
  BY AccAppended
<1>2. N \in Nat
  BY Appended
<1>3. LifeOf(out, p, id) = Max(S \cup {N}) - Min(S \cup {N})
  BY <1>1 DEF LifeOf
<1>4. Max(S \cup {N}) = N
  <2>1. S \cup {N} \subseteq Nat /\ \A x \in S \cup {N} : x <= N
    BY <1>1, <1>2
  <2> QED BY <2>1, MaxIs
<1>5. CASE S = {}
  <2>1. Min(S \cup {N}) = N
    <3>1. S \cup {N} \subseteq Nat /\ \A x \in S \cup {N} : N <= x
      BY <1>1, <1>2, <1>5
    <3> QED BY <3>1, MinIs
  <2>2. LifeOf(in, p, id) = 0
    BY <1>5 DEF LifeOf
  <2> QED BY <1>2, <1>3, <1>4, <1>5, <2>1, <2>2
<1>6. CASE S # {}
  <2>1. PICK a, b \in S : /\ Min(S) = a /\ \A x \in S : a <= x
                          /\ Max(S) = b /\ \A x \in S : x <= b
    BY <1>6, AccMinMax
  <2>2. LifeOf(in, p, id) = b - a
    BY <1>6, <2>1 DEF LifeOf
  <2> HIDE DEF S
  <2>3. Min(S \cup {N}) = a
    <3>1. S \cup {N} \subseteq Nat /\ a \in S \cup {N} /\ \A x \in S \cup {N} : a <= x
      BY <1>1, <1>2, <2>1
    <3> QED BY <3>1, MinIs
  <2>4. a \in Nat /\ b \in Nat
    BY <1>1, <2>1
  <2>5. N - a = (b - a) + (N - b)
    BY <1>2, <2>4
  <2> QED BY <1>3, <1>4, <1>6, <2>1, <2>2, <2>3, <2>5 DEF S
<1> QED BY <1>5, <1>6

\* An access to the page of e in the sample of e.
Seen(in, e) == AccIn(in, e.page, e.sample) # {}

LEMMA RepeatsAppended ==
  ASSUME NEW R, NEW in \in Seq(R), NEW e \in R
  PROVE  /\ RepeatsIn(Append(in, e), e.page, e.sample) =
              IF Seen(in, e) THEN RepeatsIn(in, e.page, e.sample) \cup {Len(in) + 1}
              ELSE RepeatsIn(in, e.page, e.sample)
         /\ Len(in) + 1 \notin RepeatsIn(in, e.page, e.sample)
         /\ IsFiniteSet(RepeatsIn(in, e.page, e.sample))
<1> DEFINE p == e.page
           id == e.sample
           out == Append(in, e)
           S == AccIn(in, p, id)
           N == Len(in) + 1
<1>1. /\ AccIn(out, p, id) = S \cup {N}
      /\ \A x \in S : x \in Nat /\ x < N /\ x \in DOMAIN in
  BY AccAppended
<1>2. /\ \A l \in DOMAIN in : BeforeIn(out, l, p) = BeforeIn(in, l, p)
      /\ BeforeIn(out, N, p) = S
  BY BeforeAppended
<1>3. IsFiniteSet(S) /\ RepeatsIn(in, p, id) \subseteq S
  BY SetsOfPair DEF RepeatsIn
<1>4. N \notin S
  BY <1>1
<1> HIDE DEF S, out, N
<1>5. \A l \in S : l \in RepeatsIn(out, p, id) <=> l \in RepeatsIn(in, p, id)
  BY <1>1, <1>2 DEF RepeatsIn, S
<1>6. RepeatsIn(out, p, id) \subseteq S \cup {N}
  BY <1>1 DEF RepeatsIn
<1>7. N \in RepeatsIn(out, p, id) <=> S # {}
  BY <1>1, <1>2 DEF RepeatsIn
<1>8. S = {} => RepeatsIn(out, p, id) = RepeatsIn(in, p, id)
  BY <1>3, <1>5, <1>6, <1>7
<1>9. S # {} => RepeatsIn(out, p, id) = RepeatsIn(in, p, id) \cup {N}
  BY <1>3, <1>5, <1>6, <1>7
<1> QED BY <1>3, <1>4, <1>8, <1>9, FS_Subset DEF S, out, N, Seen

LEMMA ReuseAppended ==
  ASSUME NEW R, NEW in \in Seq(R), NEW e \in R, NEW N, N = Len(in) + 1
  PROVE  /\ ReuseOf(Append(in, e), e.page, e.sample) =
              ReuseOf(in, e.page, e.sample)
              + IF AccIn(in, e.page, e.sample) = {} THEN 0
                ELSE Cardinality(PagesIn(in, Max(AccIn(in, e.page, e.sample)), N))
         /\ ReuseOf(in, e.page, e.sample) \in Nat
<1> DEFINE p == e.page
           id == e.sample
           out == Append(in, e)
           S == RepeatsIn(in, p, id)
           T == RepeatsIn(out, p, id)
           A == AccIn(in, p, id)
<1>1. /\ A = {} => T = S
      /\ A # {} => T = S \cup {N}
      /\ N \notin S /\ IsFiniteSet(S)
  <2>1. ~Seen(in, e) => T = S
    BY RepeatsAppended
  <2>3. Seen(in, e) => T = S \cup {N}
    BY RepeatsAppended
  <2>4. Seen(in, e) <=> A # {}
    BY DEF Seen
  <2>2. Len(in) + 1 \notin S /\ IsFiniteSet(S)
    BY RepeatsAppended
  <2> HIDE DEF T, S, A
  <2> QED BY <2>1, <2>2, <2>3, <2>4
<1> DEFINE f == [l \in S |-> Cardinality(PagesIn(in, Max(BeforeIn(in, l, p)), l))]
           g == [l \in T |-> Cardinality(PagesIn(out, Max(BeforeIn(out, l, p)), l))]
           more == Cardinality(PagesIn(in, Max(A), N))
<1>2. /\ \A l \in DOMAIN in : BeforeIn(out, l, p) = BeforeIn(in, l, p)
      /\ BeforeIn(out, N, p) = A
  BY BeforeAppended
<1>3. Len(in) \in Nat /\ N \in Nat /\ N \in 1 .. Len(in) + 1
  BY Appended
<1>4. ASSUME NEW l \in S
      PROVE  l \in T /\ f[l] \in Nat /\ g[l] = f[l]
  <2> DEFINE k == Max(BeforeIn(in, l, p))
  <2>1. k \in 1 .. l - 1 /\ l \in DOMAIN in
    BY PreviousIs
  <2>2. k \in Nat /\ l \in 1 .. Len(in) + 1
    BY <1>3, <2>1
  <2>3. l \in T
    BY <1>1
  <2>4. f[l] = Cardinality(PagesIn(in, k, l))
    OBVIOUS
  <2>5. g[l] = Cardinality(PagesIn(out, k, l))
    BY <1>2, <2>1, <2>3
  <2> HIDE DEF k, f, g
  <2>6. PagesIn(out, k, l) = PagesIn(in, k, l) /\ Cardinality(PagesIn(in, k, l)) \in Nat
    BY <2>2, PagesStay
  <2> QED BY <2>3, <2>4, <2>5, <2>6
<1>5. ASSUME A # {}
      PROVE  N \in T /\ g[N] = more /\ more \in Nat
  <2>1. PICK a, b \in A : Max(A) = b
    BY <1>5, AccMinMax
  <2>2. Max(A) \in Nat
    BY <2>1 DEF AccIn
  <2>3. N \in T
    BY <1>1, <1>5
  <2>4. g[N] = Cardinality(PagesIn(out, Max(A), N))
    BY <1>2, <2>3
  <2> HIDE DEF A, g
  <2>5. PagesIn(out, Max(A), N) = PagesIn(in, Max(A), N) /\ more \in Nat
    BY <1>3, <2>2, PagesStay
  <2> QED BY <2>3, <2>4, <2>5
<1>6. ReuseOf(in, p, id) = SumFunctionOnSet(f, S)
  BY Zenon DEF ReuseOf, SumFunction
<1>7. ReuseOf(out, p, id) = SumFunctionOnSet(g, T)
  BY Zenon DEF ReuseOf, SumFunction
<1> HIDE DEF f, g, S, T, out, more
<1>8. SumFunctionOnSet(f, S) \in Nat
  BY <1>1, <1>4, SumNat
<1>9. SumFunctionOnSet(g, S) = SumFunctionOnSet(f, S)
  <2>1. \A l \in S : f[l] \in Int /\ f[l] = g[l]
    BY <1>4
  <2> QED BY <1>1, <2>1, SumEqual
<1>10. CASE A = {}
  BY <1>1, <1>6, <1>7, <1>8, <1>9, <1>10 DEF out
<1>11. CASE A # {}
  <2>1. T = S \cup {N} /\ N \notin S /\ g[N] = more /\ g[N] \in Int
    BY <1>1, <1>5, <1>11
  <2>2. \A l \in S : g[l] \in Int
    BY <1>4
  <2>3. SumFunctionOnSet(g, T) = SumFunctionOnSet(g, S) + g[N]
    BY <1>1, <2>1, <2>2, SumAdd
  <2> QED BY <1>6, <1>7, <1>8, <1>9, <1>11, <2>1, <2>3 DEF out, more
<1> QED BY <1>10, <1>11
-----------------------------------------------------------------------------
(* The arrays of a sample, against its accesses.                           *)

\* The reuse distance that a hit adds.
LEMMA HitRud ==
  ASSUME NEW s \in Samples, NEW p \in Pages, s.access[p] > 0,
         NEW pos \in 1 .. Len(s.stack), s.stack[pos] = p,
         \A k \in 1 .. Len(s.stack) : k # pos => s.stack[k] # p
  PROVE  Touched(s, p).rud = [s.rud EXCEPT ![p] = @ + Len(s.stack) - pos]
<1> DEFINE at == CHOOSE k \in DOMAIN s.stack : s.stack[k] = p
<1>1. DOMAIN s.stack = 1 .. Len(s.stack)
  BY DEF Samples
<1>2. at \in 1 .. Len(s.stack) /\ s.stack[at] = p
  BY <1>1
<1>3. at = pos
  BY <1>2
<1>4. Touched(s, p).rud = [s.rud EXCEPT ![p] = @ + Len(s.stack) - at]
  BY DEF Touched
<1> QED BY <1>3, <1>4

\* The pages above a page on the stack are those since its last access.
LEMMA StackDepth ==
  ASSUME call \in Calls, input \in Seq(Inputs), NEW s \in Samples, NEW id,
         RecencyOf(s, input, id), NEW p \in Pages, s.access[p] > 0,
         \A l \in DOMAIN input : s.last[p] <= l => input[l].sample = id,
         NEW pos \in 1 .. Len(s.stack), s.stack[pos] = p
  PROVE  Cardinality(PagesIn(input, s.last[p], Len(input) + 1)) = Len(s.stack) - pos
<1> DEFINE n == Len(s.stack)
           D == pos + 1 .. n
           L == s.last[p]
           Q == PagesIn(input, L, Len(input) + 1)
           f == [k \in D |-> s.stack[k]]
<1>1. /\ n \in Nat /\ DOMAIN s.stack = 1 .. n /\ \A k \in 1 .. n : s.stack[k] \in Pages
      /\ s.last \in [Pages -> Nat] /\ s.access \in [Pages -> Nat] /\ L \in Nat
  <2>1. /\ s.stack \in Seq(Pages)
        /\ s.last \in [Pages -> Nat] /\ s.access \in [Pages -> Nat]
    BY DEF Samples, Counts
  <2>2. L \in Nat
    BY <2>1
  <2>3. n \in Nat /\ DOMAIN s.stack = 1 .. n /\ \A k \in 1 .. n : s.stack[k] \in Pages
    BY <2>1
  <2> QED BY <2>1, <2>2, <2>3
<1>2. Len(input) \in Nat /\ DOMAIN input = 1 .. Len(input)
  OBVIOUS
<1>3. \A j, k \in 1 .. n : j < k => s.last[s.stack[j]] < s.last[s.stack[k]]
  BY <1>1 DEF RecencyOf, StackByLast
<1>4. L \in DOMAIN input
  BY <1>1 DEF RecencyOf, LastIsAccess
<1>5. \A q : q \in Q <=> \E m \in L + 1 .. Len(input) : input[m].page = q
  BY <1>2 DEF PagesIn
<1> HIDE DEF n, Q
<1>6. ASSUME NEW k \in D PROVE f[k] \in Q
  <2> DEFINE q == s.stack[k]
             m == s.last[q]
  <2>1. k \in 1 .. n /\ pos \in 1 .. n /\ pos < k
    BY <1>1 DEF n
  <2>2. q \in Pages /\ s.access[q] > 0
    BY <1>1, <2>1 DEF RecencyOf, StackHasPages
  <2>3. m \in DOMAIN input /\ input[m].page = q
    BY <2>2 DEF RecencyOf, LastIsAccess
  <2>4. L < m
    BY <1>3, <2>1
  <2>5. m \in L + 1 .. Len(input)
    BY <1>1, <1>2, <2>3, <2>4
  <2> QED BY <1>5, <2>3, <2>5
<1>7. ASSUME NEW q \in Q PROVE \E k \in D : f[k] = q
  <2>1. PICK m \in L + 1 .. Len(input) : input[m].page = q
    BY <1>5
  <2>2. m \in DOMAIN input /\ L < m /\ input[m].sample = id /\ q \in Pages
    <3>1. m \in DOMAIN input /\ L < m /\ L <= m
      BY <1>1, <1>2, <1>4
    <3>2. input[m] \in Inputs
      BY <3>1
    <3> QED BY <2>1, <3>1, <3>2 DEF Inputs
  <2>3. s.access[q] > 0 /\ m <= s.last[q]
    BY <2>1, <2>2 DEF RecencyOf, LastIsLatest
  <2>4. PICK k \in 1 .. n : s.stack[k] = q
    BY <1>1, <2>2, <2>3 DEF RecencyOf, StackHasPages, n
  <2>5. L < s.last[q] /\ s.last[q] \in Nat
    BY <1>1, <1>2, <2>2, <2>3
  <2>6. pos \in 1 .. n
    BY DEF n
  <2>7. k # pos /\ ~(k < pos)
    BY <1>1, <1>3, <2>4, <2>5, <2>6
  <2>8. k \in D
    BY <1>1, <2>4, <2>6, <2>7
  <2> QED BY <2>4, <2>8
<1>8. ASSUME NEW j \in D, NEW k \in D, f[j] = f[k] PROVE j = k
  <2>1. j \in 1 .. n /\ k \in 1 .. n
    BY <1>1 DEF n
  <2>2. s.stack[j] = s.stack[k] /\ s.last[s.stack[j]] \in Nat
    BY <1>1, <1>8, <2>1
  <2>3. ~(j < k)
    <3> SUFFICES ASSUME j < k PROVE FALSE
      OBVIOUS
    <3>1. s.last[s.stack[j]] < s.last[s.stack[k]]
      BY <1>3, <2>1
    <3> QED BY <2>2, <3>1
  <2>4. ~(k < j)
    <3> SUFFICES ASSUME k < j PROVE FALSE
      OBVIOUS
    <3>1. s.last[s.stack[k]] < s.last[s.stack[j]]
      BY <1>3, <2>1
    <3> QED BY <2>2, <3>1
  <2> QED BY <1>1, <2>1, <2>3, <2>4
<1>9. f \in Bijection(D, Q)
  <2>1. f \in [D -> Q]
    BY <1>6
  <2>2. \A j, k \in D : f[j] = f[k] => j = k
    BY <1>8
  <2> HIDE DEF f, D
  <2>3. DOMAIN f = D
    BY <2>1
  <2>4. f \in Injection(D, Q)
    BY <2>1, <2>2, <2>3 DEF Injection, IsInjective
  <2>5. f \in Surjection(D, Q)
    BY <1>7, <2>1 DEF Surjection
  <2> QED BY <2>4, <2>5 DEF Bijection
<1>10. IsFiniteSet(D) /\ Cardinality(D) = n - pos
  <2>1. pos \in Nat /\ pos <= n
    BY <1>1 DEF n
  <2> DEFINE a == pos + 1
  <2>3. a \in Int /\ n \in Int
    BY <1>1, <2>1
  <2> HIDE DEF a
  <2>4. IsFiniteSet(a .. n) /\ Cardinality(a .. n) = IF a > n THEN 0 ELSE n - a + 1
    BY <2>3, FS_Interval
  <2>2. IsFiniteSet(D) /\ Cardinality(D) = IF pos + 1 > n THEN 0 ELSE n - (pos + 1) + 1
    BY <2>4 DEF a
  <2> HIDE DEF D
  <2> QED BY <1>1, <2>1, <2>2
<1>11. Cardinality(Q) = Cardinality(D)
  BY <1>9, <1>10, FS_Bijection DEF ExistsBijection
<1> QED BY <1>10, <1>11 DEF Q, n
\* The running sums of a sample are those of its accesses.
CountsOf(s, in, id) ==
  \A q \in Pages :
    /\ Cardinality(RepeatsIn(in, q, id)) = IF s.access[q] = 0 THEN 0 ELSE s.access[q] - 1
    /\ s.rud[q] = ReuseOf(in, q, id)
    /\ q \in RefBlocks => s.life[q] = LifeOf(in, q, id)

LEMMA FreshCounts ==
  ASSUME call \in Calls, NEW R, NEW in \in Seq(R), NEW id,
         \A l \in DOMAIN in : in[l].sample # id
  PROVE  CountsOf(FreshSample, in, id)
<1>1. \A q : AccIn(in, q, id) = {}
  BY DEF AccIn
<1>2. \A q : RepeatsIn(in, q, id) = {} /\ LifeOf(in, q, id) = 0
  BY <1>1 DEF RepeatsIn, LifeOf
<1>3. ASSUME NEW q PROVE ReuseOf(in, q, id) = 0
  <2> DEFINE f == [l \in RepeatsIn(in, q, id) |->
                     Cardinality(PagesIn(in, Max(BeforeIn(in, l, q)), l))]
  <2>1. ReuseOf(in, q, id) = SumFunctionOnSet(f, RepeatsIn(in, q, id))
    BY Zenon DEF ReuseOf, SumFunction
  <2> HIDE DEF f
  <2> QED BY <1>2, <2>1, SumEmpty
<1>4. \A q \in Pages : /\ FreshSample.access[q] = 0 /\ FreshSample.rud[q] = 0
                       /\ FreshSample.life[q] = 0
  BY DEF FreshSample, Zeros
<1>5. RefBlocks \subseteq Pages /\ Cardinality({}) = 0
  BY PagesType, FS_EmptySet
<1> QED BY <1>2, <1>3, <1>4, <1>5 DEF CountsOf

\* What an access does to the sums of its page.
LEMMA TouchedSums ==
  ASSUME call \in Calls, input \in Seq(Inputs), NEW s \in Samples, NEW id,
         RecencyOf(s, input, id), NEW p \in Pages,
         \A k, l \in DOMAIN input : k <= l /\ input[k].sample = id => input[l].sample = id
  PROVE  LET A == AccIn(input, p, id)
             N == Len(input) + 1
         IN  /\ s.access[p] = 0 <=> A = {}
             /\ Touched(s, p).access[p] = s.access[p] + 1
             /\ Touched(s, p).rud[p] =
                  s.rud[p] + IF A = {} THEN 0 ELSE Cardinality(PagesIn(input, Max(A), N))
             /\ p \in RefBlocks =>
                  Touched(s, p).life[p] = s.life[p] + IF A = {} THEN 0 ELSE N - Max(A)
             /\ \A q \in Pages : q # p => /\ Touched(s, p).access[q] = s.access[q]
                                          /\ Touched(s, p).rud[q] = s.rud[q]
                                          /\ Touched(s, p).life[q] = s.life[q]
<1> DEFINE A == AccIn(input, p, id)
           N == Len(input) + 1
           t == Touched(s, p)
<1>1. /\ s.access \in [Pages -> Nat] /\ s.rud \in [Pages -> Nat]
      /\ s.life \in [Pages -> Nat] /\ s.last \in [Pages -> Nat]
  BY DEF Samples, Counts
<1>2. /\ s.last[p] = 0 <=> A = {}
      /\ s.last[p] = 0 <=> s.access[p] = 0
      /\ s.last[p] # 0 => s.last[p] \in A /\ Max(A) = s.last[p]
  BY LastOf
<1>3. s.access[p] = 0 <=> A = {}
  BY <1>2
<1>4. t.access = [s.access EXCEPT ![p] = @ + 1]
  BY TouchedIs
<1>5. t.life = IF p \in RefBlocks THEN [s.life EXCEPT ![p] = @ + RefDistance(s, p)]
               ELSE s.life
  BY TouchedIs
<1>6. RefDistance(s, p) = IF A = {} THEN 0 ELSE N - Max(A)
  BY <1>2 DEF RefDistance, time
<1>7. t.rud = [s.rud EXCEPT ![p] = @ + IF A = {} THEN 0
                                       ELSE Cardinality(PagesIn(input, Max(A), N))]
  <2>1. CASE A = {}
    <3>1. ~(s.access[p] > 0)
      BY <1>3, <2>1
    <3>2. t.rud = s.rud
      BY <3>1, MissIs
    <3>3. s.rud[p] + 0 = s.rud[p]
      BY <1>1
    <3> HIDE DEF t, A
    <3>4. s.rud = [s.rud EXCEPT ![p] = @ + 0]
      BY <1>1, <3>3
    <3> QED BY <2>1, <3>2, <3>4
  <2>2. CASE A # {}
    <3>1. s.access[p] > 0 /\ Max(A) = s.last[p] /\ s.last[p] \in A
      BY <1>1, <1>2, <1>3, <2>2
    <3>2. PICK pos \in 1 .. Len(s.stack) :
            /\ s.stack[pos] = p
            /\ \A k \in 1 .. Len(s.stack) : k # pos => s.stack[k] # p
            /\ Touched(s, p).stack = MovedToTop(s.stack, pos)
            /\ Touched(s, p).rud \in [Pages -> Nat]
      BY <3>1, HitIs
    <3>3. t.rud = [s.rud EXCEPT ![p] = @ + Len(s.stack) - pos]
      BY <3>1, <3>2, HitRud
    <3>4. \A l \in DOMAIN input : s.last[p] <= l => input[l].sample = id
      <4>1. s.last[p] \in DOMAIN input /\ input[s.last[p]].sample = id
        BY <3>1 DEF AccIn
      <4> QED BY <4>1
    <3>5. Cardinality(PagesIn(input, s.last[p], N)) = Len(s.stack) - pos
      BY <3>1, <3>2, <3>4, StackDepth
    <3>6. Len(s.stack) \in Nat /\ s.rud[p] \in Nat /\ pos \in Nat
      <4>1. s.stack \in Seq(Pages)
        BY DEF Samples
      <4> QED BY SMTT(30), <1>1, <3>2, <4>1
    <3>7. s.rud[p] + Len(s.stack) - pos = s.rud[p] + Cardinality(PagesIn(input, s.last[p], N))
      BY <3>5, <3>6
    <3> HIDE DEF t, A, N
    <3>8. t.rud = [s.rud EXCEPT ![p] = s.rud[p] + Cardinality(PagesIn(input, Max(A), N))]
      BY <3>1, <3>3, <3>7
    <3> QED BY <2>2, <3>8
  <2> QED BY <2>1, <2>2
<1>8. t.access[p] = s.access[p] + 1
  BY <1>1, <1>4
<1>9. t.rud[p] = s.rud[p] + IF A = {} THEN 0 ELSE Cardinality(PagesIn(input, Max(A), N))
  BY <1>1, <1>7
<1>10. p \in RefBlocks => t.life[p] = s.life[p] + IF A = {} THEN 0 ELSE N - Max(A)
  BY <1>1, <1>5, <1>6
<1>11. \A q \in Pages : q # p => /\ t.access[q] = s.access[q] /\ t.rud[q] = s.rud[q]
                                 /\ t.life[q] = s.life[q]
  BY <1>1, <1>4, <1>5, <1>7
<1> QED BY <1>3, <1>8, <1>9, <1>10, <1>11

LEMMA TouchedCounts ==
  ASSUME call \in Calls, input \in Seq(Inputs), NEW s \in Samples, NEW e \in Inputs,
         RecencyOf(s, input, e.sample), CountsOf(s, input, e.sample),
         \A k, l \in DOMAIN input :
           k <= l /\ input[k].sample = e.sample => input[l].sample = e.sample
  PROVE  CountsOf(Touched(s, e.page), Append(input, e), e.sample)
<1> DEFINE p == e.page
           id == e.sample
           out == Append(input, e)
           A == AccIn(input, p, id)
           N == Len(input) + 1
           t == Touched(s, p)
<1>1. p \in Pages
  BY DEF Inputs
<1>2. /\ s.access[p] = 0 <=> A = {}
      /\ t.access[p] = s.access[p] + 1
      /\ t.rud[p] = s.rud[p] + IF A = {} THEN 0 ELSE Cardinality(PagesIn(input, Max(A), N))
      /\ p \in RefBlocks => t.life[p] = s.life[p] + IF A = {} THEN 0 ELSE N - Max(A)
      /\ \A q \in Pages : q # p => /\ t.access[q] = s.access[q] /\ t.rud[q] = s.rud[q]
                                   /\ t.life[q] = s.life[q]
  BY <1>1, TouchedSums
<1>3. s.access[p] \in Nat
  BY <1>1 DEF Samples, Counts
<1>4. /\ Cardinality(RepeatsIn(input, p, id)) = IF s.access[p] = 0 THEN 0 ELSE s.access[p] - 1
      /\ s.rud[p] = ReuseOf(input, p, id)
      /\ p \in RefBlocks => s.life[p] = LifeOf(input, p, id)
  BY <1>1 DEF CountsOf
<1>5. /\ Cardinality(RepeatsIn(out, p, id)) = IF t.access[p] = 0 THEN 0 ELSE t.access[p] - 1
      /\ t.rud[p] = ReuseOf(out, p, id)
      /\ p \in RefBlocks => t.life[p] = LifeOf(out, p, id)
  <2>1. ReuseOf(out, p, id) =
          ReuseOf(input, p, id) + IF A = {} THEN 0 ELSE Cardinality(PagesIn(input, Max(A), N))
    BY ZenonT(30), ReuseAppended
  <2>2. LifeOf(out, p, id) = LifeOf(input, p, id) + IF A = {} THEN 0 ELSE N - Max(A)
    BY LifeAppended
  <2>3. Cardinality(RepeatsIn(out, p, id)) =
          Cardinality(RepeatsIn(input, p, id)) + IF A = {} THEN 0 ELSE 1
    <3> DEFINE S == RepeatsIn(input, p, id)
    <3>1. N \notin S /\ IsFiniteSet(S)
      BY RepeatsAppended
    <3>2. ~Seen(input, e) => RepeatsIn(out, p, id) = S
      BY RepeatsAppended
    <3>3. Seen(input, e) => RepeatsIn(out, p, id) = S \cup {N}
      BY RepeatsAppended
    <3>7. Seen(input, e) <=> A # {}
      BY DEF Seen
    <3> HIDE DEF S, A, N, out
    <3>4. Cardinality(S) \in Nat /\ Cardinality(S \cup {N}) = Cardinality(S) + 1
      BY <3>1, FS_CardinalityType, FS_AddElement
    <3>5. CASE A = {}
      <4>1. Cardinality(RepeatsIn(out, p, id)) = Cardinality(S)
        BY <3>2, <3>5, <3>7
      <4> QED BY <3>4, <3>5, <4>1 DEF S
    <3>6. CASE A # {}
      <4>1. Cardinality(RepeatsIn(out, p, id)) = Cardinality(S) + 1
        BY <3>3, <3>4, <3>6, <3>7
      <4> QED BY <3>4, <3>6, <4>1 DEF S
    <3> QED BY <3>5, <3>6
  <2> HIDE DEF A, N, t, out
  <2>4. Cardinality(RepeatsIn(out, p, id)) = IF t.access[p] = 0 THEN 0 ELSE t.access[p] - 1
    <3>1. CASE A = {}
      <4>1. s.access[p] = 0 /\ t.access[p] = 1
        BY <1>2, <1>3, <3>1
      <4>2. Cardinality(RepeatsIn(out, p, id)) = 0
        BY <1>4, <2>3, <3>1, <4>1
      <4> QED BY <4>1, <4>2
    <3>2. CASE A # {}
      <4>1. s.access[p] # 0 /\ t.access[p] = s.access[p] + 1
        BY <1>2, <1>3, <3>2
      <4>2. Cardinality(RepeatsIn(out, p, id)) = s.access[p] - 1 + 1
        BY <1>4, <2>3, <3>2, <4>1
      <4> QED BY <1>3, <4>1, <4>2
    <3> QED BY <3>1, <3>2
  <2>5. t.rud[p] = ReuseOf(out, p, id)
    BY <1>2, <1>4, <2>1
  <2>6. p \in RefBlocks => t.life[p] = LifeOf(out, p, id)
    BY <1>2, <1>4, <2>2
  <2> QED BY <2>4, <2>5, <2>6
<1>6. ASSUME NEW q \in Pages, q # p
      PROVE  /\ Cardinality(RepeatsIn(out, q, id)) =
                  IF t.access[q] = 0 THEN 0 ELSE t.access[q] - 1
             /\ t.rud[q] = ReuseOf(out, q, id)
             /\ q \in RefBlocks => t.life[q] = LifeOf(out, q, id)
  <2>1. ~(e.page = q /\ e.sample = id)
    BY <1>6
  <2>2. /\ LifeOf(out, q, id) = LifeOf(input, q, id)
        /\ RepeatsIn(out, q, id) = RepeatsIn(input, q, id)
        /\ ReuseOf(out, q, id) = ReuseOf(input, q, id)
    BY <2>1, RestStays
  <2>3. t.access[q] = s.access[q] /\ t.rud[q] = s.rud[q] /\ t.life[q] = s.life[q]
    BY <1>2, <1>6
  <2> HIDE DEF t, out
  <2> QED BY <2>2, <2>3 DEF CountsOf
<1> HIDE DEF t, out, p, id
<1>7. CountsOf(t, out, id)
  BY <1>5, <1>6 DEF CountsOf
<1> QED BY <1>7 DEF t, out, p, id
-----------------------------------------------------------------------------
(* Averages: what was averaged, sample by sample.                          *)

AvgOf(S, f) == [k \in DOMAIN InOrder(S) |-> f[InOrder(S)[k]]]

NumberSet(S)   == IsFiniteSet(S) /\ S \subseteq Nat
Below(S, m)    == m \in Nat /\ \A x \in S : x < m
Agree(f, g, S) == \A x \in S : f[x] = g[x]

LEMMA InOrderIs ==
  ASSUME NEW S, IsFiniteSet(S), S \subseteq Nat
  PROVE  /\ InOrder(S) \in Increasing(S)
         /\ DOMAIN InOrder(S) = 1 .. Cardinality(S)
         /\ Cardinality(S) \in Nat
         /\ \A k \in 1 .. Cardinality(S) : InOrder(S)[k] \in S
<1>1. Increasing(S) # {}
  BY IncreasingExists
<1>2. InOrder(S) = CHOOSE s \in [1 .. Cardinality(S) -> S] :
                     \A j, k \in DOMAIN s : j < k => s[j] < s[k]
  BY DEF InOrder
<1>3. InOrder(S) \in Increasing(S)
  BY <1>1, <1>2, Zenon DEF Increasing
<1>4. InOrder(S) \in [1 .. Cardinality(S) -> S]
  BY <1>3 DEF Increasing
<1> QED BY <1>3, <1>4, FS_CardinalityType

LEMMA AvgEmpty ==
  ASSUME NEW f
  PROVE  AvgOf({}, f) = << >>
<1>1. IsFiniteSet({}) /\ Cardinality({}) = 0 /\ {} \subseteq Nat
  BY FS_EmptySet
<1>2. DOMAIN InOrder({}) = 1 .. 0
  BY <1>1, InOrderIs
<1> QED BY <1>2 DEF AvgOf

LEMMA AvgType ==
  ASSUME NEW S, IsFiniteSet(S), S \subseteq Nat, NEW T, NEW f, \A x \in S : f[x] \in T
  PROVE  /\ AvgOf(S, f) \in Seq(T) /\ Len(AvgOf(S, f)) = Cardinality(S)
         /\ Cardinality(S) \in Nat /\ DOMAIN AvgOf(S, f) = 1 .. Cardinality(S)
<1> DEFINE n == Cardinality(S)
           s == InOrder(S)
           a == AvgOf(S, f)
<1>1. n \in Nat /\ DOMAIN s = 1 .. n /\ \A k \in 1 .. n : s[k] \in S
  BY InOrderIs
<1> HIDE DEF n, s
<1>2. a = [k \in 1 .. n |-> f[s[k]]]
  BY <1>1 DEF AvgOf, s
<1>3. \A k \in 1 .. n : f[s[k]] \in T
  BY <1>1
<1> HIDE DEF a
<1>4. a \in [1 .. n -> T]
  BY <1>2, <1>3
<1>5. a \in Seq(T)
  BY <1>1, <1>4
<1>6. Len(a) = n /\ DOMAIN a = 1 .. n
  BY <1>1, <1>4, <1>5
<1> QED BY <1>1, <1>5, <1>6 DEF n, a

LEMMA AvgEqual ==
  ASSUME NEW S, NumberSet(S), NEW f, NEW g, Agree(f, g, S)
  PROVE  AvgOf(S, f) = AvgOf(S, g)
<1>1. \A k \in DOMAIN InOrder(S) : InOrder(S)[k] \in S
  BY InOrderIs DEF NumberSet
<1>2. \A k \in DOMAIN InOrder(S) : f[InOrder(S)[k]] = g[InOrder(S)[k]]
  BY <1>1 DEF Agree
<1> QED BY <1>2 DEF AvgOf

\* One sample more, the last one so far.
LEMMA AvgAppend ==
  ASSUME NEW S, NumberSet(S), NEW f, NEW g, Agree(f, g, S), NEW m, Below(S, m)
  PROVE  AvgOf(S \cup {m}, g) = Append(AvgOf(S, f), g[m])
<1> DEFINE n == Cardinality(S)
           U == S \cup {m}
           s == InOrder(S)
           t == [k \in 1 .. n + 1 |-> IF k \in DOMAIN s THEN s[k] ELSE m]
           a == AvgOf(S, f)
           b == AvgOf(U, g)
<1>0. /\ IsFiniteSet(S) /\ S \subseteq Nat /\ \A x \in S : f[x] = g[x]
      /\ m \in Nat /\ \A x \in S : x < m
  BY DEF NumberSet, Agree, Below
<1>1. /\ n \in Nat /\ DOMAIN s = 1 .. n /\ \A k \in 1 .. n : s[k] \in S
      /\ s \in Increasing(S)
  BY <1>0, InOrderIs
<1>2. Cardinality(U) = n + 1 /\ t \in Increasing(U)
  BY <1>0, <1>1, IncreasingAppend
<1>3. IsFiniteSet(U) /\ U \subseteq Nat
  BY <1>0, FS_AddElement
<1>4. InOrder(U) = t
  <2>1. InOrder(U) \in Increasing(U)
    BY <1>3, InOrderIs
  <2> HIDE DEF U, t
  <2> QED BY <1>2, <1>3, <2>1, IncreasingUnique
<1>5. PICK T : a \in Seq(T) /\ Len(a) = n /\ DOMAIN a = 1 .. n
  <2> DEFINE T == {f[x] : x \in S}
  <2>1. \A x \in S : f[x] \in T
    OBVIOUS
  <2> HIDE DEF T
  <2>2. a \in Seq(T) /\ Len(a) = n /\ DOMAIN a = 1 .. n
    BY <1>0, <2>1, AvgType
  <2> QED BY <2>2
<1>6. a = [k \in 1 .. n |-> f[s[k]]]
  BY <1>1 DEF AvgOf
<1>7. b = [k \in 1 .. n + 1 |-> g[t[k]]]
  <2>1. DOMAIN t = 1 .. n + 1
    OBVIOUS
  <2> HIDE DEF t, U, n
  <2> QED BY <1>4, <2>1 DEF AvgOf
<1>8. \A k \in 1 .. n : g[t[k]] = a[k]
  <2> SUFFICES ASSUME NEW k \in 1 .. n PROVE g[t[k]] = a[k]
    OBVIOUS
  <2>1. t[k] = s[k] /\ s[k] \in S
    BY <1>1
  <2>3. f[s[k]] = g[s[k]]
    BY <1>0, <2>1
  <2>2. a[k] = f[s[k]]
    BY <1>6
  <2> HIDE DEF t, s, a
  <2> QED BY <2>1, <2>2, <2>3
<1>9. g[t[n + 1]] = g[m]
  <2>1. n + 1 \notin DOMAIN s /\ n + 1 \in 1 .. n + 1
    BY <1>1
  <2>2. t[n + 1] = m
    BY <2>1
  <2> HIDE DEF t
  <2> QED BY <2>2
<1> DEFINE c == Append(a, g[m])
<1> HIDE DEF a, b, t, n
<1>10. c = [k \in 1 .. n + 1 |-> IF k = n + 1 THEN g[m] ELSE a[k]]
  <2>1. a \in Seq(T) /\ DOMAIN a = 1 .. Len(a) /\ Len(a) = n
    BY <1>1, <1>5
  <2>2. /\ c \in Seq(T \cup {g[m]}) /\ Len(c) = n + 1 /\ c[n + 1] = g[m]
        /\ \A k \in 1 .. n : c[k] = a[k]
    <3>1. a \in Seq(T \cup {g[m]}) /\ g[m] \in T \cup {g[m]}
      BY <2>1
    <3> QED BY <2>1, <3>1, AppendProperties
  <2> HIDE DEF c
  <2>3. DOMAIN c = 1 .. n + 1 /\ c = [k \in DOMAIN c |-> c[k]]
    BY <2>2
  <2>4. \A k \in 1 .. n + 1 : c[k] = IF k = n + 1 THEN g[m] ELSE a[k]
    <3> SUFFICES ASSUME NEW k \in 1 .. n + 1
                 PROVE  c[k] = IF k = n + 1 THEN g[m] ELSE a[k]
      OBVIOUS
    <3>1. k = n + 1 \/ k \in 1 .. n
      BY <1>1
    <3> QED BY <2>2, <3>1
  <2> QED BY <2>3, <2>4
<1>11. \A k \in 1 .. n + 1 : g[t[k]] = IF k = n + 1 THEN g[m] ELSE a[k]
  <2> SUFFICES ASSUME NEW k \in 1 .. n + 1
               PROVE  g[t[k]] = IF k = n + 1 THEN g[m] ELSE a[k]
    OBVIOUS
  <2>1. k = n + 1 \/ k \in 1 .. n
    BY <1>1
  <2> QED BY <1>1, <1>8, <1>9, <2>1
<1>12. b = c
  BY <1>7, <1>10, <1>11
<1> QED BY <1>12 DEF a, b

\* The samples of P that are averaged, when sample m is over.
WithTerm(S, g, m) == Append(AvgOf(S, g), g[m])

LEMMA AvgMore ==
  ASSUME NEW E, NEW P, NEW m, NEW g, NumberSet(E), m \in P, Below(E, m)
  PROVE  AvgOf((E \cup {m}) \cap P, g) = WithTerm(E \cap P, g, m)
<1> DEFINE S == E \cap P
<1>1. NumberSet(S) /\ Below(S, m) /\ Agree(g, g, S)
  BY FS_Subset DEF NumberSet, Below, Agree
<1>2. (E \cup {m}) \cap P = S \cup {m}
  OBVIOUS
<1> HIDE DEF S
<1>3. AvgOf(S \cup {m}, g) = Append(AvgOf(S, g), g[m])
  BY <1>1, AvgAppend
<1> QED BY <1>2, <1>3 DEF S, WithTerm

LEMMA AvgSame ==
  ASSUME NEW E, NEW P, NEW m, m \notin P, NEW g
  PROVE  AvgOf((E \cup {m}) \cap P, g) = AvgOf(E \cap P, g)
<1>1. (E \cup {m}) \cap P = E \cap P
  OBVIOUS
<1> QED BY <1>1
-----------------------------------------------------------------------------
(* Sums and averages over the samples of a trace.                          *)

LifeSum(in, p) == SumFunction([id \in IdsIn(in) |-> LifeOf(in, p, id)])
MiddleSum(in, i, j) ==
  SumFunction([id \in IdsIn(in) |-> Cardinality(MiddleSet(in, i, j, id))])

LEMMA IdsAppended ==
  ASSUME NEW R, NEW in \in Seq(R), NEW e \in R
  PROVE  /\ IdsIn(Append(in, e)) = IdsIn(in) \cup {e.sample}
         /\ IsFiniteSet(IdsIn(in)) /\ IsFiniteSet(IdsIn(in) \cup {e.sample})
<1> DEFINE out == Append(in, e)
           N == Len(in) + 1
<1>1. /\ DOMAIN out = DOMAIN in \cup {N} /\ out[N] = e
      /\ \A l \in DOMAIN in : out[l] = in[l]
  BY Appended
<1> HIDE DEF out, N
<1>2. IdsIn(out) = IdsIn(in) \cup {e.sample}
  BY <1>1 DEF IdsIn
<1>3. IsFiniteSet(IdsIn(in))
  <2> DEFINE f == [l \in DOMAIN in |-> in[l].sample]
  <2>1. IsFiniteSet(DOMAIN in)
    BY FS_Interval
  <2>2. f \in Surjection(DOMAIN in, IdsIn(in))
    BY DEF Surjection, IdsIn
  <2> QED BY <2>1, <2>2, FS_Surjection
<1>4. IsFiniteSet(IdsIn(in) \cup {e.sample})
  BY <1>3, FS_AddElement
<1> QED BY <1>2, <1>3, <1>4 DEF out

\* A sample that is not in the trace has no accesses in it.
LEMMA NotInTrace ==
  ASSUME NEW in, NEW id, id \notin IdsIn(in)
  PROVE  /\ \A p : AccIn(in, p, id) = {} /\ LifeOf(in, p, id) = 0
         /\ \A i, j : MiddleSet(in, i, j, id) = {} /\ OpenSet(in, i, j, id) = {}
<1>1. \A p : AccIn(in, p, id) = {}
  BY DEF AccIn, IdsIn
<1> QED BY <1>1 DEF LifeOf, MiddleSet, OpenSet

LEMMA LifeSumAppended ==
  ASSUME NEW R, NEW in \in Seq(R), NEW e \in R, NEW p, NEW N, N = Len(in) + 1
  PROVE  /\ LifeSum(Append(in, e), p) =
              LifeSum(in, p) + IF e.page = p /\ Seen(in, e)
                               THEN N - Max(AccIn(in, e.page, e.sample)) ELSE 0
         /\ LifeSum(in, p) \in Nat
<1> DEFINE out == Append(in, e)
           I == IdsIn(in)
           a == e.sample
           J == I \cup {a}
           f == [id \in J |-> LifeOf(in, p, id)]
           g == [id \in J |-> LifeOf(out, p, id)]
           h == [id \in I |-> LifeOf(in, p, id)]
           more == IF e.page = p /\ Seen(in, e)
                   THEN N - Max(AccIn(in, e.page, a)) ELSE 0
<1>1. IdsIn(out) = J /\ IsFiniteSet(I) /\ IsFiniteSet(J)
  BY ZenonT(30), IdsAppended
<1>2. out \in Seq(R)
  OBVIOUS
<1>3. \A id \in J : f[id] \in Nat /\ g[id] \in Nat
  BY <1>2, LifeType
<1>4. ASSUME NEW id \in I, id # a PROVE f[id] = g[id]
  BY <1>4, RestStays
<1>5. a \notin I => f[a] = 0
  BY NotInTrace
<1>6. g[a] = f[a] + more
  <2>1. CASE e.page = p
    <3>1. LifeOf(out, p, a) =
            LifeOf(in, p, a) + IF AccIn(in, e.page, e.sample) = {} THEN 0
                               ELSE N - Max(AccIn(in, e.page, e.sample))
      BY <2>1, LifeAppended
    <3>2. Seen(in, e) <=> AccIn(in, e.page, e.sample) # {}
      BY DEF Seen
    <3>3. f[a] = LifeOf(in, p, a) /\ g[a] = LifeOf(out, p, a)
      OBVIOUS
    <3> HIDE DEF f, g, out
    <3> QED BY <2>1, <3>1, <3>2, <3>3
  <2>2. CASE e.page # p
    <3>1. LifeOf(out, p, a) = LifeOf(in, p, a)
      BY <2>2, RestStays
    <3>2. LifeOf(in, p, a) \in Nat
      BY LifeType
    <3>3. f[a] = LifeOf(in, p, a) /\ g[a] = LifeOf(out, p, a) /\ more = 0
      BY <2>2
    <3> HIDE DEF f, g, out, more
    <3> QED BY <3>1, <3>2, <3>3
  <2> QED BY <2>1, <2>2
<1>7. LifeSum(out, p) = SumFunctionOnSet(g, J)
  <2>1. LifeSum(out, p) = SumFunctionOnSet([id \in IdsIn(out) |-> LifeOf(out, p, id)], IdsIn(out))
    BY Zenon DEF LifeSum, SumFunction
  <2> QED BY <1>1, <2>1
<1>8. LifeSum(in, p) = SumFunctionOnSet(h, I)
  BY Zenon DEF LifeSum, SumFunction
<1>9. ASSUME NEW id \in I PROVE h[id] \in Int /\ h[id] = f[id]
  <2>1. id \in J /\ h[id] = LifeOf(in, p, id) /\ f[id] = LifeOf(in, p, id)
    OBVIOUS
  <2>2. f[id] \in Nat
    BY <1>3, <2>1
  <2> HIDE DEF f, h
  <2> QED BY <2>1, <2>2
<1>10. \A id \in I : h[id] \in Nat
  BY <1>3
<1>11. a \in J /\ I \subseteq J
  OBVIOUS
<1> HIDE DEF f, g, h, I, out, more
<1>12. SumFunctionOnSet(h, I) = SumFunctionOnSet(f, I)
  BY <1>1, <1>9, SumEqual
<1>13. SumFunctionOnSet(h, I) \in Nat
  BY <1>1, <1>10, SumNat
<1>14. SumFunctionOnSet(g, I \cup {a}) = SumFunctionOnSet(f, I) - f[a] + g[a]
  <2>1. Integral(f, I \cup {a}) /\ Integral(g, I \cup {a})
    BY <1>3 DEF Integral
  <2>2. SameBut(f, g, I, a)
    BY <1>4 DEF SameBut
  <2> QED BY <1>1, <1>5, <2>1, <2>2, SumStep
<1>15. f[a] \in Nat /\ g[a] \in Nat
  BY <1>3, <1>11
<1>16. more \in Int
  <2>1. CASE e.page = p /\ Seen(in, e)
    <3>1. PICK x, y \in AccIn(in, e.page, e.sample) : Max(AccIn(in, e.page, e.sample)) = y
      BY <2>1, AccMinMax DEF Seen
    <3>2. y \in Nat /\ N \in Nat
      BY Appended DEF AccIn
    <3> QED BY <2>1, <3>1, <3>2 DEF more
  <2>2. CASE ~(e.page = p /\ Seen(in, e))
    BY <2>2 DEF more
  <2> QED BY <2>1, <2>2
<1>17. LifeSum(out, p) = LifeSum(in, p) + more
  BY <1>6, <1>7, <1>8, <1>12, <1>13, <1>14, <1>15, <1>16
<1> QED BY <1>8, <1>13, <1>17 DEF out, more

LEMMA MiddleSumAppended ==
  ASSUME NEW R, NEW in \in Seq(R), NEW e \in R, NEW i, NEW j
  PROVE  /\ MiddleSum(Append(in, e), i, j) =
              MiddleSum(in, i, j)
              + IF e.page = i THEN Cardinality(OpenSet(in, i, j, e.sample)) ELSE 0
         /\ MiddleSum(in, i, j) \in Nat
<1> DEFINE out == Append(in, e)
           I == IdsIn(in)
           a == e.sample
           J == I \cup {a}
           f == [id \in J |-> Cardinality(MiddleSet(in, i, j, id))]
           g == [id \in J |-> Cardinality(MiddleSet(out, i, j, id))]
           h == [id \in I |-> Cardinality(MiddleSet(in, i, j, id))]
           more == IF e.page = i THEN Cardinality(OpenSet(in, i, j, a)) ELSE 0
<1>1. IdsIn(out) = J /\ IsFiniteSet(I) /\ IsFiniteSet(J)
  BY IdsAppended
<1>2. out \in Seq(R)
  OBVIOUS
<1>3. \A id \in J : f[id] \in Nat /\ g[id] \in Nat
  BY <1>2, SetsOfPair, FS_CardinalityType
<1>4. ASSUME NEW id \in J
      PROVE  g[id] = f[id] + IF e.page = i /\ e.sample = id
                             THEN Cardinality(OpenSet(in, i, j, id)) ELSE 0
  BY MiddleCount
<1>5. a \notin I => f[a] = 0
  <2>1. a \notin I => MiddleSet(in, i, j, a) = {}
    BY NotInTrace
  <2> QED BY <2>1, FS_EmptySet
<1>6. Cardinality(OpenSet(in, i, j, a)) \in Nat
  BY SetsOfPair, FS_CardinalityType
<1>7. MiddleSum(out, i, j) = SumFunctionOnSet(g, J)
  <2>1. MiddleSum(out, i, j) =
          SumFunctionOnSet([id \in IdsIn(out) |-> Cardinality(MiddleSet(out, i, j, id))],
                           IdsIn(out))
    BY Zenon DEF MiddleSum, SumFunction
  <2> QED BY <1>1, <2>1
<1>8. MiddleSum(in, i, j) = SumFunctionOnSet(h, I)
  BY Zenon DEF MiddleSum, SumFunction
<1>9. ASSUME NEW id \in I PROVE h[id] \in Int /\ h[id] = f[id]
  <2>1. id \in J /\ h[id] = Cardinality(MiddleSet(in, i, j, id)) /\ f[id] = Cardinality(MiddleSet(in, i, j, id))
    OBVIOUS
  <2>2. f[id] \in Nat
    BY <1>3, <2>1
  <2> HIDE DEF f, h
  <2> QED BY <2>1, <2>2
<1>10. \A id \in I : h[id] \in Nat
  BY <1>3
<1>11. a \in J /\ I \subseteq J
  OBVIOUS
<1> HIDE DEF f, g, h, I, out
<1>12. SumFunctionOnSet(h, I) = SumFunctionOnSet(f, I)
  BY <1>1, <1>9, SumEqual
<1>13. SumFunctionOnSet(h, I) \in Nat
  BY <1>1, <1>10, SumNat
<1>14. SumFunctionOnSet(g, I \cup {a}) = SumFunctionOnSet(f, I) - f[a] + g[a]
  <2>1. Integral(f, I \cup {a}) /\ Integral(g, I \cup {a})
    BY <1>3 DEF Integral
  <2>3. ASSUME NEW x \in I, x # a PROVE f[x] = g[x]
    <3>1. g[x] = f[x] + 0 /\ f[x] \in Nat
      BY <1>3, <1>4, <1>11, <2>3
    <3> QED BY <3>1
  <2>2. SameBut(f, g, I, a)
    BY <2>3 DEF SameBut
  <2> QED BY <1>1, <1>5, <2>1, <2>2, SumStep
<1>15. f[a] \in Nat /\ g[a] \in Nat
  BY <1>3, <1>11
<1>16. g[a] = f[a] + more
  BY <1>4, <1>11
<1>17. more \in Nat
  BY <1>6
<1> HIDE DEF more
<1>18. MiddleSum(out, i, j) = MiddleSum(in, i, j) + more
  BY <1>7, <1>8, <1>12, <1>13, <1>14, <1>15, <1>16, <1>17
<1> QED BY <1>8, <1>13, <1>18 DEF out, more
\* The samples that are over, and those that say something of a page.
Earlier(in)      == IF in = << >> THEN {} ELSE IdsIn(in) \ {Last(in).sample}
Alive(in, p)     == {id \in IdsIn(in) : LifeOf(in, p, id) > 0}
Repeating(in, p) == {id \in IdsIn(in) : RepeatsIn(in, p, id) # {}}
ReuseTerm(in, p) ==
  [id \in IdsIn(in) |-> <<ReuseOf(in, p, id), Cardinality(RepeatsIn(in, p, id))>>]
MiddleTerm(in, i, j) ==
  [id \in IdsIn(in) |-> <<Cardinality(MiddleSet(in, i, j, id)), LifeOf(in, i, id) + 1>>]

\* What the totals, and a pair, say when the samples ids are over.
LivesOf(t, in, ids) ==
  \A p \in RefBlocks : t.life[p] = LifeSum(in, p) + Cardinality(ids \cap Alive(in, p))
ReusesOf(t, in, ids, of) ==
  \A p \in of : t.avgRUD[p] = AvgOf(ids \cap Repeating(in, p), ReuseTerm(in, p))
MiddlesOf(pr, in, i, j, ids) ==
  /\ pr.totalMid = MiddleSum(in, i, j)
  /\ pr.smplAvg = AvgOf(ids \cap Alive(in, i), MiddleTerm(in, i, j))

\* What earlier samples say stays.
Stays(in, out, ids) ==
  /\ \A p : /\ ids \cap Alive(out, p) = ids \cap Alive(in, p)
            /\ ids \cap Repeating(out, p) = ids \cap Repeating(in, p)
            /\ Agree(ReuseTerm(in, p), ReuseTerm(out, p), ids)
  /\ \A i, j : Agree(MiddleTerm(in, i, j), MiddleTerm(out, i, j), ids)

LEMMA EarlierStays ==
  ASSUME NEW R, NEW in \in Seq(R), NEW e \in R,
         NEW ids \in SUBSET (IdsIn(in) \ {e.sample})
  PROVE  Stays(in, Append(in, e), ids)
<1> DEFINE out == Append(in, e)
<1>1. ids \subseteq IdsIn(in) /\ ids \subseteq IdsIn(out)
  BY ZenonT(30), IdsAppended
<1>2. ASSUME NEW p, NEW id \in ids
      PROVE  /\ LifeOf(out, p, id) = LifeOf(in, p, id)
             /\ RepeatsIn(out, p, id) = RepeatsIn(in, p, id)
             /\ ReuseOf(out, p, id) = ReuseOf(in, p, id)
  BY RestStays
<1>3. ASSUME NEW i, NEW j, NEW id \in ids
      PROVE  Cardinality(MiddleSet(out, i, j, id)) = Cardinality(MiddleSet(in, i, j, id))
  <2>1. e.sample # id
    OBVIOUS
  <2>2. Cardinality(MiddleSet(out, i, j, id)) = Cardinality(MiddleSet(in, i, j, id)) + 0
    BY <2>1, MiddleCount
  <2>3. Cardinality(MiddleSet(in, i, j, id)) \in Nat
    BY MiddleCount
  <2> QED BY <2>2, <2>3
<1> HIDE DEF out
<1>4. ASSUME NEW p
      PROVE  /\ ids \cap Alive(out, p) = ids \cap Alive(in, p)
             /\ ids \cap Repeating(out, p) = ids \cap Repeating(in, p)
             /\ Agree(ReuseTerm(in, p), ReuseTerm(out, p), ids)
  <2>1. \A id \in ids : id \in Alive(out, p) <=> id \in Alive(in, p)
    BY <1>1, <1>2 DEF Alive
  <2>2. \A id \in ids : id \in Repeating(out, p) <=> id \in Repeating(in, p)
    BY <1>1, <1>2 DEF Repeating
  <2>3. \A id \in ids : ReuseTerm(in, p)[id] = ReuseTerm(out, p)[id]
    BY <1>1, <1>2 DEF ReuseTerm
  <2> QED BY <2>1, <2>2, <2>3 DEF Agree
<1>5. ASSUME NEW i, NEW j
      PROVE  Agree(MiddleTerm(in, i, j), MiddleTerm(out, i, j), ids)
  BY <1>1, <1>2, <1>3 DEF Agree, MiddleTerm
<1> QED BY <1>4, <1>5 DEF out, Stays

\* The sample of the last access comes after the earlier ones.
LEMMA EarlierIs ==
  ASSUME SpatialInv
  PROVE  /\ NumberSet(IdsIn(input)) /\ NumberSet(Earlier(input))
         /\ input = << >> => IdsIn(input) = {} /\ Earlier(input) = {}
         /\ input # << >> => /\ Below(Earlier(input), Last(input).sample)
                             /\ IdsIn(input) = Earlier(input) \cup {Last(input).sample}
                             /\ Last(input).sample \notin Earlier(input)
<1> DEFINE cur == Last(input).sample
<1>1. TypeOK /\ input \in Seq(Inputs) /\ SortedSamples
  BY TypeOKIs DEF SpatialInv
<1>2. ASSUME NEW l \in DOMAIN input PROVE input[l].sample \in Nat
  <2>1. input[l] \in Inputs
    BY <1>1
  <2> QED BY <2>1, AddressesAssumption DEF Inputs
<1>3. IsFiniteSet(IdsIn(input))
  <2> DEFINE f == [l \in DOMAIN input |-> input[l].sample]
  <2>1. IsFiniteSet(DOMAIN input)
    BY <1>1, FS_Interval
  <2>2. f \in Surjection(DOMAIN input, IdsIn(input))
    BY DEF Surjection, IdsIn
  <2> QED BY <2>1, <2>2, FS_Surjection
<1>4. Earlier(input) \subseteq IdsIn(input)
  BY DEF Earlier
<1>5. IsFiniteSet(Earlier(input))
  BY <1>3, <1>4, FS_Subset
<1>6. IdsIn(input) \subseteq Nat
  BY <1>2 DEF IdsIn
<1>7. input = << >> => IdsIn(input) = {} /\ Earlier(input) = {}
  BY DEF IdsIn, Earlier
<1>8. ASSUME input # << >>
      PROVE  /\ Below(Earlier(input), cur) /\ cur \notin Earlier(input)
             /\ IdsIn(input) = Earlier(input) \cup {cur}
  <2>1. Len(input) \in DOMAIN input /\ cur = input[Len(input)].sample
    BY <1>1, <1>8 DEF Last
  <2>2. cur \in IdsIn(input) /\ cur \in Nat
    BY <1>2, <2>1 DEF IdsIn
  <2>3. \A id \in IdsIn(input) : id <= cur /\ id \in Nat
    <3>1. \A l \in DOMAIN input : l <= Len(input)
      BY <1>1
    <3>2. \A l \in DOMAIN input : input[l].sample <= cur
      BY <1>1, <2>1, <3>1 DEF SortedSamples
    <3> QED BY <1>2, <3>2 DEF IdsIn
  <2>4. Earlier(input) = IdsIn(input) \ {cur}
    BY <1>8 DEF Earlier
  <2> HIDE DEF cur
  <2>5. ASSUME NEW id \in Earlier(input) PROVE id < cur
    <3>1. id \in IdsIn(input) /\ id # cur
      BY <2>4
    <3>2. id <= cur /\ id \in Nat
      BY <2>3, <3>1
    <3> QED BY <2>2, <3>1, <3>2
  <2> QED BY <2>2, <2>4, <2>5 DEF Below
<1>9. Earlier(input) \subseteq Nat
  BY <1>4, <1>6
<1> QED BY <1>3, <1>5, <1>6, <1>7, <1>8, <1>9 DEF NumberSet
-----------------------------------------------------------------------------
(* The invariants of sums and averages.                                    *)

\* The arrays of the sample say what its accesses say.
SampleInv == input # << >> => CountsOf(smpl, input, Last(input).sample)

\* The samples that the totals, the averages and the pairs have taken in.
Ended  == IF phase = "done" THEN IdsIn(input) ELSE Earlier(input)
Lived  == IF call.spatial THEN Ended ELSE Earlier(input)

TotalsInv ==
  /\ LivesOf(totals, input, Lived)
  /\ ReusesOf(totals, input, Ended, IF phase = "done" THEN RefBlocks ELSE Pages)
MiddlesInv ==
  call.spatial => \A i \in RefBlocks, j \in Pages :
    MiddlesOf(pairs[<<i, j>>], input, i, j, Ended)

\* What the arrays of the sample say when it ends.
LEMMA SampleSays ==
  ASSUME SpatialInv, SampleInv, input # << >>, NEW p \in Pages,
         NEW cur, cur = Last(input).sample
  PROVE  /\ p \in RefBlocks => /\ smpl.life[p] = LifeOf(input, p, cur)
                               /\ cur \in Alive(input, p) <=> smpl.life[p] # 0
         /\ cur \in Repeating(input, p) <=> smpl.access[p] > 1
         /\ cur \in Repeating(input, p) =>
              ReuseTerm(input, p)[cur] = <<smpl.rud[p], smpl.access[p] - 1>>
         /\ cur \in IdsIn(input)
<1>1. input \in Seq(Inputs) /\ smpl \in Samples
  BY TypeOKIs DEF SpatialInv
<1>2. smpl.access[p] \in Nat /\ smpl.rud[p] \in Nat /\ smpl.life[p] \in Nat
  BY <1>1 DEF Samples, Counts
<1>3. cur \in IdsIn(input)
  BY EarlierIs
<1>4. /\ Cardinality(RepeatsIn(input, p, cur)) =
           IF smpl.access[p] = 0 THEN 0 ELSE smpl.access[p] - 1
      /\ smpl.rud[p] = ReuseOf(input, p, cur)
      /\ p \in RefBlocks => smpl.life[p] = LifeOf(input, p, cur)
  BY DEF SampleInv, CountsOf
<1>5. RepeatsIn(input, p, cur) = {} <=> Cardinality(RepeatsIn(input, p, cur)) = 0
  <2>1. IsFiniteSet(AccIn(input, p, cur)) /\ RepeatsIn(input, p, cur) \subseteq AccIn(input, p, cur)
    BY <1>1, SetsOfPair DEF RepeatsIn
  <2>2. IsFiniteSet(RepeatsIn(input, p, cur))
    BY <2>1, FS_Subset
  <2> QED BY <2>2, FS_EmptySet
<1>6. cur \in Repeating(input, p) <=> RepeatsIn(input, p, cur) # {}
  BY <1>3 DEF Repeating
<1>7. cur \in Repeating(input, p) <=> smpl.access[p] > 1
  BY <1>2, <1>4, <1>5, <1>6
<1>8. ReuseTerm(input, p)[cur] =
        <<ReuseOf(input, p, cur), Cardinality(RepeatsIn(input, p, cur))>>
  BY <1>3 DEF ReuseTerm
<1>9. ASSUME cur \in Repeating(input, p)
      PROVE  ReuseTerm(input, p)[cur] = <<smpl.rud[p], smpl.access[p] - 1>>
  <2>1. Cardinality(RepeatsIn(input, p, cur)) = smpl.access[p] - 1
    BY <1>2, <1>4, <1>7, <1>9
  <2> QED BY <1>4, <1>8, <2>1
<1>10. p \in RefBlocks => (cur \in Alive(input, p) <=> smpl.life[p] # 0)
  BY <1>2, <1>3, <1>4 DEF Alive
<1> QED BY <1>3, <1>4, <1>7, <1>9, <1>10

\* One sample more that is over.
LEMMA OneMore ==
  ASSUME NEW E, NumberSet(E), NEW P, NEW m, m \notin E
  PROVE  /\ m \in P => Cardinality((E \cup {m}) \cap P) = Cardinality(E \cap P) + 1
         /\ m \notin P => Cardinality((E \cup {m}) \cap P) = Cardinality(E \cap P)
         /\ Cardinality(E \cap P) \in Nat
<1> DEFINE S == E \cap P
<1>1. IsFiniteSet(S) /\ m \notin S
  BY FS_Subset DEF NumberSet
<1>2. m \in P => (E \cup {m}) \cap P = S \cup {m}
  OBVIOUS
<1>3. m \notin P => (E \cup {m}) \cap P = S
  OBVIOUS
<1> HIDE DEF S
<1>4. Cardinality(S) \in Nat /\ Cardinality(S \cup {m}) = Cardinality(S) + 1
  BY <1>1, FS_CardinalityType, FS_AddElement
<1> QED BY <1>2, <1>3, <1>4 DEF S

\* The current sample is closed.
LEMMA LivesClosed ==
  ASSUME SpatialInv, SampleInv, NEW t \in AllTotals,
         LivesOf(t, input, Earlier(input))
  PROVE  LivesOf(ClosedLives(t), input, IdsIn(input))
<1> DEFINE c == ClosedLives(t)
           E == Earlier(input)
           cur == Last(input).sample
<1>1. call \in Calls /\ smpl \in Samples /\ RefBlocks \subseteq Pages
  BY TypeOKIs, PagesType DEF SpatialInv
<1>2. c.life = [p \in Pages |-> IF smpl.life[p] # 0 THEN t.life[p] + 1 ELSE t.life[p]]
  BY DEF ClosedLives, AllTotals
<1>3. SUFFICES ASSUME NEW p \in RefBlocks
               PROVE  c.life[p] = LifeSum(input, p)
                                  + Cardinality(IdsIn(input) \cap Alive(input, p))
  BY DEF LivesOf
<1>4. /\ p \in Pages
      /\ c.life[p] = IF smpl.life[p] # 0 THEN t.life[p] + 1 ELSE t.life[p]
      /\ t.life[p] = LifeSum(input, p) + Cardinality(E \cap Alive(input, p))
      /\ t.life[p] \in Nat
  BY <1>1, <1>2 DEF LivesOf, AllTotals, Counts
<1>5. LifeSum(input, p) \in Nat
  <2>1. input \in Seq(Inputs)
    BY TypeOKIs DEF SpatialInv
  <2>2. \A id \in IdsIn(input) : LifeOf(input, p, id) \in Nat
    BY <2>1, LifeType
  <2> DEFINE f == [id \in IdsIn(input) |-> LifeOf(input, p, id)]
  <2>3. LifeSum(input, p) = SumFunctionOnSet(f, IdsIn(input))
    BY Zenon DEF LifeSum, SumFunction
  <2>4. \A id \in IdsIn(input) : f[id] \in Nat
    BY <2>2
  <2>5. IsFiniteSet(IdsIn(input))
    BY EarlierIs DEF NumberSet
  <2> HIDE DEF f
  <2> QED BY <2>3, <2>4, <2>5, SumNat
<1> HIDE DEF c
<1>6. CASE input = << >>
  <2>1. IdsIn(input) = E
    BY <1>6, EarlierIs
  <2>2. smpl.life[p] = 0
    BY <1>4, <1>6 DEF SpatialInv, FreshSample, Zeros
  <2> QED BY <1>4, <2>1, <2>2
<1>7. CASE input # << >>
  <2>1. cur \in Alive(input, p) <=> smpl.life[p] # 0
    BY <1>4, <1>7, SampleSays
  <2>2. IdsIn(input) = E \cup {cur} /\ cur \notin E /\ NumberSet(E)
    BY <1>7, EarlierIs
  <2> HIDE DEF cur, E
  <2>3. /\ cur \in Alive(input, p) => Cardinality(IdsIn(input) \cap Alive(input, p)) =
                                        Cardinality(E \cap Alive(input, p)) + 1
        /\ cur \notin Alive(input, p) => Cardinality(IdsIn(input) \cap Alive(input, p)) =
                                           Cardinality(E \cap Alive(input, p))
        /\ Cardinality(E \cap Alive(input, p)) \in Nat
    BY <2>2, OneMore
  <2>4. CASE smpl.life[p] # 0
    BY <1>4, <1>5, <2>1, <2>3, <2>4
  <2>5. CASE smpl.life[p] = 0
    BY <1>4, <1>5, <2>1, <2>3, <2>5
  <2> QED BY <2>4, <2>5
<1> QED BY <1>6, <1>7

LEMMA ReusesClosed ==
  ASSUME SpatialInv, SampleInv, NEW t \in AllTotals, NEW of \in SUBSET Pages,
         ReusesOf(t, input, Earlier(input), of)
  PROVE  ReusesOf(AveragedRUD(t, of), input, IdsIn(input), of)
<1> DEFINE c == AveragedRUD(t, of)
           E == Earlier(input)
           cur == Last(input).sample
<1>1. c.avgRUD = [p \in Pages |->
                    IF p \in of /\ smpl.access[p] > 1
                    THEN Append(t.avgRUD[p], <<smpl.rud[p], smpl.access[p] - 1>>)
                    ELSE t.avgRUD[p]]
  BY DEF AveragedRUD, AllTotals
<1>2. SUFFICES ASSUME NEW p \in of
               PROVE  c.avgRUD[p] =
                        AvgOf(IdsIn(input) \cap Repeating(input, p), ReuseTerm(input, p))
  BY DEF ReusesOf
<1>3. /\ p \in Pages
      /\ c.avgRUD[p] = IF smpl.access[p] > 1
                       THEN Append(t.avgRUD[p], <<smpl.rud[p], smpl.access[p] - 1>>)
                       ELSE t.avgRUD[p]
      /\ t.avgRUD[p] = AvgOf(E \cap Repeating(input, p), ReuseTerm(input, p))
  BY <1>1 DEF ReusesOf
<1> HIDE DEF c
<1>4. CASE input = << >>
  <2>1. IdsIn(input) = E
    BY <1>4, EarlierIs
  <2>2. ~(smpl.access[p] > 1)
    <3>1. smpl.access[p] = 0
      BY <1>3, <1>4 DEF SpatialInv, FreshSample, Zeros
    <3> QED BY <3>1
  <2> QED BY <1>3, <2>1, <2>2
<1>5. CASE input # << >>
  <2> DEFINE P == Repeating(input, p)
             g == ReuseTerm(input, p)
  <2>1. /\ cur \in P <=> smpl.access[p] > 1
        /\ cur \in P => g[cur] = <<smpl.rud[p], smpl.access[p] - 1>>
    BY <1>3, <1>5, SampleSays
  <2>2. IdsIn(input) = E \cup {cur} /\ Below(E, cur) /\ NumberSet(E)
    BY <1>5, EarlierIs
  <2> HIDE DEF cur, E, P, g
  <2>3. cur \in P => AvgOf((E \cup {cur}) \cap P, g) = WithTerm(E \cap P, g, cur)
    BY <2>2, AvgMore
  <2>4. cur \notin P => AvgOf((E \cup {cur}) \cap P, g) = AvgOf(E \cap P, g)
    BY AvgSame
  <2>5. t.avgRUD[p] = AvgOf(E \cap P, g)
    BY <1>3 DEF P, g
  <2>6. c.avgRUD[p] = AvgOf(IdsIn(input) \cap P, g)
    BY <1>3, <2>1, <2>2, <2>3, <2>4, <2>5 DEF WithTerm
  <2> QED BY <2>6 DEF P, g
<1> QED BY <1>4, <1>5
\* An access is counted.
LEMMA LivesCounted ==
  ASSUME call \in Calls, input \in Seq(Inputs), NEW e \in Inputs, e.page \in Pages,
         NEW s \in Samples, RecencyOf(s, input, e.sample), NEW t \in AllTotals,
         NEW ids \in SUBSET (IdsIn(input) \ {e.sample}), LivesOf(t, input, ids)
  PROVE  LivesOf(Counted(t, s, e.page), Append(input, e), ids)
<1> DEFINE c == Counted(t, s, e.page)
           out == Append(input, e)
           N == Len(input) + 1
           A == AccIn(input, e.page, e.sample)
<1>1. t.life \in [Pages -> Nat] /\ RefBlocks \subseteq Pages
  BY PagesType DEF AllTotals, Counts
<1>2. c.life = [t.life EXCEPT ![e.page] = IF e.page \in RefBlocks
                                          THEN @ + RefDistance(s, e.page) ELSE @]
  BY DEF Counted, AllTotals
<1>3. RefDistance(s, e.page) = IF Seen(input, e) THEN N - Max(A) ELSE 0
  <2>1. /\ s.last[e.page] = 0 <=> A = {}
        /\ s.last[e.page] = 0 <=> s.access[e.page] = 0
        /\ s.last[e.page] # 0 => Max(A) = s.last[e.page]
    BY LastOf
  <2> HIDE DEF A
  <2> QED BY <2>1 DEF RefDistance, Seen, time, A
<1>4. SUFFICES ASSUME NEW q \in RefBlocks
               PROVE  c.life[q] = LifeSum(out, q) + Cardinality(ids \cap Alive(out, q))
  BY DEF LivesOf
<1>5. /\ LifeSum(out, q) = LifeSum(input, q) + IF e.page = q /\ Seen(input, e)
                                               THEN N - Max(A) ELSE 0
      /\ LifeSum(input, q) \in Nat
  BY LifeSumAppended
<1>6. ids \cap Alive(out, q) = ids \cap Alive(input, q)
  <2>1. Stays(input, out, ids)
    BY EarlierStays
  <2> HIDE DEF out
  <2> QED BY <2>1 DEF Stays
<1>7. t.life[q] = LifeSum(input, q) + Cardinality(ids \cap Alive(input, q))
  BY DEF LivesOf
<1>8. Cardinality(ids \cap Alive(input, q)) \in Nat
  <2>1. IsFiniteSet(IdsIn(input))
    BY IdsAppended
  <2>2. IsFiniteSet(ids \cap Alive(input, q))
    BY <2>1, FS_Subset
  <2> QED BY <2>2, FS_CardinalityType
<1>9. Seen(input, e) => N - Max(A) \in Int
  <2>1. Seen(input, e) => \E a, b \in A : Max(A) = b
    BY AccMinMax DEF Seen
  <2>2. A \subseteq Nat /\ N \in Nat
    BY DEF AccIn
  <2> QED BY <2>1, <2>2
<1> DEFINE d == N - Max(A)
           n == Cardinality(ids \cap Alive(input, q))
<1>10. q \in Pages /\ e.page \in Pages
  BY <1>1
<1> HIDE DEF out, c, N, A, d, n
<1>11. CASE q = e.page
  <2>1. c.life[q] = t.life[q] + IF Seen(input, e) THEN d ELSE 0
    BY <1>1, <1>2, <1>3, <1>10, <1>11 DEF d
  <2>2. LifeSum(out, q) = LifeSum(input, q) + IF Seen(input, e) THEN d ELSE 0
    BY <1>5, <1>11 DEF d
  <2> DEFINE more == IF Seen(input, e) THEN d ELSE 0
  <2>3. more \in Int
    BY <1>9 DEF d
  <2>4. t.life[q] = LifeSum(input, q) + n /\ n \in Nat /\ LifeSum(input, q) \in Nat
    BY <1>5, <1>7, <1>8 DEF n
  <2>5. c.life[q] = t.life[q] + more /\ LifeSum(out, q) = LifeSum(input, q) + more
    BY <2>1, <2>2
  <2>6. n = Cardinality(ids \cap Alive(out, q))
    BY <1>6 DEF n
  <2> HIDE DEF more
  <2>7. c.life[q] = LifeSum(out, q) + n
    BY <2>3, <2>4, <2>5
  <2> QED BY <2>6, <2>7
<1>12. CASE q # e.page
  <2>1. c.life[q] = t.life[q]
    BY <1>1, <1>2, <1>10, <1>12
  <2>2. LifeSum(out, q) = LifeSum(input, q)
    BY <1>5, <1>12
  <2> QED BY <1>6, <1>7, <2>1, <2>2
<1> QED BY <1>11, <1>12

LEMMA ReusesCounted ==
  ASSUME call \in Calls, input \in Seq(Inputs), NEW e \in Inputs, NumberSet(IdsIn(input)),
         NEW s, NEW t \in AllTotals, NEW of \in SUBSET Pages,
         NEW ids \in SUBSET (IdsIn(input) \ {e.sample}), ReusesOf(t, input, ids, of)
  PROVE  ReusesOf(Counted(t, s, e.page), Append(input, e), ids, of)
<1> DEFINE c == Counted(t, s, e.page)
           out == Append(input, e)
<1>1. c.avgRUD = t.avgRUD
  BY DEF Counted, AllTotals
<1>2. SUFFICES ASSUME NEW p \in of
               PROVE  c.avgRUD[p] = AvgOf(ids \cap Repeating(out, p), ReuseTerm(out, p))
  BY DEF ReusesOf
<1> DEFINE S == ids \cap Repeating(input, p)
<1>3. /\ ids \cap Repeating(out, p) = S
      /\ Agree(ReuseTerm(input, p), ReuseTerm(out, p), ids)
  <2>1. Stays(input, out, ids)
    BY EarlierStays
  <2> HIDE DEF out
  <2> QED BY <2>1 DEF Stays
<1>4. NumberSet(S) /\ Agree(ReuseTerm(input, p), ReuseTerm(out, p), S)
  <2>1. S \subseteq IdsIn(input)
    OBVIOUS
  <2>2. NumberSet(S)
    BY <2>1, FS_Subset DEF NumberSet
  <2> QED BY <1>3, <2>2 DEF Agree
<1>5. t.avgRUD[p] = AvgOf(S, ReuseTerm(input, p))
  BY DEF ReusesOf
<1> HIDE DEF c, out, S
<1>6. AvgOf(S, ReuseTerm(input, p)) = AvgOf(S, ReuseTerm(out, p))
  BY <1>4, AvgEqual
<1> QED BY <1>1, <1>3, <1>5, <1>6

\* The earlier samples, when an access comes.
LEMMA EarlierAppended ==
  ASSUME NEW R, NEW in \in Seq(R), NEW e \in R
  PROVE  /\ Last(Append(in, e)) = e /\ Append(in, e) # << >>
         /\ Earlier(Append(in, e)) = IdsIn(in) \ {e.sample}
<1>1. Last(Append(in, e)) = e /\ Append(in, e) # << >>
  BY DEF Last
<1>2. IdsIn(Append(in, e)) = IdsIn(in) \cup {e.sample}
  BY ZenonT(30), IdsAppended
<1> QED BY <1>1, <1>2 DEF Earlier
\* A pair, when the current sample is over.
LEMMA MiddlesClosed ==
  ASSUME SpatialInv, SampleInv, NEW i \in RefBlocks, NEW j \in Pages,
         NEW pr \in PairTypes, PairMiddle(pr, input, i, j, Last(input).sample),
         MiddlesOf(pr, input, i, j, Earlier(input))
  PROVE  MiddlesOf(Averaged(pr, smpl.life[i]), input, i, j, IdsIn(input))
<1> DEFINE c == Averaged(pr, smpl.life[i])
           E == Earlier(input)
           cur == Last(input).sample
           P == Alive(input, i)
           g == MiddleTerm(input, i, j)
<1>1. i \in Pages /\ smpl.life[i] \in Nat
  <2>1. smpl \in Samples /\ RefBlocks \subseteq Pages
    BY TypeOKIs, PagesType DEF SpatialInv
  <2> QED BY <2>1 DEF Samples, Counts
<1>2. /\ c.totalMid = pr.totalMid
      /\ c.smplAvg = IF smpl.life[i] = 0 THEN pr.smplAvg
                     ELSE Append(pr.smplAvg, <<pr.smplMiddle, smpl.life[i] + 1>>)
  BY <1>1, AveragedFields
<1>3. pr.totalMid = MiddleSum(input, i, j) /\ pr.smplAvg = AvgOf(E \cap P, g)
  BY DEF MiddlesOf
<1> HIDE DEF c
<1>4. CASE input = << >>
  <2>1. IdsIn(input) = E
    BY <1>4, EarlierIs
  <2>2. smpl.life[i] = 0
    BY <1>1, <1>4 DEF SpatialInv, FreshSample, Zeros
  <2>3. c.smplAvg = pr.smplAvg
    BY <1>2, <2>2
  <2> HIDE DEF E, P, g
  <2>4. c.smplAvg = AvgOf(IdsIn(input) \cap P, g)
    BY <1>3, <2>1, <2>3
  <2> QED BY <1>2, <1>3, <2>4 DEF MiddlesOf, P, g, c
<1>5. CASE input # << >>
  <2>1. /\ cur \in P <=> smpl.life[i] # 0
        /\ smpl.life[i] = LifeOf(input, i, cur)
        /\ cur \in IdsIn(input)
    BY <1>1, <1>5, SampleSays
  <2>2. g[cur] = <<pr.smplMiddle, smpl.life[i] + 1>>
    <3>1. g[cur] = <<Cardinality(MiddleSet(input, i, j, cur)), LifeOf(input, i, cur) + 1>>
      BY <2>1 DEF MiddleTerm
    <3>2. pr.smplMiddle = Cardinality(MiddleSet(input, i, j, cur))
      BY DEF PairMiddle
    <3> QED BY <2>1, <3>1, <3>2
  <2>3. IdsIn(input) = E \cup {cur} /\ Below(E, cur) /\ NumberSet(E)
    BY <1>5, EarlierIs
  <2> HIDE DEF cur, E, P, g
  <2>4. cur \in P => AvgOf((E \cup {cur}) \cap P, g) = WithTerm(E \cap P, g, cur)
    BY <2>3, AvgMore
  <2>5. cur \notin P => AvgOf((E \cup {cur}) \cap P, g) = AvgOf(E \cap P, g)
    BY AvgSame
  <2>6. c.smplAvg = AvgOf(IdsIn(input) \cap P, g)
    BY <1>2, <1>3, <2>1, <2>2, <2>3, <2>4, <2>5 DEF WithTerm
  <2> QED BY <1>2, <1>3, <2>6 DEF MiddlesOf, P, g, c
<1> QED BY <1>4, <1>5

\* A pair q after an access, from what it was before it.
LEMMA MiddlesCounted ==
  ASSUME input \in Seq(Inputs), NEW e \in Inputs, NumberSet(IdsIn(input)),
         NEW i, NEW j, NEW pr, NEW q,
         NEW ids \in SUBSET (IdsIn(input) \ {e.sample}), MiddlesOf(pr, input, i, j, ids),
         q.smplAvg = pr.smplAvg,
         q.totalMid = IF e.page = i
                      THEN pr.totalMid + Cardinality(OpenSet(input, i, j, e.sample))
                      ELSE pr.totalMid
  PROVE  MiddlesOf(q, Append(input, e), i, j, ids)
<1> DEFINE out == Append(input, e)
           S == ids \cap Alive(input, i)
           d == Cardinality(OpenSet(input, i, j, e.sample))
<1>1. /\ ids \cap Alive(out, i) = S
      /\ Agree(MiddleTerm(input, i, j), MiddleTerm(out, i, j), ids)
  <2>1. Stays(input, out, ids)
    BY EarlierStays
  <2> HIDE DEF out
  <2> QED BY <2>1 DEF Stays
<1>2. NumberSet(S) /\ Agree(MiddleTerm(input, i, j), MiddleTerm(out, i, j), S)
  <2>1. S \subseteq IdsIn(input)
    OBVIOUS
  <2>2. NumberSet(S)
    BY <2>1, FS_Subset DEF NumberSet
  <2> QED BY <1>1, <2>2 DEF Agree
<1>3. pr.totalMid = MiddleSum(input, i, j) /\ pr.smplAvg = AvgOf(S, MiddleTerm(input, i, j))
  BY DEF MiddlesOf
<1>4. /\ MiddleSum(out, i, j) = MiddleSum(input, i, j) + IF e.page = i THEN d ELSE 0
      /\ MiddleSum(input, i, j) \in Nat
  BY MiddleSumAppended
<1>5. q.totalMid = IF e.page = i THEN pr.totalMid + d ELSE pr.totalMid
  OBVIOUS
<1> HIDE DEF out, S, d
<1>6. AvgOf(S, MiddleTerm(input, i, j)) = AvgOf(S, MiddleTerm(out, i, j))
  BY <1>2, AvgEqual
<1>7. q.totalMid = MiddleSum(out, i, j)
  BY <1>3, <1>4, <1>5
<1>8. q.smplAvg = AvgOf(ids \cap Alive(out, i), MiddleTerm(out, i, j))
  BY <1>1, <1>3, <1>6
<1> QED BY <1>7, <1>8 DEF MiddlesOf, out
-----------------------------------------------------------------------------
(* The steps.                                                              *)

AccountInv == SampleInv /\ TotalsInv /\ MiddlesInv

\* What these invariants say after a step that keeps the call.
LEMMA AccountAfter ==
  ASSUME TypeOK, call' = call,
         input' # << >> => CountsOf(smpl', input', Last(input').sample),
         NEW E, E = IF phase' = "done" THEN IdsIn(input') ELSE Earlier(input'),
         LivesOf(totals', input', IF call.spatial THEN E ELSE Earlier(input')),
         ReusesOf(totals', input', E, IF phase' = "done" THEN RefBlocks ELSE Pages),
         call.spatial => \A i \in RefBlocks, j \in Pages :
                           MiddlesOf(pairs'[<<i, j>>], input', i, j, E)
  PROVE  AccountInv'
<1>1. RefBlocks' = RefBlocks /\ Pages' = Pages
  BY SameCall
<1>2. Ended' = E
  BY DEF Ended, Earlier, IdsIn
<1>3. SampleInv'
  BY <1>1 DEF SampleInv, CountsOf
<1>4. TotalsInv'
  <2>1. ReusesOf(totals, input, Ended, IF phase = "done" THEN RefBlocks ELSE Pages)'
    BY <1>1, <1>2 DEF ReusesOf
  <2>2. LivesOf(totals, input, Lived)'
    BY <1>1, <1>2 DEF LivesOf, Lived
  <2> QED BY <2>1, <2>2 DEF TotalsInv
<1>5. MiddlesInv'
  BY <1>1, <1>2 DEF MiddlesInv, MiddlesOf
<1> QED BY <1>3, <1>4, <1>5 DEF AccountInv
LEMMA AccountInit ==
  ASSUME Init
  PROVE  AccountInv
<1>1. /\ call \in Calls /\ input = << >> /\ phase = "reading"
      /\ totals.life = Zeros /\ totals.avgRUD = [p \in Pages |-> << >>]
      /\ RefBlocks \subseteq Pages
  BY PagesType DEF Init
<1>2. IdsIn(<< >>) = {} /\ Earlier(<< >>) = {}
  BY DEF IdsIn, Earlier
<1>3. Ended = {} /\ Lived = {}
  BY <1>1, <1>2 DEF Ended, Lived
<1>4. Cardinality({}) = 0 /\ \A S : {} \cap S = {}
  BY FS_EmptySet
<1>5. ASSUME NEW p PROVE LifeSum(<< >>, p) = 0
  <2> DEFINE f == [id \in IdsIn(<< >>) |-> LifeOf(<< >>, p, id)]
  <2>1. LifeSum(<< >>, p) = SumFunctionOnSet(f, IdsIn(<< >>))
    BY Zenon DEF LifeSum, SumFunction
  <2> HIDE DEF f
  <2> QED BY <1>2, <2>1, SumEmpty
<1>6. ASSUME NEW i, NEW j PROVE MiddleSum(<< >>, i, j) = 0
  <2> DEFINE f == [id \in IdsIn(<< >>) |-> Cardinality(MiddleSet(<< >>, i, j, id))]
  <2>1. MiddleSum(<< >>, i, j) = SumFunctionOnSet(f, IdsIn(<< >>))
    BY Zenon DEF MiddleSum, SumFunction
  <2> HIDE DEF f
  <2> QED BY <1>2, <2>1, SumEmpty
<1>7. LivesOf(totals, input, {})
  BY <1>1, <1>4, <1>5 DEF LivesOf, Zeros
<1>8. ReusesOf(totals, input, {}, Pages)
  <2> SUFFICES ASSUME NEW p \in Pages
               PROVE  totals.avgRUD[p] = AvgOf({} \cap Repeating(input, p), ReuseTerm(input, p))
    BY DEF ReusesOf
  <2>1. AvgOf({}, ReuseTerm(input, p)) = << >>
    BY AvgEmpty
  <2>2. {} \cap Repeating(input, p) = {}
    OBVIOUS
  <2> QED BY <1>1, <2>1, <2>2
<1>9. ASSUME NEW i \in RefBlocks, NEW j \in Pages
      PROVE  MiddlesOf(pairs[<<i, j>>], input, i, j, {})
  <2>1. pairs[<<i, j>>] = NoPair
    BY DEF Init
  <2>2. NoPair.totalMid = 0 /\ NoPair.smplAvg = << >>
    BY DEF NoPair
  <2>3. AvgOf({}, MiddleTerm(input, i, j)) = << >>
    BY AvgEmpty
  <2>4. {} \cap Alive(input, i) = {}
    OBVIOUS
  <2> QED BY <1>1, <1>6, <2>1, <2>2, <2>3, <2>4 DEF MiddlesOf
<1> QED BY <1>1, <1>3, <1>7, <1>8, <1>9 DEF AccountInv, SampleInv, TotalsInv, MiddlesInv

\* An access, counted in the arrays s of its sample and the totals t, which
\* have taken in the other samples.
LEMMA AccountAccess ==
  ASSUME SpatialInv, NEW p \in Pages, NEW id \in SampleIDs, IsAccess(p, id),
         NEW s \in Samples, NEW t \in AllTotals,
         RecencyOf(s, input, id), CountsOf(s, input, id),
         \A k, l \in DOMAIN input :
           k <= l /\ input[k].sample = id => input[l].sample = id,
         smpl' = Touched(s, p), totals' = Counted(t, s, p),
         NEW ids, ids = IdsIn(input) \ {id},
         LivesOf(t, input, ids), ReusesOf(t, input, ids, Pages),
         call.spatial => \A i \in RefBlocks, j \in Pages :
           MiddlesOf(pairs'[<<i, j>>], Append(input, [page |-> p, sample |-> id]), i, j, ids)
  PROVE  AccountInv'
<1> DEFINE e == [page |-> p, sample |-> id]
           out == Append(input, e)
<1>1. /\ TypeOK /\ call \in Calls /\ input \in Seq(Inputs) /\ NumberSet(IdsIn(input))
      /\ e \in Inputs /\ e.page = p /\ e.sample = id
  BY TypeOKIs, EarlierIs DEF SpatialInv, Inputs
<1>2. input' = out /\ call' = call /\ phase' = "reading"
  BY DEF IsAccess
<1> HIDE DEF e
<1>3. Last(out) = e /\ out # << >> /\ Earlier(out) = ids
  BY <1>1, EarlierAppended
<1>4. CountsOf(Touched(s, e.page), out, e.sample)
  BY <1>1, TouchedCounts
<1>5. LivesOf(Counted(t, s, e.page), out, ids)
  <2>1. ids \in SUBSET (IdsIn(input) \ {e.sample})
    BY <1>1
  <2> QED BY <1>1, <2>1, LivesCounted
<1>6. ReusesOf(Counted(t, s, e.page), out, ids, Pages)
  <2>1. ids \in SUBSET (IdsIn(input) \ {e.sample}) /\ Pages \in SUBSET Pages
    BY <1>1
  <2> QED BY <1>1, <2>1, ReusesCounted
<1>7. call.spatial => \A i \in RefBlocks, j \in Pages :
        MiddlesOf(pairs'[<<i, j>>], out, i, j, ids)
  BY DEF e
<1> HIDE DEF out
<1>8. CountsOf(smpl', input', Last(input').sample)
  BY <1>1, <1>2, <1>3, <1>4
<1>9. phase' # "done" /\ Earlier(input') = ids
  BY <1>2, <1>3
<1>10. /\ LivesOf(totals', input', ids) /\ ReusesOf(totals', input', ids, Pages)
       /\ call.spatial => \A i \in RefBlocks, j \in Pages :
                            MiddlesOf(pairs'[<<i, j>>], input', i, j, ids)
  BY <1>1, <1>2, <1>5, <1>6, <1>7
<1> QED BY <1>1, <1>2, <1>8, <1>9, <1>10, AccountAfter
LEMMA AccountFirstAccess ==
  ASSUME SpatialInv, AccountInv, NEW addr \in Addrs, NEW id \in SampleIDs,
         FirstAccess(addr, id)
  PROVE  AccountInv'
<1> DEFINE p == PageID(addr)
           e == [page |-> p, sample |-> id]
           ids == IdsIn(input) \ {id}
<1>1. /\ TypeOK /\ p \in Pages /\ IsAccess(p, id) /\ input = << >> /\ pairs' = pairs
      /\ phase = "reading" /\ smpl = FreshSample
      /\ smpl' = Touched(smpl, p) /\ totals' = Counted(totals, smpl, p)
  BY PageOfAddr DEF SpatialInv, FirstAccess, IsAccess
<1> HIDE DEF p
<1>2. /\ call \in Calls /\ input \in Seq(Inputs) /\ totals \in AllTotals
      /\ e \in Inputs /\ e.page = p /\ e.sample = id
  BY <1>1, TypeOKIs DEF Inputs
<1>3. \A l \in DOMAIN input : input[l].sample # id
  BY <1>1
<1>4. smpl \in Samples /\ RecencyOf(smpl, input, id) /\ CountsOf(smpl, input, id)
  BY <1>1, <1>2, <1>3, NewSample, FreshCounts
<1>5. IdsIn(input) = {} /\ Earlier(input) = {}
  BY <1>1, EarlierIs
<1>6. ids = {} /\ Ended = ids /\ Lived = ids /\ ids = IdsIn(input) \ {id}
  BY <1>1, <1>5 DEF Ended, Lived
<1>7. NumberSet(IdsIn(input))
  BY EarlierIs
<1> HIDE DEF ids, e
<1>8. LivesOf(totals, input, ids) /\ ReusesOf(totals, input, ids, Pages)
  BY <1>1, <1>6 DEF AccountInv, TotalsInv
<1>9. ASSUME call.spatial, NEW i \in RefBlocks, NEW j \in Pages
      PROVE  MiddlesOf(pairs'[<<i, j>>], Append(input, [page |-> p, sample |-> id]), i, j, ids)
  <2> DEFINE pr == pairs[<<i, j>>]
  <2>1. MiddlesOf(pr, input, i, j, ids)
    BY <1>6, <1>9 DEF AccountInv, MiddlesInv
  <2>2. Cardinality(OpenSet(input, i, j, e.sample)) = 0
    BY <1>5, NotInTrace, FS_EmptySet
  <2>3. pairs \in PairArrays
    BY <1>1, TypeOKIs
  <2>4. pr.totalMid \in Nat
    BY <2>3 DEF PairArrays, PairTypes
  <2>5. pr.totalMid = IF e.page = i
                      THEN pr.totalMid + Cardinality(OpenSet(input, i, j, e.sample))
                      ELSE pr.totalMid
    BY <2>2, <2>4
  <2>6. ids \in SUBSET (IdsIn(input) \ {e.sample})
    BY <1>6
  <2> HIDE DEF pr
  <2>7. MiddlesOf(pr, Append(input, e), i, j, ids)
    BY <1>2, <1>7, <2>1, <2>5, <2>6, MiddlesCounted
  <2> QED BY <1>1, <2>7 DEF pr, e
<1>10. \A k, l \in DOMAIN input :
         k <= l /\ input[k].sample = id => input[l].sample = id
  BY <1>3
<1> QED BY <1>1, <1>2, <1>4, <1>6, <1>8, <1>9, <1>10, AccountAccess

LEMMA AccountAccessInSample ==
  ASSUME SpatialInv, PairInv, AccountInv, NEW addr \in Addrs, NEW id \in SampleIDs,
         AccessInSample(addr, id)
  PROVE  AccountInv'
<1> DEFINE p == PageID(addr)
           e == [page |-> p, sample |-> id]
           ids == IdsIn(input) \ {id}
<1>1. /\ TypeOK /\ p \in Pages /\ IsAccess(p, id) /\ input # << >>
      /\ id = Last(input).sample /\ phase = "reading" /\ RecencyOf(smpl, input, id)
      /\ CountsOf(smpl, input, id)
      /\ smpl' = Touched(smpl, p) /\ totals' = Counted(totals, smpl, p)
      /\ pairs' = IF call.spatial THEN Related(p) ELSE pairs
  BY PageOfAddr DEF SpatialInv, AccessInSample, IsAccess, AccountInv, SampleInv
<1> HIDE DEF p
<1>2. /\ call \in Calls /\ input \in Seq(Inputs) /\ smpl \in Samples
      /\ totals \in AllTotals /\ pairs \in PairArrays
      /\ e \in Inputs /\ e.page = p /\ e.sample = id
  BY <1>1, TypeOKIs DEF Inputs
<1>3. NumberSet(IdsIn(input)) /\ ids = Earlier(input)
  BY <1>1, EarlierIs DEF Earlier
<1>4. Ended = ids /\ Lived = ids /\ ids = IdsIn(input) \ {id}
  BY <1>1, <1>3 DEF Ended, Lived
<1> HIDE DEF ids, e
<1>5. LivesOf(totals, input, ids) /\ ReusesOf(totals, input, ids, Pages)
  BY <1>1, <1>4 DEF AccountInv, TotalsInv
<1>6. ASSUME call.spatial, NEW i \in RefBlocks, NEW j \in Pages
      PROVE  MiddlesOf(pairs'[<<i, j>>], Append(input, [page |-> p, sample |-> id]), i, j, ids)
  <2> DEFINE pr == pairs[<<i, j>>]
             q == RelatedPair(pr, i, j, p)
  <2>1. MiddlesOf(pr, input, i, j, ids)
    BY <1>4, <1>6 DEF AccountInv, MiddlesInv
  <2>2. PairMiddle(pr, input, i, j, id)
    BY <1>1, <1>6 DEF PairInv
  <2>3. pr \in PairTypes /\ <<i, j>> \in DOMAIN pairs
    BY <1>2 DEF PairArrays
  <2>4. pairs'[<<i, j>>] = q
    BY <1>1, <1>6, <2>3 DEF Related, RelatedPair
  <2> HIDE DEF pr
  <2>5. /\ q.totalMid = IF i = p THEN pr.totalMid + pr.mid ELSE pr.totalMid
        /\ q.smplAvg = pr.smplAvg
    BY <2>3, RelatedFields
  <2> HIDE DEF q
  <2>6. q.totalMid = IF e.page = i
                     THEN pr.totalMid + Cardinality(OpenSet(input, i, j, e.sample))
                     ELSE pr.totalMid
    BY <1>2, <2>2, <2>5 DEF PairMiddle
  <2>7. ids \in SUBSET (IdsIn(input) \ {e.sample})
    BY <1>2, <1>4
  <2>8. MiddlesOf(q, Append(input, e), i, j, ids)
    BY <1>2, <1>3, <2>1, <2>5, <2>6, <2>7, MiddlesCounted
  <2> QED BY <2>4, <2>8 DEF e
<1>7. ASSUME NEW k \in DOMAIN input, NEW l \in DOMAIN input, k <= l, input[k].sample = id
      PROVE  input[l].sample = id
  <2>1. Len(input) \in DOMAIN input /\ l <= Len(input) /\ id = input[Len(input)].sample
    BY <1>1, <1>2 DEF Last
  <2>2. input[k].sample <= input[l].sample /\ input[l].sample <= id
    BY <1>7, <2>1 DEF SpatialInv, SortedSamples
  <2>3. input[l].sample \in Nat
    <3>1. input[l] \in Inputs
      BY <1>2
    <3> QED BY <3>1, AddressesAssumption DEF Inputs
  <2>4. id \in Nat
    BY AddressesAssumption
  <2> QED BY <1>7, <2>2, <2>3, <2>4
<1>8. \A k, l \in DOMAIN input :
        k <= l /\ input[k].sample = id => input[l].sample = id
  BY <1>7
<1> QED BY <1>1, <1>2, <1>4, <1>5, <1>6, <1>8, AccountAccess
\* Both of what is done with the totals when a sample is over.
LEMMA TotalsClosed ==
  ASSUME SpatialInv, SampleInv, NEW of \in SUBSET Pages,
         LivesOf(totals, input, Earlier(input)), ReusesOf(totals, input, Earlier(input), Pages)
  PROVE  /\ LivesOf(AveragedRUD(ClosedLives(totals), of), input, IdsIn(input))
         /\ ReusesOf(AveragedRUD(ClosedLives(totals), of), input, IdsIn(input), of)
         /\ LivesOf(AveragedRUD(totals, of), input, Earlier(input))
         /\ ReusesOf(AveragedRUD(totals, of), input, IdsIn(input), of)
         /\ AveragedRUD(ClosedLives(totals), of) \in AllTotals
<1> DEFINE t == ClosedLives(totals)
<1>1. totals \in AllTotals /\ call \in Calls /\ smpl \in Samples
  BY TypeOKIs DEF SpatialInv
<1>2. t \in AllTotals /\ t.avgRUD = totals.avgRUD
  BY <1>1, ClosedLivesType DEF ClosedLives, AllTotals
<1>3. LivesOf(t, input, IdsIn(input))
  BY <1>1, LivesClosed
<1>4. ReusesOf(t, input, Earlier(input), of) /\ ReusesOf(totals, input, Earlier(input), of)
  BY <1>2 DEF ReusesOf
<1> HIDE DEF t
<1>5. /\ AveragedRUD(t, of).life = t.life
      /\ AveragedRUD(totals, of).life = totals.life
  BY <1>1, <1>2 DEF AveragedRUD, AllTotals
<1>6. /\ LivesOf(AveragedRUD(t, of), input, IdsIn(input))
      /\ LivesOf(AveragedRUD(totals, of), input, Earlier(input))
  BY <1>3, <1>5 DEF LivesOf
<1>7. ReusesOf(AveragedRUD(t, of), input, IdsIn(input), of)
  BY <1>2, <1>4, ReusesClosed
<1>8. ReusesOf(AveragedRUD(totals, of), input, IdsIn(input), of)
  BY <1>1, <1>4, ReusesClosed
<1>9. AveragedRUD(t, of) \in AllTotals
  BY <1>1, <1>2, AveragedRUDType
<1> QED BY <1>6, <1>7, <1>8, <1>9 DEF t

\* The pairs, when a sample is over.
LEMMA PairsClosed ==
  ASSUME SpatialInv, PairInv, SampleInv, MiddlesInv, phase = "reading", call.spatial,
         NEW i \in RefBlocks, NEW j \in Pages
  PROVE  MiddlesOf(AveragedPairs[<<i, j>>], input, i, j, IdsIn(input))
<1> DEFINE pr == pairs[<<i, j>>]
<1>1. call \in Calls /\ smpl \in Samples /\ pairs \in PairArrays
  BY TypeOKIs DEF SpatialInv
<1>2. pr \in PairTypes /\ AveragedPairs[<<i, j>>] = Averaged(pr, smpl.life[i])
  BY <1>1, AveragedPairIs
<1>3. MiddlesOf(pr, input, i, j, Earlier(input))
  BY DEF MiddlesInv, Ended
<1>4. PairMiddle(pr, input, i, j, Last(input).sample)
  BY DEF PairInv
<1> HIDE DEF pr
<1> QED BY <1>2, <1>3, <1>4, MiddlesClosed

LEMMA AccountAccessOfNewSample ==
  ASSUME SpatialInv, PairInv, AccountInv, NEW addr \in Addrs, NEW id \in SampleIDs,
         AccessOfNewSample(addr, id)
  PROVE  AccountInv'
<1> DEFINE p == PageID(addr)
           e == [page |-> p, sample |-> id]
           ids == IdsIn(input) \ {id}
           t == AveragedRUD(ClosedLives(totals), Pages)
<1>1. /\ TypeOK /\ p \in Pages /\ IsAccess(p, id) /\ input # << >> /\ SortedSamples
      /\ id > Last(input).sample /\ phase = "reading"
      /\ smpl' = Touched(FreshSample, p) /\ totals' = Counted(t, FreshSample, p)
      /\ pairs' = AveragedPairs
  BY PageOfAddr DEF SpatialInv, AccessOfNewSample, IsAccess
<1> HIDE DEF p
<1>2. /\ call \in Calls /\ input \in Seq(Inputs) /\ totals \in AllTotals
      /\ e \in Inputs /\ e.page = p /\ e.sample = id
  BY <1>1, TypeOKIs DEF Inputs
<1>3. \A l \in DOMAIN input : input[l].sample # id
  BY <1>1, IdIsNew
<1>4. /\ FreshSample \in Samples /\ RecencyOf(FreshSample, input, id)
      /\ CountsOf(FreshSample, input, id)
  BY <1>1, <1>2, <1>3, NewSample, FreshCounts
<1>5. ids = IdsIn(input) /\ id \notin IdsIn(input)
  BY <1>3 DEF IdsIn
<1>6. Ended = Earlier(input) /\ Lived = Earlier(input) /\ NumberSet(IdsIn(input))
  BY <1>1, EarlierIs DEF Ended, Lived
<1>7. /\ LivesOf(totals, input, Earlier(input))
      /\ ReusesOf(totals, input, Earlier(input), Pages)
  BY <1>1, <1>6 DEF AccountInv, TotalsInv
<1>8. LivesOf(t, input, ids) /\ ReusesOf(t, input, ids, Pages) /\ t \in AllTotals
  BY <1>5, <1>7, TotalsClosed DEF AccountInv
<1>9. ids \in SUBSET (IdsIn(input) \ {e.sample}) /\ ids = IdsIn(input) \ {id}
  BY <1>2
<1> HIDE DEF ids, e, t
<1>10. ASSUME call.spatial, NEW i \in RefBlocks, NEW j \in Pages
      PROVE  MiddlesOf(pairs'[<<i, j>>], Append(input, [page |-> p, sample |-> id]), i, j, ids)
  <2> DEFINE q == AveragedPairs[<<i, j>>]
  <2>1. MiddlesOf(q, input, i, j, ids)
    BY <1>1, <1>5, <1>10, PairsClosed DEF AccountInv
  <2>2. Cardinality(OpenSet(input, i, j, e.sample)) = 0
    BY <1>2, <1>5, NotInTrace, FS_EmptySet
  <2>3. q.totalMid \in Nat
    <3>1. pairs \in PairArrays /\ smpl \in Samples
      BY <1>1, TypeOKIs
    <3>2. AveragedPairs \in PairArrays
      BY <1>2, <3>1, AveragedPairsType
    <3> QED BY <3>2 DEF PairArrays, PairTypes
  <2> HIDE DEF q
  <2>4. q.totalMid = IF e.page = i
                     THEN q.totalMid + Cardinality(OpenSet(input, i, j, e.sample))
                     ELSE q.totalMid
    BY <2>2, <2>3
  <2>5. MiddlesOf(q, Append(input, e), i, j, ids)
    BY <1>2, <1>6, <1>9, <2>1, <2>4, MiddlesCounted
  <2> QED BY <1>1, <2>5 DEF q, e
<1>11. \A k, l \in DOMAIN input :
         k <= l /\ input[k].sample = id => input[l].sample = id
  BY <1>3
<1> QED BY <1>1, <1>4, <1>8, <1>9, <1>10, <1>11, AccountAccess

LEMMA AccountEndOfTrace ==
  ASSUME SpatialInv, PairInv, AccountInv, EndOfTrace
  PROVE  AccountInv'
<1>1. /\ phase = "reading" /\ phase' = "done" /\ call' = call /\ input' = input
      /\ smpl' = smpl /\ TypeOK
      /\ totals' = IF call.spatial THEN AveragedRUD(ClosedLives(totals), RefBlocks)
                                   ELSE AveragedRUD(totals, RefBlocks)
      /\ pairs' = IF call.spatial THEN AveragedPairs ELSE pairs
  BY DEF EndOfTrace, SpatialInv
<1>2. RefBlocks \in SUBSET Pages
  BY <1>1, PagesType DEF TypeOK
<1>3. Ended = Earlier(input) /\ Lived = Earlier(input)
  BY <1>1 DEF Ended, Lived
<1>4. /\ LivesOf(totals, input, Earlier(input))
      /\ ReusesOf(totals, input, Earlier(input), Pages)
  BY <1>1, <1>3 DEF AccountInv, TotalsInv
<1>5. /\ LivesOf(AveragedRUD(ClosedLives(totals), RefBlocks), input, IdsIn(input))
      /\ ReusesOf(AveragedRUD(ClosedLives(totals), RefBlocks), input, IdsIn(input), RefBlocks)
      /\ LivesOf(AveragedRUD(totals, RefBlocks), input, Earlier(input))
      /\ ReusesOf(AveragedRUD(totals, RefBlocks), input, IdsIn(input), RefBlocks)
  BY <1>2, <1>4, TotalsClosed DEF AccountInv
<1> DEFINE E == IdsIn(input)
<1>6. /\ LivesOf(totals', input', IF call.spatial THEN E ELSE Earlier(input'))
      /\ ReusesOf(totals', input', E, RefBlocks)
  BY <1>1, <1>5
<1>7. call.spatial => \A i \in RefBlocks, j \in Pages :
                        MiddlesOf(pairs'[<<i, j>>], input', i, j, E)
  BY <1>1, PairsClosed DEF AccountInv
<1>8. input' # << >> => CountsOf(smpl', input', Last(input').sample)
  BY <1>1 DEF AccountInv, SampleInv
<1>9. E = IF phase' = "done" THEN IdsIn(input') ELSE Earlier(input')
  BY <1>1
<1>10. ReusesOf(totals', input', E, IF phase' = "done" THEN RefBlocks ELSE Pages)
  BY <1>1, <1>6
<1> HIDE DEF E
<1> QED BY <1>1, <1>6, <1>7, <1>8, <1>9, <1>10, AccountAfter

LEMMA AccountStutter ==
  ASSUME SpatialInv, AccountInv, UNCHANGED vars
  PROVE  AccountInv'
<1>1. /\ phase' = phase /\ call' = call /\ input' = input /\ smpl' = smpl
      /\ totals' = totals /\ pairs' = pairs /\ TypeOK
  BY DEF vars, SpatialInv
<1>2. /\ input # << >> => CountsOf(smpl, input, Last(input).sample)
      /\ LivesOf(totals, input, IF call.spatial THEN Ended ELSE Earlier(input))
      /\ ReusesOf(totals, input, Ended, IF phase = "done" THEN RefBlocks ELSE Pages)
      /\ call.spatial => \A i \in RefBlocks, j \in Pages :
                           MiddlesOf(pairs[<<i, j>>], input, i, j, Ended)
  BY DEF AccountInv, SampleInv, TotalsInv, MiddlesInv, Lived
<1>3. Ended = IF phase = "done" THEN IdsIn(input) ELSE Earlier(input)
  BY DEF Ended
<1> QED BY <1>1, <1>2, <1>3, AccountAfter

LEMMA AccountInvHolds == Spec => []AccountInv
<1>1. Init => AccountInv
  BY AccountInit
<1>2. SpatialInv /\ PairInv /\ AccountInv /\ [Next]_vars => AccountInv'
  <2> SUFFICES ASSUME SpatialInv, PairInv, AccountInv, [Next]_vars PROVE AccountInv'
    OBVIOUS
  <2>1. ASSUME NEW addr \in Addrs, NEW id \in SampleIDs, FirstAccess(addr, id)
        PROVE  AccountInv'
    BY <2>1, AccountFirstAccess
  <2>2. ASSUME NEW addr \in Addrs, NEW id \in SampleIDs, AccessInSample(addr, id)
        PROVE  AccountInv'
    BY <2>2, AccountAccessInSample
  <2>3. ASSUME NEW addr \in Addrs, NEW id \in SampleIDs, AccessOfNewSample(addr, id)
        PROVE  AccountInv'
    BY <2>3, AccountAccessOfNewSample
  <2>4. CASE EndOfTrace
    BY <2>4, AccountEndOfTrace
  <2>5. CASE UNCHANGED vars
    BY <2>5, AccountStutter
  <2> QED BY <2>1, <2>2, <2>3, <2>4, <2>5 DEF Next
<1> QED BY <1>1, <1>2, SpatialInvHolds, PairInvHolds, PTL DEF Spec
-----------------------------------------------------------------------------
(* The properties, from these invariants.                                  *)

LEMMA CompleteIs ==
  ASSUME SpatialInv
  PROVE  /\ Complete = Ended /\ Ids = IdsIn(input) /\ Ids \ Current = Earlier(input)
         /\ NumberSet(IdsIn(input)) /\ Ended \subseteq IdsIn(input)
         /\ Earlier(input) \subseteq IdsIn(input)
         /\ Current \subseteq IdsIn(input)
<1>1. Ids = IdsIn(input) /\ NumberSet(IdsIn(input)) /\ Earlier(input) \subseteq IdsIn(input)
  BY OfInput, EarlierIs DEF Earlier
<1>2. Current \subseteq IdsIn(input)
  BY <1>1 DEF Current
<1>3. Ids \ Current = Earlier(input)
  <2>1. CASE input = << >>
    BY <1>1, <2>1, EarlierIs
  <2>2. CASE input # << >>
    <3> DEFINE cur == Last(input).sample
    <3>1. /\ Below(Earlier(input), cur) /\ IdsIn(input) = Earlier(input) \cup {cur}
          /\ cur \notin Earlier(input)
      BY <2>2, EarlierIs
    <3>2. \A id \in Current : id = cur
      BY CurrentIs
    <3> HIDE DEF cur
    <3>3. \A id \in IdsIn(input) : id <= cur
      <4>1. \A id \in Earlier(input) : id < cur /\ cur \in Nat /\ id \in Nat
        BY <1>1, <3>1 DEF Below, NumberSet
      <4>2. cur \in Nat
        BY <3>1 DEF Below
      <4> QED BY <3>1, <4>1, <4>2
    <3>4. cur \in Current
      BY <1>1, <3>1, <3>3 DEF Current
    <3> QED BY <1>1, <3>1, <3>2, <3>4
  <2> QED BY <2>1, <2>2
<1> QED BY <1>1, <1>2, <1>3 DEF Complete, Ended

LEMMA OfSamples ==
  /\ \A p, id : LifeIn(p, id) = LifeOf(input, p, id)
  /\ \A p, id : Repeats(p, id) = RepeatsIn(input, p, id)
  /\ \A p, id : ReuseSum(p, id) = ReuseOf(input, p, id)
  /\ \A i, j, id : MiddleIn(i, j, id) = Cardinality(MiddleSet(input, i, j, id))
<1>1. \A p, id : LifeIn(p, id) = LifeOf(input, p, id)
  BY OfInput DEF LifeIn, LifeOf
<1>2. \A p, id : Repeats(p, id) = RepeatsIn(input, p, id)
  BY OfInput DEF Repeats, RepeatsIn
<1>3. \A k, l : PagesBetween(k, l) = PagesIn(input, k, l)
  BY DEF PagesBetween, PagesIn, Page
<1>4. ASSUME NEW p, NEW id PROVE ReuseSum(p, id) = ReuseOf(input, p, id)
  BY <1>2, <1>3, OfInput DEF ReuseSum, ReuseOf
<1>5. ASSUME NEW i, NEW j, NEW id
      PROVE  MiddleIn(i, j, id) = Cardinality(MiddleSet(input, i, j, id))
  BY OfInput DEF MiddleIn, MiddleSet
<1> QED BY <1>1, <1>2, <1>4, <1>5

LEMMA TermsAre ==
  ASSUME NEW S, NumberSet(S), S \subseteq IdsIn(input)
  PROVE  /\ \A p : TermsOver(S, LAMBDA id : <<ReuseSum(p, id), Cardinality(Repeats(p, id))>>) =
                     AvgOf(S, ReuseTerm(input, p))
         /\ \A i, j : TermsOver(S, LAMBDA id : <<MiddleIn(i, j, id), LifeIn(i, id) + 1>>) =
                        AvgOf(S, MiddleTerm(input, i, j))
<1>1. \A k \in DOMAIN InOrder(S) : InOrder(S)[k] \in IdsIn(input)
  BY InOrderIs DEF NumberSet
<1>2. ASSUME NEW p
      PROVE  TermsOver(S, LAMBDA id : <<ReuseSum(p, id), Cardinality(Repeats(p, id))>>) =
               AvgOf(S, ReuseTerm(input, p))
  <2>1. \A k \in DOMAIN InOrder(S) :
          ReuseTerm(input, p)[InOrder(S)[k]] =
            <<ReuseSum(p, InOrder(S)[k]), Cardinality(Repeats(p, InOrder(S)[k]))>>
    BY <1>1, OfSamples DEF ReuseTerm
  <2> QED BY <2>1 DEF TermsOver, AvgOf
<1>3. ASSUME NEW i, NEW j
      PROVE  TermsOver(S, LAMBDA id : <<MiddleIn(i, j, id), LifeIn(i, id) + 1>>) =
               AvgOf(S, MiddleTerm(input, i, j))
  <2>1. \A k \in DOMAIN InOrder(S) :
          MiddleTerm(input, i, j)[InOrder(S)[k]] =
            <<MiddleIn(i, j, InOrder(S)[k]), LifeIn(i, InOrder(S)[k]) + 1>>
    BY <1>1, OfSamples DEF MiddleTerm
  <2> QED BY <2>1 DEF TermsOver, AvgOf
<1> QED BY <1>2, <1>3

\* The lifetime of a block is, over the samples, what lies between its first
\* and its last access of each, both included if they differ, and never what
\* lies between two samples (memoryanalysis.cpp:517-523, 728-731, 752-758).
THEOREM LifetimesWithinSamplesCorrect == Spec => []LifetimesWithinSamples
<1>1. SpatialInv /\ AccountInv => LifetimesWithinSamples
  <2> SUFFICES ASSUME SpatialInv, AccountInv, NEW p \in RefBlocks
               PROVE  totals.life[p] =
                        SumFunction([id \in Ids |-> LifeIn(p, id)])
                        + Cardinality({id \in IF call.spatial THEN Complete ELSE Ids \ Current :
                                         LifeIn(p, id) > 0})
    BY DEF LifetimesWithinSamples
  <2>1. totals.life[p] = LifeSum(input, p) + Cardinality(Lived \cap Alive(input, p))
    BY DEF AccountInv, TotalsInv, LivesOf
  <2>2. /\ Lived = IF call.spatial THEN Complete ELSE Ids \ Current
        /\ Lived \subseteq IdsIn(input) /\ Ids = IdsIn(input)
    BY CompleteIs DEF Lived
  <2>3. Lived \cap Alive(input, p) = {id \in Lived : LifeIn(p, id) > 0}
    BY <2>2, OfSamples DEF Alive
  <2>4. LifeSum(input, p) = SumFunction([id \in Ids |-> LifeIn(p, id)])
    BY <2>2, OfSamples DEF LifeSum
  <2> QED BY <2>1, <2>2, <2>3, <2>4
<1> QED BY <1>1, SpatialInvHolds, AccountInvHolds, PTL

\* Reuse distances are, for each repeated access of a sample, the number of
\* other pages since the access before, as found on the stack: in the running
\* sums and in the averages over samples (memoryanalysis.cpp:537-544, 645-666,
\* 738-745).
THEOREM ReuseDistancesCorrect == Spec => []ReuseDistances
<1>1. SpatialInv /\ AccountInv => ReuseDistances
  <2> SUFFICES ASSUME SpatialInv, AccountInv PROVE ReuseDistances
    OBVIOUS
  <2>1. ASSUME NEW id \in Current, NEW p \in Pages PROVE smpl.rud[p] = ReuseSum(p, id)
    <3>1. input # << >> /\ id = Last(input).sample
      BY CurrentIs
    <3> QED BY <3>1, OfSamples DEF AccountInv, SampleInv, CountsOf
  <2>2. ASSUME NEW p \in Pages, phase = "reading" \/ p \in RefBlocks
        PROVE  totals.avgRUD[p] =
                 TermsOver({id \in Complete : Repeats(p, id) # {}},
                           LAMBDA id : <<ReuseSum(p, id), Cardinality(Repeats(p, id))>>)
    <3> DEFINE S == {id \in Complete : Repeats(p, id) # {}}
    <3>1. totals.avgRUD[p] = AvgOf(Ended \cap Repeating(input, p), ReuseTerm(input, p))
      BY <2>2 DEF AccountInv, TotalsInv, ReusesOf
    <3>2. Complete = Ended /\ Ended \subseteq IdsIn(input) /\ NumberSet(IdsIn(input))
      BY CompleteIs
    <3>3. Ended \cap Repeating(input, p) = S
      BY <3>2, OfSamples DEF Repeating
    <3>4. NumberSet(S) /\ S \subseteq IdsIn(input)
      BY <3>2, FS_Subset DEF NumberSet
    <3> HIDE DEF S
    <3>5. AvgOf(S, ReuseTerm(input, p)) =
            TermsOver(S, LAMBDA id : <<ReuseSum(p, id), Cardinality(Repeats(p, id))>>)
      BY <3>4, TermsAre
    <3> QED BY <3>1, <3>3, <3>5 DEF S
  <2> QED BY <2>1, <2>2 DEF ReuseDistances
<1> QED BY <1>1, SpatialInvHolds, AccountInvHolds, PTL

\* The middle counts of a pair are the accesses to j strictly between the first
\* and the last access to i in each sample, averaged over the samples where i
\* has a lifetime (memoryanalysis.cpp:524-535, 683-702, 720-721, 759-769).
THEOREM MiddleCountsCorrect == Spec => []MiddleCounts
<1>1. SpatialInv /\ PairInv /\ AccountInv => MiddleCounts
  <2> SUFFICES ASSUME SpatialInv, PairInv, AccountInv, call.spatial,
                      NEW i \in RefBlocks, NEW j \in Pages
               PROVE  LET pr == pairs[<<i, j>>]
                      IN /\ pr.totalMid = SumFunction([id \in Ids |-> MiddleIn(i, j, id)])
                         /\ phase = "reading" =>
                              \A id \in Current : pr.smplMiddle = MiddleIn(i, j, id)
                         /\ pr.smplAvg =
                              TermsOver({id \in Complete : LifeIn(i, id) > 0},
                                        LAMBDA id : <<MiddleIn(i, j, id), LifeIn(i, id) + 1>>)
    BY DEF MiddleCounts
  <2> DEFINE pr == pairs[<<i, j>>]
             S == {id \in Complete : LifeIn(i, id) > 0}
  <2>1. /\ pr.totalMid = MiddleSum(input, i, j)
        /\ pr.smplAvg = AvgOf(Ended \cap Alive(input, i), MiddleTerm(input, i, j))
    BY DEF AccountInv, MiddlesInv, MiddlesOf
  <2>2. /\ Complete = Ended /\ Ended \subseteq IdsIn(input) /\ NumberSet(IdsIn(input))
        /\ Ids = IdsIn(input)
    BY CompleteIs
  <2>3. MiddleSum(input, i, j) = SumFunction([id \in Ids |-> MiddleIn(i, j, id)])
    BY <2>2, OfSamples DEF MiddleSum
  <2>4. ASSUME phase = "reading", NEW id \in Current PROVE pr.smplMiddle = MiddleIn(i, j, id)
    <3>1. id = Last(input).sample
      BY CurrentIs
    <3> QED BY <2>4, <3>1, OfSamples DEF PairInv, PairMiddle
  <2>5. Ended \cap Alive(input, i) = S
    BY <2>2, OfSamples DEF Alive
  <2>6. NumberSet(S) /\ S \subseteq IdsIn(input)
    BY <2>2, FS_Subset DEF NumberSet
  <2> HIDE DEF pr, S
  <2>7. AvgOf(S, MiddleTerm(input, i, j)) =
          TermsOver(S, LAMBDA id : <<MiddleIn(i, j, id), LifeIn(i, id) + 1>>)
    BY <2>6, TermsAre
  <2> QED BY <2>1, <2>3, <2>4, <2>5, <2>7 DEF pr, S
<1> QED BY <1>1, SpatialInvHolds, PairInvHolds, AccountInvHolds, PTL
=============================================================================
