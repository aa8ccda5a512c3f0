--------------------------- MODULE HotRegionsProofs ---------------------------
(***************************************************************************)
(* Proofs about HotRegions.  They hold in HotLines, which does nothing     *)
(* else to the state of HotRegions.                                        *)
(*                                                                         *)
(* The first parts are about the operators of HotRegions: what sorting by  *)
(* ranks gives, how many intervals an interval set has, what a hot range   *)
(* is taken apart into, and how a list of regions and the list of their    *)
(* addresses belong together.  Then come what getTopInst's counts can be   *)
(* off by (LossyCount), and the lists of regions (RegionIndexAgrees and    *)
(* ChildrenAccessed).                                                      *)
(***************************************************************************)
EXTENDS HotLines, SetsOfNumbers, TLAPS

-----------------------------------------------------------------------------
(* Ranks in a finite set.                                                  *)

\* R is a strict and total order of S.
IsOrder(R, S) ==
  /\ \A x \in S : <<x, x>> \notin R
  /\ \A x, y, z \in S : <<x, y>> \in R /\ <<y, z>> \in R => <<x, z>> \in R
  /\ \A x, y \in S : x # y => <<x, y>> \in R \/ <<y, x>> \in R

Preceding(R, S, x) == {y \in S : <<y, x>> \in R}

\* Each element has a rank of its own, and each rank an element.
LEMMA RankFacts ==
  ASSUME NEW S, IsFiniteSet(S), NEW R, IsOrder(R, S)
  PROVE  /\ \A x \in S : Cardinality(Preceding(R, S, x)) \in 0 .. Cardinality(S) - 1
         /\ \A x, y \in S :
              <<x, y>> \in R <=> Cardinality(Preceding(R, S, x)) < Cardinality(Preceding(R, S, y))
         /\ \A k \in 1 .. Cardinality(S) :
              \E x \in S : Cardinality(Preceding(R, S, x)) = k - 1
<1> DEFINE n == Cardinality(S)
           P(x) == Preceding(R, S, x)
           rank == [x \in S |-> Cardinality(P(x))]
<1>1. n \in Nat
  BY FS_CardinalityType
<1>2. ASSUME NEW x \in S
      PROVE  /\ IsFiniteSet(P(x)) /\ P(x) \subseteq S /\ rank[x] \in Nat
             /\ rank[x] < n
  <2>1. P(x) \subseteq S \ {x}
    BY DEF IsOrder, Preceding
  <2>2. IsFiniteSet(S \ {x}) /\ Cardinality(S \ {x}) = n - 1
    BY FS_RemoveElement
  <2>3. IsFiniteSet(P(x)) /\ Cardinality(P(x)) <= n - 1
    BY <2>1, <2>2, FS_Subset
  <2>4. Cardinality(P(x)) \in Nat
    BY <2>3, FS_CardinalityType
  <2>5. rank[x] = Cardinality(P(x))
    OBVIOUS
  <2>6. P(x) \subseteq S
    BY <2>1
  <2> HIDE DEF n, P, rank
  <2> QED BY <1>1, <2>3, <2>4, <2>5, <2>6
<1>3. ASSUME NEW x \in S, NEW y \in S, <<x, y>> \in R
      PROVE  rank[x] < rank[y]
  <2>1. P(x) \cup {x} \subseteq P(y)
    BY <1>3 DEF IsOrder, Preceding
  <2>2. x \notin P(x)
    BY DEF IsOrder, Preceding
  <2>3. IsFiniteSet(P(x)) /\ IsFiniteSet(P(y))
    BY <1>2
  <2>4. Cardinality(P(x) \cup {x}) = Cardinality(P(x)) + 1
    BY <2>2, <2>3, FS_AddElement
  <2>5. Cardinality(P(x) \cup {x}) <= Cardinality(P(y))
    BY <2>1, <2>3, FS_Subset
  <2>6. Cardinality(P(x)) \in Nat /\ Cardinality(P(y)) \in Nat
    BY <2>3, FS_CardinalityType
  <2>7. rank[x] = Cardinality(P(x)) /\ rank[y] = Cardinality(P(y))
    OBVIOUS
  <2> HIDE DEF P, rank
  <2> QED BY <2>4, <2>5, <2>6, <2>7
<1>4. ASSUME NEW x \in S, NEW y \in S, rank[x] < rank[y]
      PROVE  <<x, y>> \in R
  <2>1. rank[x] \in Nat /\ rank[y] \in Nat
    BY <1>2
  <2> HIDE DEF rank
  <2>2. x # y /\ ~(rank[y] < rank[x])
    BY <1>4, <2>1
  <2> QED BY <1>3, <2>2 DEF IsOrder
<1>5. ASSUME NEW k \in 1 .. n PROVE \E x \in S : rank[x] = k - 1
  <2> DEFINE T == 0 .. n - 1
  <2>1. rank \in [S -> T]
    <3>1. \A x \in S : rank[x] \in T
      BY <1>1, <1>2
    <3>2. rank = [x \in S |-> rank[x]]
      OBVIOUS
    <3> HIDE DEF rank, T
    <3> QED BY <3>1, <3>2
  <2>2. ASSUME NEW x \in S, NEW y \in S, rank[x] = rank[y] PROVE x = y
    <3>1. rank[x] \in Nat /\ rank[y] \in Nat
      BY <1>2
    <3> HIDE DEF rank
    <3>2. ~(rank[x] < rank[y]) /\ ~(rank[y] < rank[x])
      BY <2>2, <3>1
    <3> QED BY <1>3, <3>2 DEF IsOrder
  <2>3. rank \in Injection(S, T)
    <3> HIDE DEF rank, T
    <3> QED BY <2>1, <2>2 DEF Injection, IsInjective
  <2>4. IsFiniteSet(T) /\ Cardinality(T) = n
    <3>1. 0 \in Int /\ n - 1 \in Int
      BY <1>1
    <3> HIDE DEF n
    <3>2. IsFiniteSet(0 .. n - 1)
          /\ Cardinality(0 .. n - 1) = IF 0 > n - 1 THEN 0 ELSE (n - 1) - 0 + 1
      BY <3>1, FS_Interval
    <3> QED BY <1>1, <3>2
  <2>5. rank \in Surjection(S, T)
    <3> HIDE DEF rank, T
    <3> QED BY <2>3, <2>4, FS_Injection
  <2>6. k - 1 \in T
    BY <1>1
  <2> HIDE DEF rank, T
  <2> QED BY <2>5, <2>6 DEF Surjection
<1>6. \A x \in S : rank[x] = Cardinality(Preceding(R, S, x))
  OBVIOUS
<1> HIDE DEF n, rank, P
<1>7. \A x \in S : rank[x] \in 0 .. n - 1
  BY <1>1, <1>2
<1> QED BY <1>3, <1>4, <1>5, <1>6, <1>7 DEF n

-----------------------------------------------------------------------------
(* Pairs in order.                                                         *)

\* Before orders pairs of integers.
LEMMA BeforeIsOrder ==
  ASSUME NEW S, S \subseteq Int \X Int
  PROVE  /\ \A x \in S : ~Before(x, x)
         /\ \A x, y, z \in S : Before(x, y) /\ Before(y, z) => Before(x, z)
         /\ \A x, y \in S : x # y => Before(x, y) \/ Before(y, x)
<1>1. \A x \in S : x[1] \in Int /\ x[2] \in Int /\ x = <<x[1], x[2]>>
  OBVIOUS
<1>2. \A x \in S : ~Before(x, x)
  BY <1>1 DEF Before
<1>3. \A x, y, z \in S : Before(x, y) /\ Before(y, z) => Before(x, z)
  BY <1>1 DEF Before
<1>4. ASSUME NEW x \in S, NEW y \in S, ~Before(x, y), ~Before(y, x) PROVE x = y
  <2>1. x[1] = y[1] /\ x[2] = y[2]
    BY <1>1, <1>4 DEF Before
  <2> QED BY <1>1, <2>1
<1> QED BY <1>2, <1>3, <1>4

Lower(S, x) == {y \in S : Before(y, x)}

\* So ranks by Before are those of an order.
LEMMA RankOfPairs ==
  ASSUME NEW S, IsFiniteSet(S), S \subseteq Int \X Int
  PROVE  /\ \A x \in S : Cardinality(Lower(S, x)) \in 0 .. Cardinality(S) - 1
         /\ \A x, y \in S :
              Before(x, y) <=> Cardinality(Lower(S, x)) < Cardinality(Lower(S, y))
         /\ \A k \in 1 .. Cardinality(S) : \E x \in S : Cardinality(Lower(S, x)) = k - 1
<1> DEFINE R == {z \in S \X S : Before(z[1], z[2])}
<1>1. \A x, y \in S : <<x, y>> \in R <=> Before(x, y)
  OBVIOUS
<1> HIDE DEF R
<1>2. IsOrder(R, S)
  BY <1>1, BeforeIsOrder DEF IsOrder
<1>3. \A x \in S : Preceding(R, S, x) = Lower(S, x)
  BY <1>1 DEF Preceding, Lower
<1>4. /\ \A x \in S : Cardinality(Preceding(R, S, x)) \in 0 .. Cardinality(S) - 1
      /\ \A x, y \in S :
           <<x, y>> \in R <=> Cardinality(Preceding(R, S, x)) < Cardinality(Preceding(R, S, y))
      /\ \A k \in 1 .. Cardinality(S) :
           \E x \in S : Cardinality(Preceding(R, S, x)) = k - 1
  BY <1>2, RankFacts
<1> QED BY <1>1, <1>3, <1>4, Zenon

\* Every pair once, in order.
LEMMA AscendingFacts ==
  ASSUME NEW S, IsFiniteSet(S), S \subseteq Int \X Int, NEW s, s = Ascending(S)
  PROVE  /\ s \in Seq(S) /\ Len(s) = Cardinality(S) /\ Cardinality(S) \in Nat
         /\ DOMAIN s = 1 .. Cardinality(S)
         /\ s = [k \in 1 .. Cardinality(S) |-> s[k]]
         /\ \A k \in DOMAIN s : s[k] \in S
         /\ \A x \in S : \E k \in DOMAIN s : s[k] = x
         /\ \A j, k \in DOMAIN s : j < k => Before(s[j], s[k])
<1> DEFINE n == Cardinality(S)
           rank(x) == Cardinality(Lower(S, x))
<1>1. n \in Nat
  BY FS_CardinalityType
<1> DEFINE C(k) == CHOOSE x \in S : rank(x) = k - 1
<1>2. DOMAIN s = 1 .. n /\ s = [k \in 1 .. n |-> s[k]] /\ \A k \in 1 .. n : s[k] = C(k)
  <2>1. s = [k \in 1 .. n |-> C(k)]
    BY Zenon DEF Ascending, Lower
  <2> HIDE DEF C, n
  <2> QED BY <2>1
<1>3. ASSUME NEW k \in 1 .. n PROVE s[k] \in S /\ rank(s[k]) = k - 1
  <2>1. \E x \in S : rank(x) = k - 1
    BY RankOfPairs
  <2>2. s[k] = CHOOSE x \in S : rank(x) = k - 1
    BY <1>2
  <2> HIDE DEF rank
  <2> QED BY <2>1, <2>2
<1>4. s \in Seq(S) /\ Len(s) = n
  <2>1. s \in [1 .. n -> S]
    <3> HIDE DEF n
    <3> QED BY <1>2, <1>3
  <2> HIDE DEF n
  <2> QED BY <1>1, <2>1
<1>5. \A x \in S : rank(x) \in 0 .. n - 1
  BY RankOfPairs
<1>6. \A x, y \in S : Before(x, y) <=> rank(x) < rank(y)
  BY RankOfPairs
<1> HIDE DEF n, rank
<1>7. ASSUME NEW x \in S PROVE \E k \in 1 .. n : s[k] = x
  <2> DEFINE k == rank(x) + 1
  <2>1. k \in 1 .. n /\ k - 1 = rank(x)
    BY <1>1, <1>5
  <2>2. s[k] \in S /\ rank(s[k]) = rank(x)
    BY <1>3, <2>1
  <2>3. ~Before(s[k], x) /\ ~Before(x, s[k])
    BY <1>5, <1>6, <2>2
  <2>4. s[k] = x
    BY <2>2, <2>3, BeforeIsOrder
  <2> QED BY <2>1, <2>4
<1>8. ASSUME NEW j \in 1 .. n, NEW k \in 1 .. n, j < k PROVE Before(s[j], s[k])
  <2>1. rank(s[j]) = j - 1 /\ rank(s[k]) = k - 1 /\ s[j] \in S /\ s[k] \in S
    BY <1>3
  <2>2. j - 1 < k - 1
    BY <1>1, <1>8
  <2> QED BY <1>6, <2>1, <2>2
<1> QED BY <1>1, <1>2, <1>3, <1>4, <1>7, <1>8 DEF n

\* A sequence that is in order already.
LEMMA InOrderAlready ==
  ASSUME NEW S, S \subseteq Int \X Int, NEW n \in Nat, NEW f, f \in [1 .. n -> S],
         \A x \in S : \E k \in 1 .. n : f[k] = x,
         \A j, k \in 1 .. n : j < k => Before(f[j], f[k])
  PROVE  Ascending(S) = f /\ IsFiniteSet(S) /\ Cardinality(S) = n
<1>1. \A j, k \in 1 .. n : j # k => f[j] # f[k]
  <2> SUFFICES ASSUME NEW j \in 1 .. n, NEW k \in 1 .. n, j # k PROVE f[j] # f[k]
    OBVIOUS
  <2>1. j < k \/ k < j
    OBVIOUS
  <2>2. f[j] \in Int \X Int /\ f[k] \in Int \X Int
    OBVIOUS
  <2>3. Before(f[j], f[k]) \/ Before(f[k], f[j])
    BY <2>1
  <2>4. ~Before(f[j], f[j])
    BY <2>2, BeforeIsOrder
  <2> QED BY <2>3, <2>4
<1>2. f \in Bijection(1 .. n, S)
  BY <1>1 DEF Bijection, Injection, Surjection, IsInjective
<1>3. IsFiniteSet(S) /\ Cardinality(S) = n
  <2>1. IsFiniteSet(1 .. n) /\ Cardinality(1 .. n) = n
    BY FS_Interval
  <2>2. ExistsBijection(1 .. n, S)
    BY <1>2 DEF ExistsBijection
  <2> QED BY <2>1, <2>2, FS_Bijection
<1>4. PICK s : s = Ascending(S)
  OBVIOUS
<1>5. /\ DOMAIN s = 1 .. n /\ \A x \in S : \E k \in 1 .. n : s[k] = x
      /\ \A j, k \in 1 .. n : j < k => Before(s[j], s[k])
      /\ \A k \in 1 .. n : s[k] \in S
      /\ s = [k \in 1 .. n |-> s[k]]
  <2>1. /\ DOMAIN s = 1 .. Cardinality(S)
        /\ s = [k \in 1 .. Cardinality(S) |-> s[k]]
        /\ \A k \in DOMAIN s : s[k] \in S
        /\ \A x \in S : \E k \in DOMAIN s : s[k] = x
        /\ \A j, k \in DOMAIN s : j < k => Before(s[j], s[k])
    BY <1>3, <1>4, AscendingFacts
  <2> QED BY <1>3, <2>1, Zenon
<1>6. ASSUME NEW k \in 1 .. n PROVE Cardinality(Lower(S, f[k])) = k - 1 /\ Cardinality(Lower(S, s[k])) = k - 1
  <2>1. ASSUME NEW g, g \in [1 .. n -> S], \A x \in S : \E j \in 1 .. n : g[j] = x,
               \A i, j \in 1 .. n : i < j => Before(g[i], g[j])
        PROVE  Cardinality(Lower(S, g[k])) = k - 1
    <3> DEFINE h == [j \in 1 .. k - 1 |-> g[j]]
    <3>0. k - 1 \in Nat /\ \A j \in 1 .. k - 1 : j \in 1 .. n /\ j < k
      OBVIOUS
    <3>1. h \in [1 .. k - 1 -> Lower(S, g[k])]
      BY <2>1, <3>0 DEF Lower
    <3>2. ASSUME NEW i \in 1 .. k - 1, NEW j \in 1 .. k - 1, h[i] = h[j] PROVE i = j
      <4>1. g[i] = g[j] /\ i \in 1 .. n /\ j \in 1 .. n
        BY <3>0, <3>2
      <4>2. g[i] \in S /\ ~Before(g[i], g[i])
        <5>1. g[i] \in S
          BY <2>1, <4>1
        <5> QED BY <5>1, BeforeIsOrder
      <4>3. ~(i < j) /\ ~(j < i)
        BY <2>1, <4>1, <4>2
      <4> QED BY <4>1, <4>3
    <3>3. ASSUME NEW x \in Lower(S, g[k]) PROVE \E j \in 1 .. k - 1 : h[j] = x
      <4>1. x \in S /\ Before(x, g[k])
        BY DEF Lower
      <4>2. PICK j \in 1 .. n : g[j] = x
        BY <2>1, <4>1
      <4>3. ~(k < j) /\ j # k
        <5>1. g[k] \in S /\ ~Before(x, x)
          BY <2>1, <4>1, BeforeIsOrder
        <5>2. Before(g[k], x) => Before(x, x)
          BY <4>1, <5>1, BeforeIsOrder
        <5> QED BY <2>1, <4>1, <4>2, <5>1, <5>2
      <4>4. j \in 1 .. k - 1
        BY <4>3
      <4> QED BY <4>2, <4>4
    <3>4. IsFiniteSet(1 .. k - 1) /\ Cardinality(1 .. k - 1) = k - 1
      <4>1. 1 \in Int /\ k - 1 \in Int
        OBVIOUS
      <4>2. IsFiniteSet(1 .. k - 1)
            /\ Cardinality(1 .. k - 1) = IF 1 > k - 1 THEN 0 ELSE (k - 1) - 1 + 1
        BY <4>1, FS_Interval
      <4> QED BY <4>2
    <3>5. h \in Bijection(1 .. k - 1, Lower(S, g[k]))
      <4> HIDE DEF h
      <4> QED BY <3>1, <3>2, <3>3 DEF Bijection, Injection, Surjection, IsInjective
    <3>6. ExistsBijection(1 .. k - 1, Lower(S, g[k]))
      BY <3>5 DEF ExistsBijection
    <3> QED BY <3>4, <3>6, FS_Bijection
  <2>2. f \in [1 .. n -> S] /\ s \in [1 .. n -> S]
    BY <1>5
  <2> QED BY <1>5, <2>1, <2>2
<1>7. ASSUME NEW k \in 1 .. n PROVE s[k] = f[k]
  <2>1. s[k] \in S /\ f[k] \in S
    BY <1>5
  <2>2. ~Before(s[k], f[k]) /\ ~Before(f[k], s[k])
    <3>1. /\ Before(s[k], f[k]) <=> Cardinality(Lower(S, s[k])) < Cardinality(Lower(S, f[k]))
          /\ Before(f[k], s[k]) <=> Cardinality(Lower(S, f[k])) < Cardinality(Lower(S, s[k]))
      BY <1>3, <2>1, RankOfPairs
    <3>2. Cardinality(Lower(S, s[k])) = k - 1 /\ Cardinality(Lower(S, f[k])) = k - 1
      BY <1>6
    <3> QED BY <3>1, <3>2
  <2> QED BY <2>1, <2>2, BeforeIsOrder
<1>8. f = [k \in 1 .. n |-> f[k]]
  OBVIOUS
<1> QED BY <1>3, <1>4, <1>5, <1>7, <1>8

\* The pairs of a sequence, each in its new place.
LEMMA SortedFacts ==
  ASSUME NEW s \in Seq(Int \X Int), NEW t, t = Sorted(s)
  PROVE  /\ t \in Seq(Int \X Int) /\ Len(t) = Len(s)
         /\ \E p \in Bijection(DOMAIN s, DOMAIN s) : \A k \in DOMAIN s : t[k] = s[p[k]]
         /\ \A j, k \in DOMAIN t : j < k => Before(t[j], t[k]) \/ t[j] = t[k]
<1> DEFINE n == Len(s)
           S == DOMAIN s
           Precedes(i, j) == Before(s[i], s[j]) \/ (s[i] = s[j] /\ i < j)
           R == {z \in S \X S : Precedes(z[1], z[2])}
           P(j) == {i \in S : Precedes(i, j)}
           C(k) == CHOOSE j \in S : Cardinality(P(j)) = k - 1
           p == [k \in S |-> C(k)]
<1>1. /\ n \in Nat /\ S = 1 .. n /\ \A i \in S : s[i] \in Int \X Int /\ i \in Nat
  OBVIOUS
<1>2. IsFiniteSet(S) /\ Cardinality(S) = n
  <2>1. IsFiniteSet(1 .. n) /\ Cardinality(1 .. n) = IF 1 > n THEN 0 ELSE n - 1 + 1
    BY <1>1, FS_Interval
  <2> HIDE DEF n, S
  <2> QED BY <1>1, <2>1
<1>3. t = [k \in S |-> s[C(k)]]
  BY Zenon DEF Sorted
<1>4. \A i, j \in S : <<i, j>> \in R <=> Precedes(i, j)
  OBVIOUS
<1> HIDE DEF R, n, S
<1>5. IsOrder(R, S)
  <2>1. ASSUME NEW i \in S PROVE ~Precedes(i, i)
    <3>1. ~Before(s[i], s[i])
      BY <1>1, BeforeIsOrder
    <3> QED BY <1>1, <3>1
  <2>2. ASSUME NEW i \in S, NEW j \in S, NEW k \in S, Precedes(i, j), Precedes(j, k)
        PROVE  Precedes(i, k)
    <3>1. Before(s[i], s[j]) /\ Before(s[j], s[k]) => Before(s[i], s[k])
      BY <1>1, BeforeIsOrder
    <3> QED BY <1>1, <2>2, <3>1
  <2>3. ASSUME NEW i \in S, NEW j \in S, i # j PROVE Precedes(i, j) \/ Precedes(j, i)
    <3>1. s[i] # s[j] => Before(s[i], s[j]) \/ Before(s[j], s[i])
      BY <1>1, BeforeIsOrder
    <3> QED BY <1>1, <2>3, <3>1
  <2> HIDE DEF Precedes
  <2> QED BY <1>4, <2>1, <2>2, <2>3 DEF IsOrder
<1>6. \A x \in S : Preceding(R, S, x) = P(x)
  BY <1>4 DEF Preceding
<1>7. /\ \A x \in S : Cardinality(P(x)) \in 0 .. n - 1
      /\ \A x, y \in S : Precedes(x, y) <=> Cardinality(P(x)) < Cardinality(P(y))
      /\ \A k \in 1 .. n : \E x \in S : Cardinality(P(x)) = k - 1
  <2>1. /\ \A x \in S : Cardinality(Preceding(R, S, x)) \in 0 .. n - 1
        /\ \A x, y \in S :
             <<x, y>> \in R <=> Cardinality(Preceding(R, S, x)) < Cardinality(Preceding(R, S, y))
        /\ \A k \in 1 .. n : \E x \in S : Cardinality(Preceding(R, S, x)) = k - 1
    BY <1>2, <1>5, RankFacts
  <2> HIDE DEF P, Precedes
  <2> QED BY <1>4, <1>6, <2>1
<1>8. \A k \in S : C(k) \in S /\ Cardinality(P(C(k))) = k - 1
  <2> HIDE DEF P
  <2> QED BY <1>1, <1>7
<1> HIDE DEF C
<1>9. p = [k \in S |-> p[k]] /\ \A k \in S : p[k] = C(k)
  OBVIOUS
<1> HIDE DEF p, P
<1>10. p \in Injection(S, S)
  <2>1. p \in [S -> S]
    BY <1>8, <1>9
  <2>2. \A j, k \in S : p[j] = p[k] => j = k
    BY <1>1, <1>8, <1>9
  <2> QED BY <2>1, <2>2 DEF Injection, IsInjective
<1>11. p \in Bijection(S, S)
  <2>1. p \in Surjection(S, S)
    BY <1>2, <1>10, FS_Injection
  <2> QED BY <1>10, <2>1 DEF Bijection
<1>12. \A k \in S : t[k] = s[p[k]] /\ t[k] \in Int \X Int
  BY <1>1, <1>3, <1>8, <1>9
<1>13. t \in Seq(Int \X Int) /\ Len(t) = n /\ DOMAIN t = S
  <2>1. t \in [1 .. n -> Int \X Int]
    BY <1>1, <1>3, <1>12
  <2> QED BY <1>1, <2>1
<1>14. ASSUME NEW j \in S, NEW k \in S, j < k PROVE Before(t[j], t[k]) \/ t[j] = t[k]
  <2>1. Cardinality(P(p[j])) < Cardinality(P(p[k]))
    BY <1>1, <1>8, <1>9, <1>14
  <2>2. Precedes(p[j], p[k])
    BY <1>7, <1>8, <1>9, <2>1
  <2> QED BY <1>12, <2>2
<1> QED BY <1>11, <1>12, <1>13, <1>14 DEF S, n

-----------------------------------------------------------------------------
(* The groups of blocks.                                                   *)

\* f has the powers of two up to n.
PowersUpTo(f, n) == \A k \in 0 .. n : f[k] = IF k = 0 THEN 1 ELSE 2 * f[k - 1]

\* The powers of two up to n, without induction over a definition.
LEMMA PowersExist == \A n \in Nat : \E f : PowersUpTo(f, n)
<1> DEFINE P == {n \in Nat : \E f : PowersUpTo(f, n)}
<1>1. 0 \in P
  <2> DEFINE f == [k \in {0} |-> 1]
  <2>1. PowersUpTo(f, 0)
    BY DEF PowersUpTo
  <2> QED BY <2>1
<1>2. ASSUME NEW n \in Nat, n \in P PROVE n + 1 \in P
  <2>1. PICK f : PowersUpTo(f, n)
    BY <1>2
  <2> DEFINE g == [k \in 0 .. n + 1 |-> IF k = n + 1 THEN 2 * f[n] ELSE f[k]]
  <2>2. g[n + 1] = 2 * f[n] /\ \A k \in 0 .. n : g[k] = f[k]
    OBVIOUS
  <2> HIDE DEF g
  <2>3. ASSUME NEW k \in 0 .. n + 1 PROVE g[k] = IF k = 0 THEN 1 ELSE 2 * g[k - 1]
    <3>1. CASE k = n + 1
      BY <2>2, <3>1
    <3>2. CASE k \in 0 .. n
      <4>1. k = 0 \/ k - 1 \in 0 .. n
        BY <3>2
      <4> QED BY <2>1, <2>2, <3>2, <4>1 DEF PowersUpTo
    <3> QED BY <3>1, <3>2
  <2>4. PowersUpTo(g, n + 1)
    BY <2>3 DEF PowersUpTo
  <2> QED BY <2>4
<1>3. \A n \in Nat : n \in P
  <2> HIDE DEF P
  <2> QED BY <1>1, <1>2, NatSetInduction
<1> QED BY <1>3

\* They are the only ones.
LEMMA PowersAgree ==
  ASSUME NEW n \in Nat, NEW m \in Nat, n <= m, NEW f, PowersUpTo(f, n), NEW g, PowersUpTo(g, m)
  PROVE  f[n] = g[n]
<1> DEFINE P == {k \in Nat : k <= n => f[k] = g[k]}
<1>1. 0 \in P
  BY DEF PowersUpTo
<1>2. ASSUME NEW k \in Nat, k \in P PROVE k + 1 \in P
  <2> SUFFICES ASSUME k + 1 <= n PROVE f[k + 1] = g[k + 1]
    OBVIOUS
  <2>1. k + 1 \in 0 .. n /\ k + 1 \in 0 .. m /\ (k + 1) - 1 = k /\ k + 1 # 0 /\ f[k] = g[k]
    BY <1>2
  <2> QED BY <2>1 DEF PowersUpTo
<1>3. n \in P
  <2> HIDE DEF P
  <2> QED BY <1>1, <1>2, NatSetInduction
<1> QED BY <1>3

\* So doubled has its equations.
LEMMA DoubledEquations == \A n \in Nat : doubled[n] = IF n = 0 THEN 1 ELSE 2 * doubled[n - 1]
<1> DEFINE At(n) == CHOOSE f : PowersUpTo(f, n)
           F == [n \in Nat |-> At(n)[n]]
           G == [n \in Nat |-> IF n = 0 THEN 1 ELSE 2 * F[n - 1]]
<1>1. \A n \in Nat : PowersUpTo(At(n), n)
  BY PowersExist
<1> HIDE DEF At
<1>2. ASSUME NEW n \in Nat PROVE F[n] = IF n = 0 THEN 1 ELSE 2 * F[n - 1]
  <2>1. At(n)[n] = IF n = 0 THEN 1 ELSE 2 * At(n)[n - 1]
    <3>1. n \in 0 .. n
      OBVIOUS
    <3> QED BY <1>1, <3>1 DEF PowersUpTo
  <2>2. CASE n = 0
    BY <2>1, <2>2
  <2>3. CASE n # 0
    <3> DEFINE m == n - 1
    <3>1. m \in Nat /\ m <= n
      BY <2>3
    <3>2. PowersUpTo(At(m), m) /\ PowersUpTo(At(n), n)
      BY <1>1, <3>1
    <3> HIDE DEF m
    <3>3. At(m)[m] = At(n)[m]
      BY <3>1, <3>2, PowersAgree
    <3>4. F[m] = At(m)[m] /\ F[n] = At(n)[n]
      BY <3>1
    <3> QED BY <2>1, <2>3, <3>3, <3>4 DEF m
  <2> QED BY <2>2, <2>3
<1>3. F = [n \in Nat |-> IF n = 0 THEN 1 ELSE 2 * F[n - 1]]
  <2>1. F = [n \in Nat |-> F[n]]
    OBVIOUS
  <2> HIDE DEF F
  <2> QED BY <1>2, <2>1
<1>4. doubled = CHOOSE f : f = [n \in Nat |-> IF n = 0 THEN 1 ELSE 2 * f[n - 1]]
  BY DEF doubled
<1> HIDE DEF F
<1>5. doubled = [n \in Nat |-> IF n = 0 THEN 1 ELSE 2 * doubled[n - 1]]
  BY <1>3, <1>4
<1> DEFINE T == doubled
<1>6. T = [n \in Nat |-> IF n = 0 THEN 1 ELSE 2 * T[n - 1]]
  BY <1>5
<1> HIDE DEF T
<1>7. \A n \in Nat : T[n] = IF n = 0 THEN 1 ELSE 2 * T[n - 1]
  BY <1>6
<1> QED BY <1>7 DEF T

\* The powers of two grow faster than their exponents.
LEMMA DoubledFacts ==
  /\ doubled[0] = 1
  /\ \A n \in Nat : doubled[n] \in Nat /\ doubled[n] > n /\ doubled[n + 1] = 2 * doubled[n]
<1>1. doubled[0] = 1
  BY DoubledEquations
<1>2. \A n \in Nat : doubled[n + 1] = 2 * doubled[n]
  <2> SUFFICES ASSUME NEW n \in Nat PROVE doubled[n + 1] = 2 * doubled[n]
    OBVIOUS
  <2>1. n + 1 \in Nat /\ n + 1 # 0 /\ (n + 1) - 1 = n
    OBVIOUS
  <2> QED BY <2>1, DoubledEquations
<1> DEFINE P == {n \in Nat : doubled[n] \in Nat /\ doubled[n] > n}
<1>3. 0 \in P
  BY <1>1
<1>4. ASSUME NEW n \in Nat, n \in P PROVE n + 1 \in P
  BY <1>2, <1>4
<1>5. \A n \in Nat : n \in P
  <2> HIDE DEF P
  <2> QED BY <1>3, <1>4, NatSetInduction
<1> QED BY <1>1, <1>2, <1>5


\* What is divided by a whole number.
LEMMA Quotient ==
  ASSUME NEW a \in Nat, NEW b \in Nat \ {0}
  PROVE  /\ a \div b \in Nat
         /\ b * (a \div b) <= a
         /\ a < b * (a \div b) + b
<1>1. /\ a \div b \in Int /\ a % b \in 0 .. b - 1
      /\ a = b * (a \div b) + (a % b)
  OBVIOUS
<1>2. a \div b >= 0
  OBVIOUS
<1>3. b * (a \div b) \in Int
  BY <1>1
<1> QED BY <1>1, <1>2, <1>3

\* A factor is monotonic.
LEMMA TimesMonotonic ==
  ASSUME NEW c \in Nat, NEW a \in Int, NEW b \in Int, a <= b
  PROVE  c * a <= c * b /\ c * a \in Int /\ c * b \in Int
<1>1. b - a \in Nat /\ c * (b - a) >= 0
  OBVIOUS
<1>2. c * (b - a) = c * b - c * a
  OBVIOUS
<1>3. c * a \in Int /\ c * b \in Int
  OBVIOUS
<1> QED BY <1>1, <1>2, <1>3

\* Half the pages in a group would not do.
LEMMA PagesInGroup ==
  ASSUME NEW blocks \in Nat, NEW n, n = numPagesInGroup(blocks)
  PROVE  /\ n \in Nat \ {0}
         /\ blocks \div n <= MaxGroups
         /\ n = 1 \/ \E m \in Nat \ {0} : n = 2 * m /\ blocks \div m > MaxGroups
<1>0. MaxGroups \in Nat \ {0}
  BY HotAssumption DEF HotAssumption
<1> DEFINE Fit(k) == blocks \div doubled[k] <= MaxGroups
           S == {k \in 0 .. blocks : Fit(k)}
<1>1. \A k \in Nat : doubled[k] \in Nat \ {0}
  BY DoubledFacts
<1>2. blocks \in S
  <2>1. doubled[blocks] \in Nat /\ doubled[blocks] > blocks
    BY DoubledFacts
  <2>2. blocks \div doubled[blocks] = 0
    <3> DEFINE d == doubled[blocks]
               q == blocks \div d
    <3>1. q \in Nat /\ d * q <= blocks
      BY <2>1, Quotient
    <3>2. ~(1 <= q)
      <4> HIDE DEF q, d
      <4> SUFFICES ASSUME 1 <= q PROVE FALSE
        OBVIOUS
      <4>1. d * 1 <= d * q
        BY <2>1, <3>1, TimesMonotonic DEF d
      <4>2. d \in Nat /\ d > blocks /\ d * q \in Nat
        BY <2>1, <3>1 DEF d
      <4> QED BY <3>1, <4>1, <4>2
    <3> QED BY <3>1, <3>2
  <2> QED BY <1>0, <2>2
<1>3. PICK k \in S : \A j \in S : k <= j
  <2>1. S \subseteq Nat /\ S # {}
    BY <1>2
  <2> HIDE DEF S
  <2> QED BY <2>1, LeastElement
<1> DEFINE D(j) == j > 0 => ~Fit(j - 1)
<1>4. k \in 0 .. blocks /\ Fit(k) /\ D(k)
  <2>1. k \in 0 .. blocks /\ Fit(k)
    OBVIOUS
  <2>2. ASSUME k > 0, Fit(k - 1) PROVE FALSE
    <3>1. k - 1 \in S
      BY <2>1, <2>2
    <3> QED BY <1>3, <2>1, <3>1
  <2> QED BY <2>1, <2>2
<1> DEFINE c == CHOOSE j \in 0 .. blocks : Fit(j) /\ D(j)
<1>5. c \in 0 .. blocks /\ Fit(c) /\ D(c)
  <2> HIDE DEF Fit, D
  <2> QED BY <1>4
<1>6. n = doubled[c]
  BY Zenon DEF numPagesInGroup
<1> HIDE DEF c
<1>7. n \in Nat \ {0} /\ blocks \div n <= MaxGroups
  BY <1>1, <1>5, <1>6
<1>8. CASE c = 0
  BY <1>6, <1>7, <1>8, DoubledFacts
<1>9. CASE c > 0
  <2> DEFINE m == doubled[c - 1]
  <2>1. c - 1 \in Nat /\ (c - 1) + 1 = c
    BY <1>5, <1>9
  <2>2. m \in Nat \ {0} /\ n = 2 * m
    BY <1>1, <1>6, <2>1, DoubledFacts
  <2>3. blocks \div m > MaxGroups
    <3>1. ~(blocks \div m <= MaxGroups)
      BY <1>5, <1>9
    <3>2. blocks \div m \in Nat
      BY <2>2, Quotient
    <3> QED BY <1>0, <3>1, <3>2
  <2> HIDE DEF m
  <2> QED BY <1>7, <2>2, <2>3
<1> QED BY <1>5, <1>8, <1>9

\* More blocks than groups: the first group is not all of them.
LEMMA SecondGroup ==
  ASSUME NEW blocks \in Nat, MaxGroups < blocks
  PROVE  numPagesInGroup(blocks) < blocks
<1> DEFINE n == numPagesInGroup(blocks)
<1>1. MaxGroups \in Nat /\ MaxGroups > 1
  BY HotAssumption DEF HotAssumption
<1>2. /\ n \in Nat \ {0}
      /\ n = 1 \/ \E m \in Nat \ {0} : n = 2 * m /\ blocks \div m > MaxGroups
  BY PagesInGroup
<1> HIDE DEF n
<1>3. CASE n = 1
  BY <1>1, <1>3 DEF n
<1>4. ASSUME NEW m \in Nat \ {0}, n = 2 * m, blocks \div m > MaxGroups
      PROVE  n < blocks
  <2> DEFINE q == blocks \div m
  <2>1. q \in Nat /\ m * q <= blocks
    BY Quotient
  <2>2. 3 <= q
    BY <1>1, <1>4, <2>1
  <2> HIDE DEF q
  <2>3. m * 3 <= m * q /\ m * q \in Int
    BY <2>1, <2>2, TimesMonotonic
  <2> QED BY <1>4, <2>1, <2>3
<1> QED BY <1>2, <1>3, <1>4 DEF n

-----------------------------------------------------------------------------
(* The interval set.                                                       *)

\* A range that adds an interval has nothing in common with the set.
LEMMA FreshRange ==
  ASSUME NEW X, X \subseteq Nat, IsFiniteSet(X), NEW l \in Nat, NEW u \in Nat, l <= u,
         ~(iterative_size(X \cup (l .. u)) <= iterative_size(X))
  PROVE  X \cap (l .. u) = {}
<1> DEFINE R == l .. u
           n == Cardinality(Lowers(X))
<1>1. SUFFICES ASSUME X \cap R # {} PROVE Cardinality(Lowers(X \cup R)) <= n
  BY DEF iterative_size
<1>2. IsFiniteSet(Lowers(X)) /\ n \in Nat
  <2>1. Lowers(X) \in SUBSET X
    BY DEF Lowers
  <2> QED BY <2>1, FS_Subset, FS_CardinalityType
<1>3. Lowers(X \cup R) \subseteq Lowers(X) \cup {l}
  BY DEF Lowers
<1>4. CASE l \notin Lowers(X \cup R) \/ l \in Lowers(X)
  <2>1. Lowers(X \cup R) \in SUBSET Lowers(X)
    BY <1>3, <1>4
  <2> QED BY <1>2, <2>1, FS_Subset
<1>5. CASE l \in Lowers(X \cup R) /\ l \notin Lowers(X)
  <2>1. l \notin X
    BY <1>5 DEF Lowers
  <2>2. PICK c \in X \cap R : \A d \in X \cap R : c <= d
    <3> DEFINE S == X \cap R
    <3>1. S \subseteq Nat /\ S # {}
      BY <1>1
    <3> HIDE DEF S
    <3>2. \E c \in S : \A d \in S : c <= d
      BY <3>1, LeastElement
    <3> QED BY <3>2 DEF S
  <2>3. c \in Nat /\ c - 1 \in R /\ c - 1 \notin X
    <3>1. c \in Nat /\ l < c /\ c <= u
      BY <2>1, <2>2
    <3>2. c - 1 \in R
      BY <3>1
    <3> QED BY <2>2, <3>1, <3>2
  <2>4. c \in Lowers(X) /\ c \notin Lowers(X \cup R)
    BY <2>2, <2>3 DEF Lowers
  <2> DEFINE T == Lowers(X) \ {c}
  <2>5. IsFiniteSet(T) /\ Cardinality(T) = n - 1
    BY <1>2, <2>4, FS_RemoveElement
  <2>6. IsFiniteSet(T \cup {l}) /\ Cardinality(T \cup {l}) <= n
    <3>1. IsFiniteSet(T \cup {l})
          /\ (Cardinality(T \cup {l}) = Cardinality(T) \/ Cardinality(T \cup {l}) = Cardinality(T) + 1)
      BY <2>5, FS_AddElement
    <3> HIDE DEF T, n
    <3> QED BY <1>2, <2>5, <3>1
  <2>7. Lowers(X \cup R) \in SUBSET (T \cup {l})
    BY <1>3, <2>4
  <2>8. Cardinality(Lowers(X \cup R)) <= Cardinality(T \cup {l}) /\ IsFiniteSet(Lowers(X \cup R))
    BY <2>6, <2>7, FS_Subset
  <2>9. Cardinality(Lowers(X \cup R)) \in Nat /\ Cardinality(T \cup {l}) \in Nat
    BY <2>6, <2>8, FS_CardinalityType
  <2> HIDE DEF T, n
  <2> QED BY <1>2, <2>6, <2>8, <2>9
<1> QED BY <1>4, <1>5

\* An interval starts and ends where the set does.
LEMMA IntervalParts ==
  ASSUME NEW X, X \subseteq Nat, NEW c \in Intervals(X)
  PROVE  /\ c = <<c[1], c[2]>> /\ c[1] \in X /\ c[2] \in X
         /\ c[1] \in Nat /\ c[2] \in Nat /\ c[1] <= c[2]
         /\ c[1] - 1 \notin X /\ c[2] + 1 \notin X
         /\ (c[1] .. c[2]) \subseteq X
<1>1. /\ c \in Lowers(X) \X Uppers(X) /\ c[1] <= c[2]
      /\ (c[1] .. c[2]) \subseteq X
  BY DEF Intervals
<1>2. c[1] \in Lowers(X) /\ c[2] \in Uppers(X) /\ c = <<c[1], c[2]>>
  BY <1>1
<1> QED BY <1>1, <1>2 DEF Lowers, Uppers

\* Where the set starts there is an interval.
LEMMA IntervalFrom ==
  ASSUME NEW N \in Nat, NEW X, X \subseteq 0 .. N, NEW a \in Lowers(X)
  PROVE  \E u \in X : <<a, u>> \in Intervals(X)
<1> DEFINE S == {b \in X : a <= b /\ (a .. b) \subseteq X}
<1>1. a \in X /\ a \in 0 .. N
  BY DEF Lowers
<1>2. a \in S
  <2>1. a .. a = {a}
    BY <1>1
  <2> QED BY <1>1, <2>1
<1>3. PICK u \in S : \A b \in S : b <= u
  <2>1. S \subseteq 0 .. N /\ S # {}
    BY <1>2
  <2> HIDE DEF S
  <2> QED BY <2>1, GreatestElement
<1>4. u \in X /\ u \in 0 .. N /\ a <= u /\ (a .. u) \subseteq X
  OBVIOUS
<1>5. u + 1 \notin X
  <2> SUFFICES ASSUME u + 1 \in X PROVE FALSE
    OBVIOUS
  <2>1. a .. u + 1 = (a .. u) \cup {u + 1}
    BY <1>1, <1>4
  <2>2. u + 1 \in S
    BY <1>1, <1>4, <2>1
  <2> QED BY <1>3, <1>4, <2>2
<1> QED BY <1>4, <1>5 DEF Intervals, Uppers

\* Each element is in an interval.
LEMMA IntervalOf ==
  ASSUME NEW N \in Nat, NEW X, X \subseteq 0 .. N, NEW x \in X
  PROVE  \E c \in Intervals(X) : x \in c[1] .. c[2]
<1> DEFINE S == {b \in X : b <= x /\ (b .. x) \subseteq X}
<1>1. x \in 0 .. N
  OBVIOUS
<1>2. x \in S
  <2>1. x .. x = {x}
    BY <1>1
  <2> QED BY <1>1, <2>1
<1>3. PICK a \in S : \A b \in S : a <= b
  <2>0. X \subseteq Nat
    OBVIOUS
  <2>1. S \subseteq Nat /\ S # {}
    BY <1>2, <2>0
  <2> HIDE DEF S
  <2> QED BY <2>1, LeastElement
<1>4. a \in X /\ a \in 0 .. N /\ a <= x /\ (a .. x) \subseteq X
  OBVIOUS
<1>5. a - 1 \notin X
  <2> SUFFICES ASSUME a - 1 \in X PROVE FALSE
    OBVIOUS
  <2>1. a - 1 .. x = (a .. x) \cup {a - 1}
    BY <1>1, <1>4
  <2>2. a - 1 \in S
    BY <1>1, <1>4, <2>1
  <2> QED BY <1>3, <1>4, <2>2
<1>6. PICK u \in X : <<a, u>> \in Intervals(X)
  BY <1>4, <1>5, IntervalFrom DEF Lowers
<1>7. x <= u
  <2> SUFFICES ASSUME u < x PROVE FALSE
    BY <1>1
  <2>1. a <= u /\ u \in 0 .. N /\ u + 1 \notin X
    BY <1>6 DEF Intervals, Uppers
  <2>2. u + 1 \in a .. x
    BY <1>1, <1>4, <2>1
  <2> QED BY <1>4, <2>1, <2>2
<1>8. x \in a .. u
  BY <1>1, <1>4, <1>7
<1> QED BY <1>6, <1>8

\* Two intervals have nothing in common.
LEMMA IntervalsApart ==
  ASSUME NEW X, X \subseteq Nat, NEW c \in Intervals(X), NEW d \in Intervals(X),
         NEW x, x \in c[1] .. c[2], x \in d[1] .. d[2]
  PROVE  c = d
<1>1. /\ c = <<c[1], c[2]>> /\ c[1] \in X /\ c[2] \in X
      /\ c[1] \in Nat /\ c[2] \in Nat /\ c[1] <= c[2]
      /\ c[1] - 1 \notin X /\ c[2] + 1 \notin X
      /\ (c[1] .. c[2]) \subseteq X
  BY IntervalParts
<1>2. /\ d = <<d[1], d[2]>> /\ d[1] \in X /\ d[2] \in X
      /\ d[1] \in Nat /\ d[2] \in Nat /\ d[1] <= d[2]
      /\ d[1] - 1 \notin X /\ d[2] + 1 \notin X
      /\ (d[1] .. d[2]) \subseteq X
  BY IntervalParts
<1>3. c[1] = d[1]
  <2>1. ~(c[1] < d[1])
    <3> SUFFICES ASSUME c[1] < d[1] PROVE FALSE
      OBVIOUS
    <3>1. d[1] - 1 \in c[1] .. c[2]
      BY <1>1, <1>2
    <3> QED BY <1>1, <1>2, <3>1
  <2>2. ~(d[1] < c[1])
    <3> SUFFICES ASSUME d[1] < c[1] PROVE FALSE
      OBVIOUS
    <3>1. c[1] - 1 \in d[1] .. d[2]
      BY <1>1, <1>2
    <3> QED BY <1>1, <1>2, <3>1
  <2> QED BY <1>1, <1>2, <2>1, <2>2
<1>4. c[2] = d[2]
  <2>1. ~(c[2] < d[2])
    <3> SUFFICES ASSUME c[2] < d[2] PROVE FALSE
      OBVIOUS
    <3>1. c[2] + 1 \in d[1] .. d[2]
      BY <1>1, <1>2
    <3> QED BY <1>1, <1>2, <3>1
  <2>2. ~(d[2] < c[2])
    <3> SUFFICES ASSUME d[2] < c[2] PROVE FALSE
      OBVIOUS
    <3>1. d[2] + 1 \in c[1] .. c[2]
      BY <1>1, <1>2
    <3> QED BY <1>1, <1>2, <3>1
  <2> QED BY <1>1, <1>2, <2>1, <2>2
<1> QED BY <1>1, <1>2, <1>3, <1>4

-----------------------------------------------------------------------------
(* The blocks of a range, and their counts.                                *)

\* A range from the address of one access to that of another.
IsRange(t, r) ==
  /\ r \in Nat \X Nat
  /\ r[1] < r[2]
  /\ \E k \in DOMAIN t : t[k].addr = r[1]
  /\ \E k \in DOMAIN t : t[k].addr = r[2]

\* The first and the last of the blocks have accesses.
IsCount(count, blocks) ==
  /\ blocks \in Nat \ {0}
  /\ count \in [0 .. blocks - 1 -> Nat]
  /\ count[0] > 0
  /\ count[blocks - 1] > 0

\* Min of two numbers.
LEMMA MinOfTwo ==
  ASSUME NEW a \in Int, NEW b \in Int
  PROVE  Min({a, b}) = IF a <= b THEN a ELSE b
<1> DEFINE m == Min({a, b})
<1>1. m = CHOOSE x \in {a, b} : \A y \in {a, b} : x <= y
  BY Zenon DEF Min
<1>2. \E x \in {a, b} : \A y \in {a, b} : x <= y
  OBVIOUS
<1>3. m \in {a, b} /\ \A y \in {a, b} : m <= y
  <2> HIDE DEF m
  <2> QED BY <1>1, <1>2
<1> HIDE DEF m
<1> QED BY <1>3 DEF m

\* Min of a set of naturals.
LEMMA MinOfSet ==
  ASSUME NEW S, S \subseteq Nat, S # {}
  PROVE  Min(S) \in S /\ \A y \in S : Min(S) <= y
<1>1. \E x \in S : \A y \in S : x <= y
  BY LeastElement
<1> QED BY <1>1 DEF Min

\* Max of a finite set.
LEMMA MaxOfSet ==
  ASSUME NEW S, S \subseteq Nat, IsFiniteSet(S), S # {}
  PROVE  Max(S) \in S /\ \A y \in S : y <= Max(S)
<1>1. \E x \in S : \A y \in S : x >= y
  <2>1. PICK x \in S : \A y \in S : y <= x
    BY FiniteGreatest
  <2>2. \A y \in S : x >= y
    BY <2>1
  <2> QED BY <2>2
<1>2. Max(S) \in S /\ \A y \in S : Max(S) >= y
  BY <1>1 DEF Max
<1> QED BY <1>2

\* The last block starts below the end of the range.
LEMMA BlockCountFacts ==
  ASSUME NEW r \in Nat \X Nat, r[1] < r[2]
  PROVE  /\ BlockCount(r) \in Nat \ {0}
         /\ OSPageSize * (BlockCount(r) - 1) < r[2] - r[1]
         /\ BlockOf(r, r[1]) = 0
         /\ BlockOf(r, r[2]) = BlockCount(r) - 1
<1> DEFINE D == r[2] - r[1]
           P == OSPageSize
           B == BlockCount(r)
<1>1. r[1] \in Nat /\ r[2] \in Nat /\ D \in Nat \ {0} /\ P \in Nat \ {0}
  BY HotAssumption DEF HotAssumption
<1>2. B = (D + P - 1) \div P
  BY Zenon DEF BlockCount, CeilDiv
<1> HIDE DEF B, D
<1>3. B \in Nat /\ P * B <= D + P - 1 /\ D + P - 1 < P * B + P /\ P * B \in Nat
  <2>1. D + P - 1 \in Nat
    BY <1>1
  <2> QED BY <1>1, <1>2, <2>1, Quotient
<1>4. B # 0
  BY <1>1, <1>3
<1>5. P * (B - 1) = P * B - P
  BY <1>1, <1>3
<1>6. P * (B - 1) < D
  BY <1>1, <1>3, <1>5
<1>7. BlockOf(r, r[1]) = 0
  <2>1. r[1] - r[1] = 0 /\ 0 \div P = 0
    BY <1>1
  <2>2. BlockOf(r, r[1]) = Min({0, B - 1})
    BY <2>1 DEF BlockOf, B
  <2> QED BY <1>3, <1>4, <2>2, MinOfTwo
<1>8. BlockOf(r, r[2]) = B - 1
  <2> DEFINE q == D \div P
  <2>1. q \in Nat /\ D < P * q + P
    BY <1>1, Quotient
  <2>2. BlockOf(r, r[2]) = Min({q, B - 1})
    BY DEF BlockOf, B, D
  <2> HIDE DEF q
  <2>3. B - 1 <= q
    <3> SUFFICES ASSUME q + 1 <= B - 1 PROVE FALSE
      BY <1>3, <2>1
    <3>1. P * (q + 1) <= P * (B - 1) /\ P * (q + 1) \in Int /\ P * (B - 1) \in Int
      BY <1>1, <1>3, <2>1, TimesMonotonic
    <3>2. P * (q + 1) = P * q + P
      BY <1>1, <2>1
    <3> QED BY <1>1, <1>6, <2>1, <3>1, <3>2
  <2> QED BY <1>3, <2>1, <2>2, <2>3, MinOfTwo
<1> QED BY <1>3, <1>4, <1>6, <1>7, <1>8 DEF B, D

\* So these two have accesses.
LEMMA CountOfRange ==
  ASSUME trace \in Seq(Line), NEW r, IsRange(trace, r)
  PROVE  IsCount(getAccessCount(r), BlockCount(r))
<1> DEFINE B == BlockCount(r)
           K(b) == {k \in Accesses(r) : BlockOf(r, trace[k].addr) = b}
           count == [b \in 0 .. B - 1 |-> Cardinality(K(b))]
<1>1. getAccessCount(r) = count
  BY Zenon DEF getAccessCount
<1>2. B \in Nat \ {0}
  BY BlockCountFacts DEF IsRange
<1>3. ASSUME NEW b PROVE IsFiniteSet(K(b)) /\ Cardinality(K(b)) \in Nat
  <2>1. IsFiniteSet(1 .. Len(trace))
    BY FS_Interval
  <2>2. DOMAIN trace = 1 .. Len(trace)
    OBVIOUS
  <2>3. K(b) \in SUBSET (1 .. Len(trace))
    BY <2>2 DEF Accesses
  <2> HIDE DEF K
  <2> QED BY <2>1, <2>3, FS_Subset, FS_CardinalityType
<1>4. ASSUME NEW b, NEW k \in K(b) PROVE Cardinality(K(b)) > 0
  <2>1. Cardinality(K(b)) # 0
    <3>1. IsFiniteSet(K(b)) /\ K(b) # {}
      BY <1>3
    <3> HIDE DEF K
    <3> QED BY <3>1, FS_EmptySet
  <2> HIDE DEF K
  <2> QED BY <1>3, <2>1
<1>5. \E k \in DOMAIN trace : k \in K(0)
  <2>1. PICK k \in DOMAIN trace : trace[k].addr = r[1]
    BY DEF IsRange
  <2>2. k \in Accesses(r)
    BY <2>1 DEF IsRange, Accesses
  <2>3. BlockOf(r, trace[k].addr) = 0
    BY <2>1, BlockCountFacts DEF IsRange
  <2> QED BY <2>2, <2>3
<1>6. \E k \in DOMAIN trace : k \in K(B - 1)
  <2>1. PICK k \in DOMAIN trace : trace[k].addr = r[2]
    BY DEF IsRange
  <2>2. k \in Accesses(r)
    BY <2>1 DEF IsRange, Accesses
  <2>3. BlockOf(r, trace[k].addr) = B - 1
    BY <2>1, BlockCountFacts DEF IsRange
  <2> QED BY <2>2, <2>3
<1>7. Cardinality(K(0)) > 0 /\ Cardinality(K(B - 1)) > 0
  BY <1>4, <1>5, <1>6
<1> HIDE DEF K
<1>8. \A b \in 0 .. B - 1 : count[b] = Cardinality(K(b)) /\ count[b] \in Nat
  BY <1>3
<1>9. count \in [0 .. B - 1 -> Nat]
  BY <1>3
<1>10. 0 \in 0 .. B - 1 /\ B - 1 \in 0 .. B - 1
  BY <1>2
<1> HIDE DEF count
<1> QED BY <1>1, <1>2, <1>7, <1>8, <1>9, <1>10 DEF IsCount, B

\* What the accesses of a set of blocks are at least.
LEMMA SumOfBlocks ==
  ASSUME NEW blocks \in Nat, NEW count \in [0 .. blocks - 1 -> Nat], NEW S
  PROVE  /\ Sum(count, S) \in Nat
         /\ \A b \in S \cap (0 .. blocks - 1) : count[b] <= Sum(count, S)
         /\ Sum(count, S) > 0 => S \cap (0 .. blocks - 1) # {}
<1> DEFINE T == S \cap DOMAIN count
<1>1. IsFiniteSet(T) /\ T = S \cap (0 .. blocks - 1) /\ \A b \in T : count[b] \in Nat
  <2>1. DOMAIN count = 0 .. blocks - 1
    OBVIOUS
  <2>2. IsFiniteSet(0 .. blocks - 1)
    BY FS_Interval
  <2>3. T \in SUBSET (0 .. blocks - 1)
    BY <2>1
  <2>4. IsFiniteSet(T)
    BY <2>2, <2>3, FS_Subset
  <2> QED BY <2>1, <2>4
<1>2. Sum(count, S) = SumFunctionOnSet(count, T)
  BY DEF Sum
<1> HIDE DEF T
<1>3. SumFunctionOnSet(count, T) \in Nat /\ \A b \in T : count[b] <= SumFunctionOnSet(count, T)
  BY <1>1, SumNat
<1>4. T = {} => SumFunctionOnSet(count, T) = 0
  BY SumEmpty
<1> DEFINE m == Sum(count, S)
<1>5. m \in Nat /\ (\A b \in T : count[b] <= m) /\ (T = {} => m = 0)
  BY <1>2, <1>3, <1>4
<1> HIDE DEF m
<1>6. m > 0 => T # {}
  BY <1>5
<1> QED BY <1>1, <1>5, <1>6 DEF m

Accessed(count) == {b \in DOMAIN count : count[b] > 0}

\* A run is an interval of the blocks with accesses.
LEMMA RunFacts ==
  ASSUME NEW blocks, NEW count, IsCount(count, blocks), NEW run \in Runs(count)
  PROVE  /\ run = <<run[1], run[2]>> /\ run[1] \in 0 .. blocks - 1 /\ run[2] \in Nat \ {0}
         /\ <<run[1], run[1] + run[2] - 1>> \in Intervals(Accessed(count))
         /\ Sum(count, run[1] .. run[1] + run[2] - 1) > 0
<1> DEFINE X == Accessed(count)
<1>1. /\ blocks \in Nat \ {0} /\ count \in [0 .. blocks - 1 -> Nat]
      /\ DOMAIN count = 0 .. blocks - 1
  BY DEF IsCount
<1>2. X \subseteq 0 .. blocks - 1 /\ X \subseteq Nat
  BY <1>1 DEF Accessed
<1>3. PICK c \in Intervals(X) : run = <<c[1], c[2] - c[1] + 1>>
  BY Zenon DEF Runs, Accessed
<1> HIDE DEF X
<1>4. /\ c = <<c[1], c[2]>> /\ c[1] \in X /\ c[2] \in X
      /\ c[1] \in Nat /\ c[2] \in Nat /\ c[1] <= c[2]
  BY <1>2, IntervalParts
<1>5. /\ run[1] = c[1] /\ run[2] = c[2] - c[1] + 1 /\ run[1] + run[2] - 1 = c[2]
      /\ run = <<run[1], run[2]>>
  BY <1>3, <1>4
<1>6. run[1] \in 0 .. blocks - 1 /\ run[2] \in Nat \ {0}
  BY <1>2, <1>4, <1>5
<1>7. <<run[1], run[1] + run[2] - 1>> \in Intervals(X)
  BY <1>3, <1>4, <1>5
<1> DEFINE R == run[1] .. run[1] + run[2] - 1
<1>8. run[1] \in R \cap (0 .. blocks - 1) /\ count[run[1]] > 0
  <2>1. run[1] \in R
    BY <1>6
  <2>2. count[run[1]] > 0
    BY <1>4, <1>5 DEF X, Accessed
  <2> QED BY <1>6, <2>1, <2>2
<1> DEFINE m == Sum(count, R)
<1>9. m \in Nat /\ \A b \in R \cap (0 .. blocks - 1) : count[b] <= m
  BY <1>1, SumOfBlocks
<1> HIDE DEF R, m
<1>10. m > 0
  <2>1. count[run[1]] <= m /\ count[run[1]] \in Nat
    BY <1>1, <1>6, <1>8, <1>9
  <2> QED BY <1>8, <1>9, <2>1
<1> QED BY <1>5, <1>6, <1>7, <1>10 DEF R, m, X

\* No two runs start at one block.
LEMMA RunsFinite ==
  ASSUME NEW blocks, NEW count, IsCount(count, blocks)
  PROVE  /\ IsFiniteSet(Runs(count)) /\ Runs(count) \subseteq Int \X Int
         /\ \A x, y \in Runs(count) : x[1] = y[1] => x = y
<1>1. \A run \in Runs(count) :
         /\ run = <<run[1], run[2]>> /\ run[1] \in 0 .. blocks - 1 /\ run[2] \in Nat \ {0}
         /\ <<run[1], run[1] + run[2] - 1>> \in Intervals(Accessed(count))
  BY RunFacts
<1>2. blocks \in Nat \ {0} /\ DOMAIN count = 0 .. blocks - 1
  BY DEF IsCount
<1>3. Runs(count) \subseteq Int \X Int
  <2> SUFFICES ASSUME NEW run \in Runs(count) PROVE run \in Int \X Int
    OBVIOUS
  <2>1. run = <<run[1], run[2]>> /\ run[1] \in 0 .. blocks - 1 /\ run[2] \in Nat \ {0}
    BY <1>1
  <2>2. run[1] \in Int /\ run[2] \in Int
    BY <1>2, <2>1
  <2> QED BY <2>1, <2>2, Zenon
<1>4. ASSUME NEW x \in Runs(count), NEW y \in Runs(count), x[1] = y[1]
      PROVE  x = y
  <2> DEFINE c == <<x[1], x[1] + x[2] - 1>>
             d == <<y[1], y[1] + y[2] - 1>>
             X == Accessed(count)
  <2>1. X \subseteq Nat
    BY <1>2 DEF Accessed
  <2>2. c \in Intervals(X) /\ d \in Intervals(X)
    BY <1>1
  <2>3. x[1] \in Nat /\ y[1] \in Nat /\ x[2] \in Nat \ {0} /\ y[2] \in Nat \ {0}
    <3>1. x[1] \in 0 .. blocks - 1 /\ x[2] \in Nat \ {0}
      BY <1>1
    <3>2. y[1] \in 0 .. blocks - 1 /\ y[2] \in Nat \ {0}
      BY <1>1
    <3> QED BY <1>2, <3>1, <3>2
  <2>4. x[1] \in c[1] .. c[2] /\ x[1] \in d[1] .. d[2]
    BY <1>4, <2>3
  <2>5. c = d
    <3> HIDE DEF X, c, d
    <3> QED BY <2>1, <2>2, <2>4, IntervalsApart
  <2>6. x[1] + x[2] - 1 = y[1] + y[2] - 1
    BY <2>5
  <2>7. x[2] = y[2]
    BY <1>4, <2>3, <2>6
  <2> QED BY <1>1, <1>4, <2>7
<1>5. IsFiniteSet(Runs(count))
  <2> DEFINE f == [run \in Runs(count) |-> run[1]]
  <2>1. f \in [Runs(count) -> 0 .. blocks - 1]
    BY <1>1
  <2>2. f \in Injection(Runs(count), 0 .. blocks - 1)
    BY <1>4, <2>1 DEF Injection, IsInjective
  <2>3. IsFiniteSet(0 .. blocks - 1)
    BY <1>2, FS_Interval
  <2> HIDE DEF f
  <2> QED BY <2>2, <2>3, FS_Injection
<1> QED BY <1>3, <1>4, <1>5

\* There is a free block between two runs.
LEMMA FewRuns ==
  ASSUME NEW n \in Nat, NEW X, X \subseteq 0 .. 2 * n - 1
  PROVE  IsFiniteSet(Intervals(X)) /\ Cardinality(Intervals(X)) <= n
<1> DEFINE I == Intervals(X)
           f == [c \in I |-> c[1] \div 2]
<1>1. X \subseteq Nat
  OBVIOUS
<1>2. \A c \in I : /\ c[1] \in X /\ c[1] \in Nat /\ c[2] \in Nat /\ c[1] <= c[2] /\ c[1] - 1 \notin X
  BY <1>1, IntervalParts
<1>3. f \in [I -> 0 .. n - 1]
  <2>1. ASSUME NEW c \in I PROVE c[1] \div 2 \in 0 .. n - 1
    <3>1. c[1] \in 0 .. 2 * n - 1
      BY <1>2
    <3> QED BY <3>1
  <2> QED BY <2>1
<1>4. ASSUME NEW c \in I, NEW d \in I, f[c] = f[d] PROVE c = d
  <2>1. c[1] \div 2 = d[1] \div 2 /\ c[1] \in Nat /\ d[1] \in Nat
    BY <1>2, <1>4
  <2>2. c[1] - d[1] \in {-1, 0, 1}
    BY <2>1
  <2>3. c[1] = d[1]
    <3>1. c[1] - 1 # d[1] /\ d[1] - 1 # c[1]
      BY <1>2
    <3> QED BY <2>1, <2>2, <3>1
  <2>4. c[1] \in c[1] .. c[2] /\ c[1] \in d[1] .. d[2]
    BY <1>2, <2>3
  <2> HIDE DEF f
  <2> QED BY <1>1, <2>4, IntervalsApart
<1>5. f \in Injection(I, 0 .. n - 1)
  <2> HIDE DEF f, I
  <2> QED BY <1>3, <1>4 DEF Injection, IsInjective
<1>6. IsFiniteSet(0 .. n - 1) /\ Cardinality(0 .. n - 1) = n
  <2>1. 0 \in Int /\ n - 1 \in Int
    OBVIOUS
  <2>2. IsFiniteSet(0 .. n - 1) /\ Cardinality(0 .. n - 1) = IF 0 > n - 1 THEN 0 ELSE (n - 1) - 0 + 1
    BY <2>1, FS_Interval
  <2> QED BY <2>2
<1> HIDE DEF f, I
<1> QED BY <1>5, <1>6, FS_Injection DEF I

\* Intervals that have less than their share have less than so many shares.
LEMMA SumOfIntervals ==
  ASSUME NEW X, X \subseteq Nat, IsFiniteSet(X), NEW f, \A x \in X : f[x] \in Int,
         IsFiniteSet(Intervals(X)), X \subseteq UNION {c[1] .. c[2] : c \in Intervals(X)},
         NEW m \in Int, NEW z \in Nat,
         \A c \in Intervals(X) : SumFunctionOnSet(f, c[1] .. c[2]) * z <= m
  PROVE  SumFunctionOnSet(f, X) * z <= Cardinality(Intervals(X)) * m
<1> DEFINE I == Intervals(X)
           sum(S) == SumFunctionOnSet(f, S)
           U(M) == UNION {c[1] .. c[2] : c \in M}
           P == {M \in SUBSET I : sum(U(M)) * z <= Cardinality(M) * m}
<1>1. {} \in P
  <2>1. U({}) = {}
    OBVIOUS
  <2>2. sum({}) = 0 /\ Cardinality({}) = 0
    BY SumEmpty, FS_EmptySet
  <2>3. sum(U({})) * z <= Cardinality({}) * m
    <3> HIDE DEF U
    <3>1. sum(U({})) = 0
      BY <2>1, <2>2
    <3>2. 0 * z = 0 /\ 0 * m = 0
      OBVIOUS
    <3> HIDE DEF sum
    <3> QED BY <2>2, <3>1, <3>2
  <2> HIDE DEF U, sum
  <2> QED BY <2>3
<1>2. ASSUME NEW M \in SUBSET I, NEW c \in I \ M, M \in P
      PROVE  M \cup {c} \in P
  <2> DEFINE C == c[1] .. c[2]
  <2>1. U(M \cup {c}) = U(M) \cup C
    OBVIOUS
  <2>2. C \subseteq X /\ U(M) \subseteq X
    <3>1. \A d \in I : (d[1] .. d[2]) \subseteq X
      BY IntervalParts
    <3> HIDE DEF I
    <3> QED BY <3>1
  <2>3. U(M) \cap C = {}
    <3> SUFFICES ASSUME NEW x, x \in U(M), x \in C PROVE FALSE
      OBVIOUS
    <3>1. PICK d \in M : x \in d[1] .. d[2]
      OBVIOUS
    <3>2. d = c
      <4>1. d \in Intervals(X) /\ c \in Intervals(X)
        OBVIOUS
      <4> QED BY <3>1, <4>1, IntervalsApart
    <3> QED BY <3>1, <3>2
  <2>4. IsFiniteSet(C) /\ IsFiniteSet(U(M))
    BY <2>2, FS_Subset
  <2>5. sum(C) * z <= m
    OBVIOUS
  <2>6. sum(U(M)) * z <= Cardinality(M) * m
    BY <1>2
  <2>7. IsFiniteSet(M) /\ Cardinality(M) \in Nat
    BY FS_Subset, FS_CardinalityType
  <2>8. Cardinality(M \cup {c}) = Cardinality(M) + 1
    BY <2>7, FS_AddElement
  <2> HIDE DEF U, C, I
  <2>9. \A x \in U(M) \cup C : f[x] \in Int
    BY <2>2
  <2>10. sum(U(M) \cup C) = sum(U(M)) + sum(C)
    BY <2>3, <2>4, <2>9, SumUnion
  <2>11. sum(U(M)) \in Int /\ sum(C) \in Int
    BY <2>4, <2>9, SumType
  <2> DEFINE k == Cardinality(M)
             a == sum(U(M))
             e == sum(C)
  <2>12. sum(U(M \cup {c})) = a + e
    BY <2>1, <2>10
  <2>13. k \in Nat /\ a \in Int /\ e \in Int /\ a * z <= k * m /\ e * z <= m
    BY <2>5, <2>6, <2>7, <2>11
  <2>14. Cardinality(M \cup {c}) = k + 1
    BY <2>8
  <2> HIDE DEF k, a, e
  <2>15. (a + e) * z <= (k + 1) * m
    <3>1. (a + e) * z = a * z + e * z /\ (k + 1) * m = k * m + m
      BY <2>13
    <3>2. a * z \in Int /\ e * z \in Int /\ k * m \in Int
      BY <2>13
    <3> QED BY <2>13, <3>1, <3>2
  <2>16. sum(U(M \cup {c})) * z <= Cardinality(M \cup {c}) * m
    <3> HIDE DEF sum
    <3> QED BY <2>12, <2>14, <2>15
  <2> HIDE DEF sum
  <2> QED BY <2>16 DEF I
<1>3. I \in P
  <2> HIDE DEF P, I
  <2> QED BY <1>1, <1>2, AddElementInduction DEF I
<1>4. U(I) = X
  <2>1. \A d \in I : (d[1] .. d[2]) \subseteq X
    BY IntervalParts
  <2>2. X \subseteq U(I)
    OBVIOUS
  <2> HIDE DEF I
  <2> QED BY <2>1, <2>2
<1> QED BY <1>3, <1>4

\* If every run had less than its share, the runs of so few blocks would have
\* less than there is.
LEMMA SomeRunHot ==
  ASSUME NEW blocks, NEW count, IsCount(count, blocks), blocks <= MaxGroups
  PROVE  \E run \in Runs(count) : IsHot(run, count)
<1> DEFINE X == Accessed(count)
           Z == ZoomShare
           T == Sum(count, DOMAIN count)
           I == Intervals(X)
<1>1. /\ blocks \in Nat \ {0} /\ count \in [0 .. blocks - 1 -> Nat]
      /\ DOMAIN count = 0 .. blocks - 1
      /\ count[0] > 0
  BY DEF IsCount
<1>2. Z \in Nat \ {0} /\ MaxGroups \in Nat /\ MaxGroups <= 2 * Z
  BY HotAssumption DEF HotAssumption
<1>3. /\ X \subseteq 0 .. 2 * Z - 1 /\ X \subseteq 0 .. blocks - 1 /\ X \subseteq Nat
      /\ \A b \in (0 .. blocks - 1) \ X : count[b] = 0
  <2>1. X \subseteq 0 .. blocks - 1
    BY <1>1 DEF Accessed
  <2>2. \A b \in (0 .. blocks - 1) \ X : count[b] = 0
    BY <1>1 DEF Accessed
  <2> HIDE DEF X, Z
  <2> QED BY <1>1, <1>2, <2>1, <2>2
<1>4. IsFiniteSet(I) /\ Cardinality(I) <= Z /\ Cardinality(I) \in Nat
  <2>1. IsFiniteSet(I) /\ Cardinality(I) <= Z
    BY <1>2, <1>3, FewRuns
  <2> QED BY <2>1, FS_CardinalityType
<1>5. T \in Nat /\ T > 0
  <2>1. T \in Nat /\ \A b \in (DOMAIN count) \cap (0 .. blocks - 1) : count[b] <= T
    BY <1>1, SumOfBlocks
  <2>2. 0 \in (DOMAIN count) \cap (0 .. blocks - 1) /\ count[0] \in Nat
    BY <1>1
  <2> HIDE DEF T
  <2> QED BY <1>1, <2>1, <2>2
<1>6. T = SumFunctionOnSet(count, X)
  <2> DEFINE N == (0 .. blocks - 1) \ X
  <2>1. T = SumFunctionOnSet(count, X \cup N)
    <3>1. (DOMAIN count) \cap DOMAIN count = X \cup N
      BY <1>1, <1>3
    <3> HIDE DEF X, N
    <3> QED BY <3>1 DEF Sum
  <2>2. IsFiniteSet(X) /\ IsFiniteSet(N)
    <3>1. IsFiniteSet(0 .. blocks - 1)
      BY <1>1, FS_Interval
    <3>2. X \in SUBSET (0 .. blocks - 1) /\ N \in SUBSET (0 .. blocks - 1)
      BY <1>3
    <3> HIDE DEF X, N
    <3> QED BY <3>1, <3>2, FS_Subset
  <2>3. \A x \in X \cup N : count[x] \in Int
    BY <1>1, <1>3
  <2>4. X \cap N = {} /\ \A x \in N : count[x] = 0
    BY <1>3
  <2> HIDE DEF X, N
  <2>5. SumFunctionOnSet(count, X \cup N) = SumFunctionOnSet(count, X) + SumFunctionOnSet(count, N)
    BY <2>2, <2>3, <2>4, SumUnion
  <2>6. SumFunctionOnSet(count, N) = 0
    BY <2>2, <2>4, SumZero
  <2>7. SumFunctionOnSet(count, X) \in Int
    BY <2>2, <2>3, SumType
  <2> QED BY <2>1, <2>5, <2>6, <2>7
<1> SUFFICES ASSUME \A run \in Runs(count) : ~IsHot(run, count) PROVE FALSE
  OBVIOUS
<1>7. ASSUME NEW c \in I PROVE Sum(count, c[1] .. c[2]) * Z < T /\ Sum(count, c[1] .. c[2]) \in Nat
  <2> DEFINE run == <<c[1], c[2] - c[1] + 1>>
  <2>1. run \in Runs(count)
    BY Zenon DEF Runs, Accessed
  <2>2. c[1] \in Nat /\ c[2] \in Nat
    BY <1>3, IntervalParts
  <2>3. run[1] .. run[1] + run[2] - 1 = c[1] .. c[2]
    <3>1. run[1] = c[1] /\ run[1] + run[2] - 1 = c[2]
      BY <2>2
    <3> QED BY <3>1
  <2>4. ~IsHot(run, count)
    BY <2>1
  <2> HIDE DEF run
  <2>5. ~(Sum(count, c[1] .. c[2]) * Z >= T)
    BY <2>3, <2>4 DEF IsHot
  <2>6. Sum(count, c[1] .. c[2]) \in Nat
    BY <1>1, SumOfBlocks
  <2> HIDE DEF T
  <2> QED BY <1>2, <1>5, <2>5, <2>6
<1>8. T * Z <= Cardinality(I) * (T - 1)
  <2>1. IsFiniteSet(X) /\ \A x \in X : count[x] \in Int
    <3>1. IsFiniteSet(0 .. blocks - 1)
      BY <1>1, FS_Interval
    <3>2. IsFiniteSet(X)
      BY <1>3, <3>1, FS_Subset
    <3> QED BY <1>1, <1>3, <3>2
  <2>2. X \subseteq UNION {c[1] .. c[2] : c \in I}
    <3> SUFFICES ASSUME NEW x \in X PROVE x \in UNION {c[1] .. c[2] : c \in I}
      OBVIOUS
    <3>1. 2 * Z - 1 \in Nat
      BY <1>2
    <3>2. \E c \in I : x \in c[1] .. c[2]
      BY <1>3, <3>1, IntervalOf
    <3> HIDE DEF I
    <3> QED BY <3>2
  <2>3. \A c \in I : SumFunctionOnSet(count, c[1] .. c[2]) * Z <= T - 1
    <3> SUFFICES ASSUME NEW c \in I PROVE SumFunctionOnSet(count, c[1] .. c[2]) * Z <= T - 1
      OBVIOUS
    <3>1. (c[1] .. c[2]) \cap DOMAIN count = c[1] .. c[2]
      BY <1>1, <1>3, IntervalParts
    <3> DEFINE e == SumFunctionOnSet(count, c[1] .. c[2])
    <3>2. Sum(count, c[1] .. c[2]) = e
      BY <3>1 DEF Sum
    <3>3. e * Z < T /\ e \in Nat
      BY <1>7, <3>2
    <3> HIDE DEF e, T
    <3>4. e * Z \in Int
      BY <1>2, <3>3
    <3> QED BY <1>5, <3>3, <3>4 DEF e
  <2>4. T - 1 \in Int /\ Z \in Nat
    BY <1>2, <1>5
  <2>5. SumFunctionOnSet(count, X) * Z <= Cardinality(I) * (T - 1)
    <3> HIDE DEF X, T, Z
    <3> QED BY <1>3, <1>4, <2>1, <2>2, <2>3, <2>4, SumOfIntervals
  <2> QED BY <1>6, <2>5
<1> DEFINE k == Cardinality(I)
<1>9. k \in Nat /\ k <= Z /\ T * Z <= k * (T - 1)
  BY <1>4, <1>8
<1> HIDE DEF k, T, Z
<1>10. k * (T - 1) <= Z * (T - 1) /\ k * (T - 1) \in Int
  <2>1. T - 1 \in Nat
    BY <1>5
  <2>2. (T - 1) * k <= (T - 1) * Z
    BY <1>2, <1>9, <2>1, TimesMonotonic
  <2> QED BY <1>2, <1>9, <2>1, <2>2
<1>11. Z * (T - 1) = T * Z - Z /\ T * Z \in Int
  BY <1>2, <1>5
<1> QED BY <1>2, <1>9, <1>10, <1>11

\* A finite set of pairs in reverse order.
LEMMA DescendingFacts ==
  ASSUME NEW S, IsFiniteSet(S), S \subseteq Int \X Int, NEW s, s = Descending(S)
  PROVE  /\ Len(s) = Cardinality(S) /\ Cardinality(S) \in Nat
         /\ DOMAIN s = 1 .. Cardinality(S)
         /\ \A k \in DOMAIN s : s[k] \in S
         /\ \A x \in S : \E k \in DOMAIN s : s[k] = x
         /\ \A j, k \in DOMAIN s : j < k => Before(s[k], s[j])
<1> DEFINE a == Ascending(S)
           n == Cardinality(S)
<1>1. /\ a \in Seq(S) /\ Len(a) = n /\ n \in Nat
      /\ DOMAIN a = 1 .. n
      /\ \A k \in DOMAIN a : a[k] \in S
      /\ \A x \in S : \E k \in DOMAIN a : a[k] = x
      /\ \A j, k \in DOMAIN a : j < k => Before(a[j], a[k])
  BY AscendingFacts
<1>2. s = [i \in 1 .. Len(a) |-> a[(Len(a) - i) + 1]]
  BY DEF Descending, Reverse
<1> HIDE DEF a, n
<1>3. s = [i \in 1 .. n |-> a[(n - i) + 1]]
  BY <1>1, <1>2
<1>4. DOMAIN s = 1 .. n /\ \A i \in 1 .. n : s[i] = a[(n - i) + 1] /\ (n - i) + 1 \in 1 .. n
  BY <1>1, <1>3
<1>5. \A i \in 1 .. n : s[i] \in S
  BY <1>1, <1>4
<1>6. Len(s) = n
  <2>1. s \in [1 .. n -> S]
    BY <1>3, <1>4, <1>5
  <2> QED BY <1>1, <2>1
<1>7. ASSUME NEW x \in S PROVE \E k \in 1 .. n : s[k] = x
  <2>1. PICK i \in 1 .. n : a[i] = x
    BY <1>1
  <2> DEFINE k == (n - i) + 1
  <2>2. k \in 1 .. n /\ (n - k) + 1 = i
    BY <1>1
  <2>3. s[k] = a[(n - k) + 1]
    BY <1>4, <2>2
  <2> QED BY <2>1, <2>2, <2>3
<1>8. ASSUME NEW j \in 1 .. n, NEW k \in 1 .. n, j < k PROVE Before(s[k], s[j])
  <2>1. (n - k) + 1 \in 1 .. n /\ (n - j) + 1 \in 1 .. n /\ (n - k) + 1 < (n - j) + 1
    BY <1>1, <1>8
  <2> QED BY <1>1, <1>4, <2>1
<1> QED BY <1>1, <1>4, <1>5, <1>6, <1>7, <1>8 DEF n

GroupOf(count, g, n) == <<Sum(count, g * n .. g * n + n - 1), g * n>>

\* The number of blocks.
LEMMA CountDomain ==
  ASSUME NEW blocks, NEW count, IsCount(count, blocks)
  PROVE  /\ DOMAIN count = 0 .. blocks - 1
         /\ Cardinality(DOMAIN count) = blocks
<1>1. blocks \in Nat \ {0} /\ DOMAIN count = 0 .. blocks - 1
  BY DEF IsCount
<1>2. 0 \in Int /\ blocks - 1 \in Int
  BY <1>1
<1>3. Cardinality(0 .. blocks - 1) = IF 0 > blocks - 1 THEN 0 ELSE (blocks - 1) - 0 + 1
  BY <1>2, FS_Interval
<1> QED BY <1>1, <1>3

\* As many groups as there are to be, in order.
LEMMA GroupFacts ==
  ASSUME NEW blocks, NEW count, IsCount(count, blocks),
         NEW n, n = numPagesInGroup(blocks), NEW m, m = numBlockGroup(blocks),
         NEW s, s = Groups(count)
  PROVE  /\ Len(s) = m /\ m \in Nat \ {0} /\ n \in Nat \ {0}
         /\ DOMAIN s = 1 .. m
         /\ \A k \in 1 .. m : \E g \in 0 .. m - 1 : s[k] = GroupOf(count, g, n)
         /\ \A g \in 0 .. m - 1 : \E k \in 1 .. m : s[k] = GroupOf(count, g, n)
         /\ \A j, k \in 1 .. m : j < k => Before(s[k], s[j])
<1> DEFINE f == [g \in 0 .. m - 1 |-> GroupOf(count, g, n)]
           S == {GroupOf(count, g, n) : g \in 0 .. m - 1}
<1>1. blocks \in Nat \ {0} /\ count \in [0 .. blocks - 1 -> Nat]
  BY DEF IsCount
<1>2. m \in Nat \ {0} /\ n \in Nat \ {0}
  <2>1. n \in Nat \ {0}
    BY <1>1, PagesInGroup
  <2>2. MaxGroups \in Nat \ {0}
    BY HotAssumption DEF HotAssumption
  <2>3. m \in {1, MaxGroups}
    BY DEF numBlockGroup
  <2> QED BY <2>1, <2>2, <2>3
<1>3. s = Descending(S)
  <2>1. Cardinality(DOMAIN count) = blocks
    BY CountDomain
  <2> QED BY <2>1, Zenon DEF Groups, GroupOf, GroupStart
<1>4. \A g \in 0 .. m - 1 : GroupOf(count, g, n) \in Int \X Int
  <2> SUFFICES ASSUME NEW g \in 0 .. m - 1 PROVE GroupOf(count, g, n) \in Int \X Int
    OBVIOUS
  <2>1. Sum(count, g * n .. g * n + n - 1) \in Nat
    BY <1>1, SumOfBlocks
  <2>2. g * n \in Int
    BY <1>2
  <2> QED BY <2>1, <2>2 DEF GroupOf
<1>5. ASSUME NEW g \in 0 .. m - 1, NEW h \in 0 .. m - 1, f[g] = f[h] PROVE g = h
  <2>1. g * n = h * n
    BY <1>5 DEF GroupOf
  <2>2. \A a, b \in Nat : a * n = b * n => a = b
    <3> SUFFICES ASSUME NEW a \in Nat, NEW b \in Nat, a * n = b * n PROVE a = b
      OBVIOUS
    <3>1. (a - b) * n = a * n - b * n /\ a * n \in Int
      BY <1>2
    <3>2. (a - b) * n = 0
      BY <3>1
    <3> QED BY <1>2, <3>2
  <2> QED BY <2>1, <2>2
<1>6. IsFiniteSet(S) /\ Cardinality(S) = m
  <2>1. f \in Surjection(0 .. m - 1, S)
    BY DEF Surjection
  <2>2. f \in Bijection(0 .. m - 1, S)
    <3> HIDE DEF f, S
    <3> QED BY <1>5, <2>1 DEF Bijection, Injection, Surjection, IsInjective
  <2>3. ExistsBijection(0 .. m - 1, S)
    BY <2>2 DEF ExistsBijection
  <2>4. 0 \in Int /\ m - 1 \in Int
    BY <1>2
  <2>5. IsFiniteSet(0 .. m - 1) /\ Cardinality(0 .. m - 1) = IF 0 > m - 1 THEN 0 ELSE (m - 1) - 0 + 1
    BY <2>4, FS_Interval
  <2>6. Cardinality(0 .. m - 1) = m
    BY <1>2, <2>5
  <2> HIDE DEF S
  <2> QED BY <2>3, <2>5, <2>6, FS_Bijection
<1>7. /\ Len(s) = m /\ DOMAIN s = 1 .. m
      /\ \A k \in 1 .. m : s[k] \in S
      /\ \A x \in S : \E k \in 1 .. m : s[k] = x
      /\ \A j, k \in 1 .. m : j < k => Before(s[k], s[j])
  <2>1. S \subseteq Int \X Int
    BY <1>4
  <2> HIDE DEF S
  <2>2. /\ Len(s) = Cardinality(S) /\ DOMAIN s = 1 .. Cardinality(S)
        /\ \A k \in DOMAIN s : s[k] \in S
        /\ \A x \in S : \E k \in DOMAIN s : s[k] = x
        /\ \A j, k \in DOMAIN s : j < k => Before(s[k], s[j])
    BY <1>3, <1>6, <2>1, DescendingFacts
  <2> QED BY <1>6, <2>2, Zenon
<1> QED BY <1>2, <1>7

\* Products of naturals.
LEMMA TimesNat ==
  ASSUME NEW a \in Nat, NEW b \in Nat
  PROVE  a * b \in Nat /\ a * b = b * a
  OBVIOUS

\* A function on 1 .. n as a sequence.
LEMMA FunctionIsSeq ==
  ASSUME NEW n \in Nat, NEW S, NEW f \in [1 .. n -> S]
  PROVE  f \in Seq(S) /\ Len(f) = n /\ DOMAIN f = 1 .. n
<1>1. f \in Seq(S) /\ DOMAIN f = 1 .. n
  OBVIOUS
<1> QED BY <1>1

\* What the two best groups are, and where they start.
LEMMA TwoBest ==
  ASSUME NEW blocks, NEW count, IsCount(count, blocks), MaxGroups < blocks,
         NEW runs, runs = TwoGroups(count)
  PROVE  /\ runs \in Seq(Int \X Int) /\ Len(runs) = 2 /\ DOMAIN runs = 1 .. 2
         /\ \A k \in 1 .. 2 : runs[k][1] \in 0 .. blocks - 1
         /\ runs[1][1] # runs[2][1]
         /\ LeftOut(count) = {} =>
              \A k \in 1 .. 2 : Sum(count, runs[k][1] .. runs[k][1] + runs[k][2] - 1) > 0
<1> DEFINE n == numPagesInGroup(blocks)
           m == numBlockGroup(blocks)
           s == Groups(count)
           G(g) == GroupOf(count, g, n)
<1>1. /\ Len(s) = m /\ m \in Nat \ {0} /\ n \in Nat \ {0}
      /\ DOMAIN s = 1 .. m
      /\ \A k \in 1 .. m : \E g \in 0 .. m - 1 : s[k] = G(g)
      /\ \A g \in 0 .. m - 1 : \E k \in 1 .. m : s[k] = G(g)
      /\ \A j, k \in 1 .. m : j < k => Before(s[k], s[j])
  BY GroupFacts
<1>2. /\ blocks \in Nat \ {0} /\ count \in [0 .. blocks - 1 -> Nat]
      /\ count[0] > 0 /\ count[blocks - 1] > 0
  BY DEF IsCount
<1>3. MaxGroups \in Nat /\ MaxGroups > 1 /\ m = MaxGroups
  <2>1. MaxGroups \in Nat /\ MaxGroups > 1
    BY HotAssumption DEF HotAssumption
  <2>2. ~(blocks <= MaxGroups)
    BY <1>2, <2>1
  <2> QED BY <2>1, <2>2 DEF numBlockGroup
<1>4. n < blocks
  BY <1>2, SecondGroup
<1>5. Cardinality(DOMAIN count) = blocks /\ DOMAIN count = 0 .. blocks - 1
  BY CountDomain
<1>6. runs = [c \in 1 .. Min({2, Len(s)}) |-> <<s[c][2], n>>]
  BY <1>5, Zenon DEF TwoGroups
<1>7. runs = [c \in 1 .. 2 |-> <<s[c][2], n>>]
  <2>1. Min({2, Len(s)}) = 2
    BY <1>1, <1>3, MinOfTwo
  <2> QED BY <1>6, <2>1
<1>8. \A k \in 1 .. 2 : runs[k] = <<s[k][2], n>>
  BY <1>7
<1>9. \A g \in Nat : G(g) = <<Sum(count, g * n .. g * n + n - 1), g * n>>
  BY DEF GroupOf
<1> HIDE DEF n, m, s, G
<1>10. PICK p \in [1 .. m -> 0 .. m - 1] : \A k \in 1 .. m : s[k] = G(p[k])
  <2> DEFINE p == [k \in 1 .. m |-> CHOOSE g \in 0 .. m - 1 : s[k] = G(g)]
  <2>1. \A k \in 1 .. m : p[k] \in 0 .. m - 1 /\ s[k] = G(p[k])
    BY <1>1
  <2>2. p \in [1 .. m -> 0 .. m - 1]
    BY <2>1
  <2> HIDE DEF p
  <2> QED BY <2>1, <2>2
<1>11. 1 \in 1 .. m /\ 2 \in 1 .. m
  BY <1>3
<1> DEFINE Total(k) == Sum(count, p[k] * n .. p[k] * n + n - 1)
<1>12. ASSUME NEW k \in 1 .. m
       PROVE  /\ s[k] = <<Total(k), p[k] * n>> /\ s[k][1] = Total(k) /\ s[k][2] = p[k] * n
              /\ p[k] \in Nat /\ p[k] <= m - 1 /\ p[k] * n \in Nat /\ Total(k) \in Nat
              /\ Total(k) > 0 => p[k] * n \in 0 .. blocks - 1
  <2>1. p[k] \in 0 .. m - 1
    BY <1>10
  <2>2. p[k] \in Nat /\ p[k] <= m - 1
    BY <1>1, <2>1
  <2>3. s[k] = <<Total(k), p[k] * n>>
    BY <1>9, <1>10, <2>2
  <2>4. p[k] * n \in Nat
    BY <1>1, <2>2, TimesNat
  <2>5. /\ Total(k) \in Nat
        /\ Total(k) > 0 => (p[k] * n .. p[k] * n + n - 1) \cap (0 .. blocks - 1) # {}
    BY <1>2, SumOfBlocks
  <2>6. Total(k) > 0 => p[k] * n \in 0 .. blocks - 1
    BY <1>1, <1>2, <2>4, <2>5
  <2> QED BY <2>2, <2>3, <2>4, <2>5, <2>6
<1>13. \A j, k \in 1 .. m : j < k => Total(k) <= Total(j)
  <2> SUFFICES ASSUME NEW j \in 1 .. m, NEW k \in 1 .. m, j < k PROVE Total(k) <= Total(j)
    OBVIOUS
  <2>1. Before(s[k], s[j])
    BY <1>1
  <2>2. s[k][1] = Total(k) /\ s[j][1] = Total(j) /\ Total(k) \in Nat /\ Total(j) \in Nat
    BY <1>12
  <2> HIDE DEF Total
  <2> QED BY <2>1, <2>2 DEF Before
<1>14. p[1] * n # p[2] * n
  <2>1. Before(s[2], s[1])
    BY <1>1, <1>11
  <2>2. s[1] # s[2]
    <3>1. s[1][1] \in Nat /\ s[1][2] \in Nat
      BY <1>11, <1>12
    <3> QED BY <2>1, <3>1 DEF Before
  <2>3. s[1] = G(p[1]) /\ s[2] = G(p[2])
    BY <1>10, <1>11
  <2> SUFFICES ASSUME p[1] * n = p[2] * n PROVE FALSE
    OBVIOUS
  <2>4. Total(1) = Total(2)
    OBVIOUS
  <2>5. s[1] = <<Total(1), p[1] * n>> /\ s[2] = <<Total(2), p[2] * n>>
    BY <1>11, <1>12
  <2> HIDE DEF Total
  <2> QED BY <2>2, <2>4, <2>5
<1>15. ASSUME LeftOut(count) = {} PROVE Total(1) > 0 /\ Total(2) > 0
  <2>1. ASSUME NEW b \in 0 .. blocks - 1, count[b] > 0, NEW g \in 0 .. m - 1,
               g * n <= b, b <= g * n + n - 1
        PROVE  \E k \in 1 .. m : p[k] * n = g * n /\ Total(k) > 0
    <3>1. PICK k \in 1 .. m : s[k] = G(g)
      BY <1>1
    <3>2. g \in Nat /\ g * n \in Int
      BY <1>1
    <3> DEFINE R == g * n .. g * n + n - 1
    <3>3. s[k] = <<Sum(count, R), g * n>>
      BY <1>9, <3>1, <3>2
    <3>4. p[k] * n = g * n /\ Total(k) = Sum(count, R)
      BY <1>12, <3>3
    <3>5. Sum(count, R) \in Nat /\ \A x \in R \cap (0 .. blocks - 1) : count[x] <= Sum(count, R)
      BY <1>2, SumOfBlocks
    <3>6. b \in R \cap (0 .. blocks - 1) /\ count[b] \in Nat
      BY <1>1, <1>2, <2>1, <3>2
    <3>7. count[b] <= Sum(count, R)
      BY <3>5, <3>6
    <3> HIDE DEF R, Total
    <3>8. Sum(count, R) > 0
      BY <2>1, <3>5, <3>6, <3>7
    <3> QED BY <3>4, <3>8
  <2>2. PICK i \in 1 .. m : p[i] * n = 0 * n /\ Total(i) > 0
    <3>1. 0 \in 0 .. m - 1 /\ 0 * n <= 0 /\ 0 <= 0 * n + n - 1 /\ 0 \in 0 .. blocks - 1
      BY <1>1, <1>2
    <3> HIDE DEF Total
    <3> QED BY <1>2, <2>1, <3>1
  <2> DEFINE q == (blocks - 1) \div n
  <2>3. q \in 0 .. m - 1 /\ q * n <= blocks - 1 /\ blocks - 1 <= q * n + n - 1 /\ q # 0
    <3>1. blocks - 1 \in Nat
      BY <1>2
    <3>2. q \in Nat /\ n * q <= blocks - 1 /\ blocks - 1 < n * q + n
      BY <1>1, <3>1, Quotient
    <3> HIDE DEF q
    <3>3. n * q = q * n /\ q * n \in Int
      BY <1>1, <3>2
    <3>4. q # 0
      BY <1>1, <1>2, <1>4, <3>2
    <3>5. blocks <= m * n
      <4>1. LeftOut(count) = {b \in DOMAIN count : b >= m * n}
        BY <1>5, Zenon DEF LeftOut, m, n
      <4>2. ~(blocks - 1 >= m * n)
        BY <1>2, <1>5, <1>15, <4>1
      <4>3. m * n \in Int
        BY <1>1
      <4> QED BY <1>2, <4>2, <4>3
    <3>6. q <= m - 1
      <4> SUFFICES ASSUME m <= q PROVE FALSE
        BY <1>1, <3>2
      <4>1. n * m <= n * q
        BY <1>1, <3>2, TimesMonotonic
      <4>2. n * m = m * n /\ m * n \in Int /\ n * q \in Int
        BY <1>1, <3>2
      <4> QED BY <1>2, <3>2, <3>5, <4>1, <4>2
    <3> QED BY <1>1, <1>2, <3>2, <3>3, <3>4, <3>6
  <2> HIDE DEF q
  <2>4. PICK j \in 1 .. m : p[j] * n = q * n /\ Total(j) > 0
    <3>1. blocks - 1 \in 0 .. blocks - 1
      BY <1>2
    <3> HIDE DEF Total
    <3> QED BY <1>2, <2>1, <2>3, <3>1
  <2>5. i # j
    <3> SUFFICES ASSUME i = j PROVE FALSE
      OBVIOUS
    <3>1. q * n = 0
      BY <1>1, <2>2, <2>4
    <3>2. q >= 1 /\ n * 1 <= n * q
      BY <1>1, <2>3, TimesMonotonic
    <3>3. n * q = q * n
      BY <1>1, <2>3
    <3> QED BY <1>1, <3>1, <3>2, <3>3
  <2>6. ASSUME NEW k \in 1 .. 2, NEW l \in 1 .. m, k <= l, Total(l) > 0 PROVE Total(k) > 0
    <3>1. k \in 1 .. m
      BY <1>11
    <3>2. Total(k) \in Nat /\ Total(l) \in Nat
      BY <1>12, <3>1
    <3>3. k = l \/ Total(l) <= Total(k)
      BY <1>13, <2>6, <3>1
    <3> HIDE DEF Total
    <3> QED BY <2>6, <3>2, <3>3
  <2>7. 2 <= i \/ 2 <= j
    BY <2>5
  <2> HIDE DEF Total
  <2>8. Total(2) > 0
    BY <2>2, <2>4, <2>6, <2>7
  <2> QED BY <1>11, <2>6, <2>8
<1>16. \A k \in 1 .. 2 : runs[k][1] = p[k] * n /\ runs[k][2] = n /\ runs[k] = <<p[k] * n, n>>
  BY <1>8, <1>11, <1>12
<1>17. \A k \in 1 .. 2 : runs[k][1] \in 0 .. blocks - 1
  <2>1. CASE LeftOut(count) = {}
    BY <1>11, <1>12, <1>15, <1>16, <2>1
  <2>2. CASE LeftOut(count) # {}
    <3>1. LeftOut(count) = {b \in DOMAIN count : b >= m * n}
      BY <1>5, Zenon DEF LeftOut, m, n
    <3>2. PICK b \in 0 .. blocks - 1 : b >= m * n
      BY <1>5, <2>2, <3>1
    <3>3. ASSUME NEW k \in 1 .. 2 PROVE p[k] * n \in 0 .. blocks - 1
      <4>0. k \in 1 .. m
        BY <1>11
      <4>1. p[k] \in Nat /\ p[k] <= m - 1 /\ p[k] * n \in Nat
        BY <1>12, <4>0
      <4>2. n * p[k] <= n * m
        <5>0. n \in Nat /\ m \in Nat
          BY <1>1
        <5>1. p[k] \in Int /\ m \in Int /\ p[k] <= m /\ n \in Nat
          BY <4>1, <5>0
        <5> QED BY <5>1, TimesMonotonic
      <4>3. n * p[k] = p[k] * n /\ n * m = m * n /\ m * n \in Nat
        BY <1>1, <4>1, TimesNat
      <4> QED BY <1>2, <3>2, <4>1, <4>2, <4>3
    <3> QED BY <1>16, <3>3
  <2> QED BY <2>1, <2>2
<1>18. runs \in Seq(Int \X Int) /\ Len(runs) = 2 /\ DOMAIN runs = 1 .. 2
  <2>1. ASSUME NEW k \in 1 .. 2 PROVE runs[k] \in Int \X Int
    <3>1. k \in 1 .. m
      BY <1>11
    <3>2. p[k] * n \in Nat
      BY <1>12, <3>1
    <3>3. n \in Nat
      BY <1>1
    <3>4. runs[k] = <<p[k] * n, n>>
      BY <1>16
    <3> QED BY <3>2, <3>3, <3>4
  <2>2. runs = [c \in 1 .. 2 |-> runs[c]]
    BY <1>7
  <2>3. runs \in [1 .. 2 -> Int \X Int]
    BY <2>1, <2>2
  <2> QED BY <2>3, 2 \in Nat, FunctionIsSeq
<1>19. runs[1][1] # runs[2][1]
  BY <1>14, <1>16
<1>20. LeftOut(count) = {} =>
         \A k \in 1 .. 2 : Sum(count, runs[k][1] .. runs[k][1] + runs[k][2] - 1) > 0
  BY <1>15, <1>16
<1> QED BY <1>17, <1>18, <1>19, <1>20

\* What a range is taken apart into.
LEMMA ChildrenFacts ==
  ASSUME NEW blocks, NEW count, IsCount(count, blocks), NEW runs, runs = Children(count)
  PROVE  /\ runs \in Seq(Int \X Int)
         /\ \A k \in DOMAIN runs : runs[k][1] \in 0 .. blocks - 1
         /\ \A j, k \in DOMAIN runs : j # k => runs[j][1] # runs[k][1]
         /\ HotRuns(count) = << >> => Len(runs) = 2
         /\ LeftOut(count) = {} =>
              \A k \in DOMAIN runs : Sum(count, runs[k][1] .. runs[k][1] + runs[k][2] - 1) > 0
<1> DEFINE S == {run \in Runs(count) : IsHot(run, count)}
           h == HotRuns(count)
<1>1. IsFiniteSet(S) /\ S \subseteq Int \X Int /\ \A x, y \in S : x[1] = y[1] => x = y
  <2>1. /\ IsFiniteSet(Runs(count)) /\ Runs(count) \subseteq Int \X Int
        /\ \A x, y \in Runs(count) : x[1] = y[1] => x = y
    BY RunsFinite
  <2>2. S \in SUBSET Runs(count)
    OBVIOUS
  <2> HIDE DEF S
  <2>3. IsFiniteSet(S)
    BY <2>1, <2>2, FS_Subset
  <2> QED BY <2>1, <2>2, <2>3
<1>2. h = Ascending(S)
  BY DEF HotRuns
<1>3. \A x \in S : /\ x[1] \in 0 .. blocks - 1
                   /\ Sum(count, x[1] .. x[1] + x[2] - 1) > 0
  BY RunFacts
<1>4. S = {} => MaxGroups < blocks
  <2> SUFFICES ASSUME S = {} PROVE MaxGroups < blocks
    OBVIOUS
  <2>1. ~(\E run \in Runs(count) : IsHot(run, count))
    OBVIOUS
  <2>2. ~(blocks <= MaxGroups)
    BY <2>1, SomeRunHot
  <2>3. blocks \in Nat /\ MaxGroups \in Nat
    BY HotAssumption DEF HotAssumption, IsCount
  <2> QED BY <2>2, <2>3
<1> HIDE DEF S, h
<1>5. /\ h \in Seq(S) /\ Len(h) = Cardinality(S)
      /\ DOMAIN h = 1 .. Cardinality(S)
      /\ \A k \in DOMAIN h : h[k] \in S
      /\ \A j, k \in DOMAIN h : j < k => Before(h[j], h[k])
  BY <1>1, <1>2, AscendingFacts
<1>6. h = << >> => S = {}
  <2>1. h = << >> => Cardinality(S) = 0
    BY <1>5
  <2> QED BY <1>1, <2>1, FS_EmptySet
<1>7. CASE h = << >>
  <2>1. runs = TwoGroups(count)
    BY <1>7 DEF Children, h
  <2>2. MaxGroups < blocks
    BY <1>4, <1>6, <1>7
  <2>3. /\ runs \in Seq(Int \X Int) /\ Len(runs) = 2 /\ DOMAIN runs = 1 .. 2
        /\ \A k \in 1 .. 2 : runs[k][1] \in 0 .. blocks - 1
        /\ runs[1][1] # runs[2][1]
        /\ LeftOut(count) = {} =>
             \A k \in 1 .. 2 : Sum(count, runs[k][1] .. runs[k][1] + runs[k][2] - 1) > 0
    BY <2>1, <2>2, TwoBest
  <2>4. \A j, k \in 1 .. 2 : j # k => runs[j][1] # runs[k][1]
    <3>1. \A j, k \in 1 .. 2 : j # k => (j = 1 /\ k = 2) \/ (j = 2 /\ k = 1)
      OBVIOUS
    <3> QED BY <2>3, <3>1
  <2>5. \A j, k \in DOMAIN runs : j # k => runs[j][1] # runs[k][1]
    BY <2>3, <2>4
  <2>6. \A k \in DOMAIN runs : runs[k][1] \in 0 .. blocks - 1
    BY <2>3
  <2> QED BY <2>3, <2>5, <2>6, Zenon
<1>8. CASE h # << >>
  <2>1. runs = h
    BY <1>8 DEF Children, h
  <2>2. h \in Seq(Int \X Int)
    <3>1. Len(h) \in Nat /\ DOMAIN h = 1 .. Len(h) /\ \A k \in 1 .. Len(h) : h[k] \in Int \X Int
      BY <1>1, <1>5
    <3>2. h = [k \in 1 .. Len(h) |-> h[k]]
      BY <1>5
    <3>3. h \in [1 .. Len(h) -> Int \X Int]
      BY <3>1, <3>2
    <3> QED BY <3>1, <3>3, FunctionIsSeq
  <2>3. ASSUME NEW j \in DOMAIN h, NEW k \in DOMAIN h, j # k PROVE h[j][1] # h[k][1]
    <3>1. j \in Nat /\ k \in Nat
      BY <1>5
    <3>2. j < k \/ k < j
      BY <2>3, <3>1
    <3>3. Before(h[j], h[k]) \/ Before(h[k], h[j])
      BY <1>5, <3>2
    <3>4. h[j] \in S /\ h[k] \in S
      BY <1>5
    <3>5. h[j] # h[k]
      BY <1>1, <3>3, <3>4, BeforeIsOrder
    <3> QED BY <1>1, <3>4, <3>5
  <2>4. h # << >> /\ HotRuns(count) = h
    BY <1>8 DEF h
  <2> QED BY <1>3, <1>5, <2>1, <2>2, <2>3, <2>4, Zenon
<1> QED BY <1>7, <1>8

\* ... each in a range of its own.
LEMMA BlockStart ==
  ASSUME NEW r \in Nat \X Nat, r[1] < r[2], NEW b \in 0 .. BlockCount(r) - 1
  PROVE  OSPageSize * b \in Nat /\ r[1] + OSPageSize * b \in r[1] .. r[2]
<1>1. /\ BlockCount(r) \in Nat \ {0}
      /\ OSPageSize * (BlockCount(r) - 1) < r[2] - r[1]
  BY BlockCountFacts
<1>2. OSPageSize \in Nat /\ b \in Nat /\ b <= BlockCount(r) - 1 /\ r[1] \in Nat /\ r[2] \in Nat
  BY <1>1, HotAssumption DEF HotAssumption
<1>3. OSPageSize * b <= OSPageSize * (BlockCount(r) - 1) /\ OSPageSize * (BlockCount(r) - 1) \in Int
  <2>1. BlockCount(r) - 1 \in Int /\ b \in Int
    BY <1>1, <1>2
  <2> QED BY <1>2, <2>1, TimesMonotonic
<1>4. OSPageSize * b \in Nat
  BY <1>2, TimesNat
<1> QED BY <1>1, <1>2, <1>3, <1>4

\* No two blocks start at one address.
LEMMA BlockStartsApart ==
  ASSUME NEW a \in Nat, NEW b \in Nat, OSPageSize * a = OSPageSize * b
  PROVE  a = b
<1>1. OSPageSize \in Nat \ {0}
  BY HotAssumption DEF HotAssumption
<1>2. OSPageSize * (a - b) = OSPageSize * a - OSPageSize * b /\ OSPageSize * a \in Int
  BY <1>1
<1>3. OSPageSize * (a - b) = 0
  BY <1>2
<1> QED BY <1>1, <1>3

-----------------------------------------------------------------------------
(* The ranges of the hot instructions.                                     *)

\* Joined ranges start and end where some of them do.
LEMMA CoalescedFacts ==
  ASSUME NEW A, A \subseteq Nat, IsFiniteSet(A), A # {},
         NEW ranges, \A r \in ranges : r \in A \X A
  PROVE  /\ IsFiniteSet(Coalesced(ranges))
         /\ \A r \in Coalesced(ranges) : r \in A \X A /\ r[1] < r[2]
<1> DEFINE X == UNION {r[1] + 1 .. r[2] - 1 : r \in ranges}
<1>1. PICK N \in A : \A a \in A : a <= N
  BY FiniteGreatest
<1>2. N \in Nat /\ \A r \in ranges : r[1] \in A /\ r[2] \in A /\ r[1] \in Nat /\ r[2] \in Nat /\ r[2] <= N
  <2>1. N \in Nat
    OBVIOUS
  <2>2. \A r \in ranges : r[1] \in A /\ r[2] \in A
    OBVIOUS
  <2> QED BY <1>1, <2>1, <2>2
<1>3. X \subseteq 0 .. N
  <2> SUFFICES ASSUME NEW x \in X PROVE x \in 0 .. N
    OBVIOUS
  <2>1. PICK r \in ranges : x \in r[1] + 1 .. r[2] - 1
    OBVIOUS
  <2>2. r[1] \in Nat /\ r[2] \in Nat /\ r[2] <= N
    BY <1>2
  <2> QED BY <1>2, <2>1, <2>2
<1>4. Coalesced(ranges) = {<<c[1] - 1, c[2] + 1>> : c \in Intervals(X)}
  BY DEF Coalesced
<1>5. ASSUME NEW c \in Intervals(X)
      PROVE  c[1] - 1 \in A /\ c[2] + 1 \in A /\ c[1] - 1 < c[2] + 1
  <2>1. /\ c[1] \in X /\ c[2] \in X /\ c[1] \in Nat /\ c[2] \in Nat /\ c[1] <= c[2]
        /\ c[1] - 1 \notin X /\ c[2] + 1 \notin X
    <3>1. X \subseteq Nat
      BY <1>2, <1>3
    <3> HIDE DEF X
    <3> QED BY <3>1, IntervalParts
  <2>2. PICK r \in ranges : c[1] \in r[1] + 1 .. r[2] - 1
    BY <2>1
  <2>3. c[1] - 1 \notin r[1] + 1 .. r[2] - 1
    BY <2>1
  <2>4. r[1] \in A /\ r[1] \in Nat /\ r[2] \in Nat
    BY <1>2
  <2>5. c[1] - 1 = r[1]
    BY <2>1, <2>2, <2>3, <2>4
  <2>6. PICK q \in ranges : c[2] \in q[1] + 1 .. q[2] - 1
    BY <2>1
  <2>7. c[2] + 1 \notin q[1] + 1 .. q[2] - 1
    BY <2>1
  <2>8. q[2] \in A /\ q[1] \in Nat /\ q[2] \in Nat
    BY <1>2
  <2>9. c[2] + 1 = q[2]
    BY <2>1, <2>6, <2>7, <2>8
  <2> QED BY <2>1, <2>4, <2>5, <2>8, <2>9
<1>6. \A r \in Coalesced(ranges) : r \in A \X A /\ r[1] < r[2]
  <2> SUFFICES ASSUME NEW r \in Coalesced(ranges) PROVE r \in A \X A /\ r[1] < r[2]
    OBVIOUS
  <2>1. PICK c \in Intervals(X) : r = <<c[1] - 1, c[2] + 1>>
    BY <1>4
  <2>2. c[1] - 1 \in A /\ c[2] + 1 \in A /\ c[1] - 1 < c[2] + 1
    BY <1>5
  <2> HIDE DEF X
  <2> QED BY <2>1, <2>2
<1>7. IsFiniteSet(A \X A)
  BY FS_Product
<1>8. Coalesced(ranges) \in SUBSET (A \X A)
  BY <1>6
<1> QED BY <1>6, <1>7, <1>8, FS_Subset

-----------------------------------------------------------------------------
(* The list of regions and the list of their addresses.                    *)

AnyRegion == [min : Nat, max : Int, strID : Seq(Int)]

\* The two lists have the same addresses.
SameAddrs(list, addrs) ==
  /\ Len(list) = Len(addrs)
  /\ \A j \in DOMAIN list : \E k \in DOMAIN addrs : addrs[k] = Addrs(list[j])
  /\ \A k \in DOMAIN addrs : \E j \in DOMAIN list : addrs[k] = Addrs(list[j])

\* The addresses of a region.
LEMMA AddrsOf ==
  ASSUME NEW x \in AnyRegion
  PROVE  /\ Addrs(x) \in Int \X Int /\ Addrs(x)[1] = x.min
         /\ x.min \in Nat /\ x.max \in Int
  BY DEF AnyRegion, Addrs

\* As many regions as addresses: none of the addresses is there twice.
LEMMA AddrsDistinct ==
  ASSUME NEW list \in Seq(AnyRegion), NEW addrs \in Seq(Int \X Int),
         SameAddrs(list, addrs), StartsApart(list),
         NEW j \in DOMAIN addrs, NEW k \in DOMAIN addrs, addrs[j][1] = addrs[k][1]
  PROVE  j = k
<1> DEFINE n == Len(list)
<1>1. n \in Nat /\ DOMAIN list = 1 .. n /\ DOMAIN addrs = 1 .. n
  BY DEF SameAddrs
<1>2. \A i \in 1 .. n : list[i] \in AnyRegion
  OBVIOUS
<1> DEFINE f == [i \in 1 .. n |-> CHOOSE l \in 1 .. n : addrs[l] = Addrs(list[i])]
<1>3. \A i \in 1 .. n : f[i] \in 1 .. n /\ addrs[f[i]] = Addrs(list[i])
  BY <1>1 DEF SameAddrs
<1>4. f \in [1 .. n -> 1 .. n]
  BY <1>3
<1> HIDE DEF f, n
<1>5. \A i \in 1 .. n : addrs[f[i]][1] = list[i].min
  BY <1>2, <1>3, AddrsOf
<1>6. \A h, i \in 1 .. n : f[h] = f[i] => h = i
  <2> SUFFICES ASSUME NEW h \in 1 .. n, NEW i \in 1 .. n, f[h] = f[i] PROVE h = i
    OBVIOUS
  <2>1. list[h].min = list[i].min
    BY <1>5
  <2> QED BY <1>1, <2>1 DEF StartsApart
<1>7. IsFiniteSet(1 .. n)
  BY <1>1, FS_Interval
<1>8. f \in Surjection(1 .. n, 1 .. n)
  <2>1. f \in Injection(1 .. n, 1 .. n)
    BY <1>4, <1>6 DEF Injection, IsInjective
  <2> QED BY <1>7, <2>1, FS_Injection
<1>9. PICK h \in 1 .. n : f[h] = j
  BY <1>1, <1>8 DEF Surjection
<1>10. PICK i \in 1 .. n : f[i] = k
  BY <1>1, <1>8 DEF Surjection
<1>11. list[h].min = list[i].min
  BY <1>5, <1>9, <1>10
<1>12. h = i
  BY <1>1, <1>11 DEF StartsApart
<1> QED BY <1>9, <1>10, <1>12

\* For each address there is one region, and they come in order.
LEMMA SelectFacts ==
  ASSUME NEW list \in Seq(AnyRegion), NEW addrs \in Seq(Int \X Int),
         SameAddrs(list, addrs), StartsApart(list), NamesApart(list),
         NEW t, t = Sorted(addrs),
         NEW found, found = Ascending({x \in (DOMAIN t) \X (DOMAIN list) :
                                         Addrs(list[x[2]]) = t[x[1]]})
  PROVE  /\ t \in Seq(Int \X Int) /\ DOMAIN found = DOMAIN t
         /\ \A k \in DOMAIN t :
              found[k][2] \in DOMAIN list /\ Addrs(list[found[k][2]]) = t[k]
         /\ \A j, k \in DOMAIN t : j < k =>
              /\ list[found[j][2]].min < list[found[k][2]].min
              /\ list[found[j][2]].strID # list[found[k][2]].strID
<1> DEFINE n == Len(list)
           S == {x \in (DOMAIN t) \X (DOMAIN list) : Addrs(list[x[2]]) = t[x[1]]}
<1>1. n \in Nat /\ DOMAIN list = 1 .. n /\ DOMAIN addrs = 1 .. n /\ Len(addrs) = n
  BY DEF SameAddrs
<1>2. /\ t \in Seq(Int \X Int) /\ Len(t) = Len(addrs)
      /\ \E p \in Bijection(DOMAIN addrs, DOMAIN addrs) : \A k \in DOMAIN addrs : t[k] = addrs[p[k]]
      /\ \A j, k \in DOMAIN t : j < k => Before(t[j], t[k]) \/ t[j] = t[k]
  BY SortedFacts
<1>3. DOMAIN t = 1 .. n
  BY <1>1, <1>2
<1> HIDE DEF n
<1>4. PICK p \in [1 .. n -> 1 .. n] :
         /\ \A j, k \in 1 .. n : p[j] = p[k] => j = k
         /\ \A k \in 1 .. n : t[k] = addrs[p[k]]
  <2>0. DOMAIN addrs = 1 .. n
    BY <1>1
  <2>1. PICK p \in Bijection(DOMAIN addrs, DOMAIN addrs) :
           \A k \in DOMAIN addrs : t[k] = addrs[p[k]]
    BY <1>2
  <2>2. p \in [1 .. n -> 1 .. n] /\ \A j, k \in 1 .. n : p[j] = p[k] => j = k
    BY <2>0 DEF Bijection, Injection, IsInjective
  <2> QED BY <2>0, <2>1, <2>2, Zenon
<1>5. \A i \in 1 .. n : list[i] \in AnyRegion
  BY <1>1
<1>6. \A j, k \in 1 .. n : j < k => t[j][1] < t[k][1]
  <2> SUFFICES ASSUME NEW j \in 1 .. n, NEW k \in 1 .. n, j < k PROVE t[j][1] < t[k][1]
    OBVIOUS
  <2>1. t[j][1] # t[k][1]
    <3> SUFFICES ASSUME t[j][1] = t[k][1] PROVE FALSE
      OBVIOUS
    <3>1. p[j] \in 1 .. n /\ p[k] \in 1 .. n /\ addrs[p[j]][1] = addrs[p[k]][1]
      BY <1>4
    <3>2. p[j] = p[k]
      BY <1>1, <3>1, AddrsDistinct
    <3> QED BY <1>1, <1>4, <3>2
  <2>2. Before(t[j], t[k]) \/ t[j] = t[k]
    BY <1>2, <1>3
  <2> QED BY <2>1, <2>2 DEF Before
<1> DEFINE g == [k \in 1 .. n |-> CHOOSE i \in 1 .. n : Addrs(list[i]) = t[k]]
<1>7. \A k \in 1 .. n : g[k] \in 1 .. n /\ Addrs(list[g[k]]) = t[k]
  <2> SUFFICES ASSUME NEW k \in 1 .. n PROVE \E i \in 1 .. n : Addrs(list[i]) = t[k]
    OBVIOUS
  <2>1. p[k] \in DOMAIN addrs
    BY <1>1, <1>4
  <2>2. PICK i \in DOMAIN list : addrs[p[k]] = Addrs(list[i])
    BY <2>1 DEF SameAddrs
  <2> QED BY <1>1, <1>4, <2>2
<1> HIDE DEF g
<1>8. \A k \in 1 .. n : list[g[k]].min = t[k][1]
  BY <1>5, <1>7, AddrsOf
<1>9. ASSUME NEW k \in 1 .. n, NEW i \in 1 .. n, Addrs(list[i]) = t[k] PROVE i = g[k]
  <2>1. list[i].min = t[k][1]
    BY <1>5, <1>9, AddrsOf
  <2>2. list[i].min = list[g[k]].min /\ g[k] \in 1 .. n
    BY <1>7, <1>8, <2>1
  <2> QED BY <1>1, <2>2 DEF StartsApart
<1> DEFINE f == [k \in 1 .. n |-> <<k, g[k]>>]
<1>10. f \in [1 .. n -> S]
  <2>1. ASSUME NEW k \in 1 .. n PROVE <<k, g[k]>> \in S
    BY <1>1, <1>3, <1>7
  <2> HIDE DEF S
  <2> QED BY <2>1
<1>11. \A x \in S : \E k \in 1 .. n : f[k] = x
  <2> SUFFICES ASSUME NEW x \in S PROVE \E k \in 1 .. n : f[k] = x
    OBVIOUS
  <2>1. x = <<x[1], x[2]>> /\ x[1] \in 1 .. n /\ x[2] \in 1 .. n /\ Addrs(list[x[2]]) = t[x[1]]
    BY <1>1, <1>3
  <2>2. x[2] = g[x[1]]
    BY <1>9, <2>1
  <2> QED BY <2>1, <2>2
<1>12. \A j, k \in 1 .. n : j < k => Before(f[j], f[k])
  BY DEF Before
<1>13. S \subseteq Int \X Int
  BY <1>1, <1>3
<1>14. found = f
  <2>1. found = Ascending(S)
    OBVIOUS
  <2> HIDE DEF S, f
  <2>2. n \in Nat
    BY <1>1
  <2>3. Ascending(S) = f
    BY <1>10, <1>11, <1>12, <1>13, <2>2, InOrderAlready, ZenonT(60)
  <2> QED BY <2>1, <2>3, Zenon
<1>15. \A k \in 1 .. n : found[k][2] = g[k]
  BY <1>14
<1>16. DOMAIN found = 1 .. n
  BY <1>14
<1>17. ASSUME NEW j \in 1 .. n, NEW k \in 1 .. n, j < k
       PROVE  list[g[j]].min < list[g[k]].min /\ list[g[j]].strID # list[g[k]].strID
  <2>1. list[g[j]].min < list[g[k]].min
    BY <1>6, <1>8, <1>17
  <2>2. g[j] # g[k]
    <3>1. list[g[j]].min \in Nat /\ list[g[k]].min \in Nat
      BY <1>5, <1>7, AddrsOf
    <3> QED BY <2>1, <3>1
  <2>3. g[j] \in DOMAIN list /\ g[k] \in DOMAIN list
    BY <1>1, <1>7
  <2> QED BY <2>1, <2>2, <2>3 DEF NamesApart
<1>18. \A k \in DOMAIN t :
         found[k][2] \in DOMAIN list /\ Addrs(list[found[k][2]]) = t[k]
  BY <1>1, <1>3, <1>7, <1>15
<1>19. ASSUME NEW j \in DOMAIN t, NEW k \in DOMAIN t, j < k
       PROVE  /\ list[found[j][2]].min < list[found[k][2]].min
              /\ list[found[j][2]].strID # list[found[k][2]].strID
  <2>1. j \in 1 .. n /\ k \in 1 .. n /\ found[j][2] = g[j] /\ found[k][2] = g[k]
    BY <1>3, <1>15
  <2>2. list[g[j]].min < list[g[k]].min /\ list[g[j]].strID # list[g[k]].strID
    BY <1>17, <1>19, <2>1
  <2> QED BY <2>1, <2>2
<1> QED BY <1>2, <1>3, <1>16, <1>18, <1>19

-----------------------------------------------------------------------------
(* The counts of getTopInst.                                               *)

CountType ==
  /\ trace \in Seq(Line)
  /\ itr \in Nat
  /\ insMap \in [Insns -> Nat]
  /\ real \in [Insns -> Nat]
  /\ purged \in Nat

IInv == CountType /\ LossyCount

\* A product up to n has its other factor up to the quotient.
LEMMA FactorBound ==
  ASSUME NEW m \in Nat, NEW s \in Nat \ {0}, NEW n \in Nat, m * s <= n
  PROVE  m <= n \div s /\ n \div s \in Nat
<1> DEFINE q == n \div s
<1>1. q \in Nat /\ n < (q + 1) * s
  <2>1. /\ q \in Int /\ n % s \in 0 .. s - 1
        /\ n = s * q + (n % s)
    OBVIOUS
  <2>2. q >= 0
    OBVIOUS
  <2>3. (q + 1) * s = s * q + s
    BY <2>1
  <2> QED BY <2>1, <2>2, <2>3
<1>2. SUFFICES ASSUME m >= q + 1 PROVE FALSE
  BY <1>1
<1>3. m * s >= (q + 1) * s
  <2>1. m - (q + 1) \in Nat
    BY <1>1, <1>2
  <2>2. (m - (q + 1)) * s >= 0
    BY <2>1
  <2>3. (m - (q + 1)) * s = m * s - (q + 1) * s
    BY <1>1
  <2>4. m * s \in Int /\ (q + 1) * s \in Int
    BY <1>1
  <2> QED BY <2>2, <2>3, <2>4
<1>4. (q + 1) * s \in Int /\ m * s \in Int
  BY <1>1
<1> QED BY <1>1, <1>3, <1>4

\* A purge keeps a count or drops one of up to the purged share.
LEMMA PurgeBound ==
  ASSUME CountType, NEW i \in Insns
  PROVE  /\ Purge[i] \in Nat
         /\ Purge[i] <= insMap[i]
         /\ insMap[i] <= Purge[i] + (itr + 1) \div PurgeShare
         /\ (itr + 1) \div PurgeShare \in Nat
<1>1. PurgeShare \in Nat \ {0}
  BY HotAssumption DEF HotAssumption
<1>2. itr + 1 \in Nat /\ insMap[i] \in Nat
  BY DEF CountType
<1>3. 0 * PurgeShare <= itr + 1
  BY <1>1, <1>2
<1>4. (itr + 1) \div PurgeShare \in Nat
  BY <1>1, <1>2, <1>3, FactorBound
<1>5. CASE insMap[i] * PurgeShare <= itr + 1
  <2>1. Purge[i] = 0
    BY <1>5 DEF Purge, Without
  <2>2. insMap[i] <= (itr + 1) \div PurgeShare
    BY <1>1, <1>2, <1>5, FactorBound
  <2> QED BY <2>1, <2>2, <1>2, <1>4
<1>6. CASE ~(insMap[i] * PurgeShare <= itr + 1)
  <2>1. Purge[i] = insMap[i]
    BY <1>6 DEF Purge, Without
  <2> QED BY <2>1, <1>2, <1>4
<1> QED BY <1>5, <1>6

\* An access counted.
LEMMA CountStep ==
  ASSUME IInv, CountInsn
  PROVE  IInv'
<1> USE DEF IInv
<1>1. /\ phase = "count" /\ itr < Len(trace) /\ itr' = itr + 1 /\ trace' = trace
      /\ trace \in Seq(Line) /\ itr \in Nat /\ Len(trace) \in Nat
  BY DEF CountInsn, CountType
<1> DEFINE i == trace[itr + 1].insn
<1>2. i \in Insns
  <2>1. itr + 1 \in 1 .. Len(trace)
    BY <1>1
  <2>2. trace[itr + 1] \in Line
    BY <1>1, <2>1
  <2> QED BY <2>2 DEF Line
<1>3. real' = [real EXCEPT ![i] = @ + 1]
  BY DEF CountInsn
<1> HIDE DEF i
<1>4. CASE NewSample
  <2>1. /\ insMap' = [Purge EXCEPT ![i] = @ + 1]
        /\ purged' = purged + (itr + 1) \div PurgeShare
    BY <1>4 DEF CountInsn, i
  <2>2. Purge \in [Insns -> Nat]
    <3>1. \A j \in Insns : Purge[j] \in Nat
      BY PurgeBound
    <3> QED BY <3>1 DEF Purge, Without
  <2>3. (itr + 1) \div PurgeShare \in Nat
    BY <1>2, PurgeBound
  <2>4. CountType'
    BY SMTT(30), <1>1, <1>2, <1>3, <2>1, <2>2, <2>3 DEF CountType
  <2>5. ASSUME NEW j \in Insns
        PROVE  insMap'[j] <= real'[j] /\ real'[j] <= insMap'[j] + purged'
    <3>1. /\ Purge[j] \in Nat /\ Purge[j] <= insMap[j]
          /\ insMap[j] <= Purge[j] + (itr + 1) \div PurgeShare
      BY PurgeBound
    <3>2. /\ insMap[j] \in Nat /\ real[j] \in Nat /\ purged \in Nat
          /\ insMap[j] <= real[j] /\ real[j] <= insMap[j] + purged
      BY <1>1 DEF CountType, LossyCount
    <3>3. /\ insMap'[j] = IF j = i THEN Purge[j] + 1 ELSE Purge[j]
          /\ real'[j] = IF j = i THEN real[j] + 1 ELSE real[j]
      BY <1>2, <1>3, <2>1, <2>2 DEF CountType
    <3> QED BY <3>1, <3>2, <3>3, <2>1, <2>3
  <2> QED BY <2>4, <2>5 DEF LossyCount
<1>5. CASE ~NewSample
  <2>1. insMap' = [insMap EXCEPT ![i] = @ + 1] /\ purged' = purged
    BY <1>5 DEF CountInsn, i
  <2>2. CountType'
    BY <1>1, <1>2, <1>3, <2>1 DEF CountType
  <2>3. ASSUME NEW j \in Insns
        PROVE  insMap'[j] <= real'[j] /\ real'[j] <= insMap'[j] + purged'
    <3>1. /\ insMap[j] \in Nat /\ real[j] \in Nat /\ purged \in Nat
          /\ insMap[j] <= real[j] /\ real[j] <= insMap[j] + purged
      BY <1>1 DEF CountType, LossyCount
    <3>2. /\ insMap'[j] = IF j = i THEN insMap[j] + 1 ELSE insMap[j]
          /\ real'[j] = IF j = i THEN real[j] + 1 ELSE real[j]
      BY <1>2, <1>3, <2>1 DEF CountType
    <3> QED BY <3>1, <3>2, <2>1
  <2> QED BY <2>2, <2>3 DEF LossyCount
<1> QED BY <1>4, <1>5

\* The steps after the count.
LEMMA LaterStep ==
  ASSUME IInv,
         \/ Coalesce \/ SkipRange \/ AddRange \/ SelectRegions
         \/ updateTraceRegion \/ UNCHANGED hotVars
  PROVE  IInv'
<1> USE DEF IInv
<1>1. CASE Coalesce
  <2>1. insMap' \in [Insns -> Nat]
    BY <1>1 DEF Coalesce, Without, CountType
  <2>2. CountType' /\ phase' # "count"
    BY <1>1, <2>1 DEF Coalesce, CountType
  <2> QED BY <2>2 DEF LossyCount
<1>2. CASE SkipRange \/ AddRange \/ SelectRegions \/ updateTraceRegion
  <2>1. UNCHANGED <<trace, countVars>>
    BY <1>2 DEF SkipRange, AddRange, SelectRegions, updateTraceRegion
  <2>2. phase' # "count"
    BY <1>2 DEF SkipRange, AddRange, SelectRegions, updateTraceRegion
  <2>3. CountType'
    BY <2>1 DEF CountType, countVars
  <2> QED BY <2>2, <2>3 DEF LossyCount
<1>3. CASE UNCHANGED hotVars
  BY <1>3 DEF hotVars, countVars, CountType, LossyCount
<1> QED BY <1>1, <1>2, <1>3

\* At the start there are no counts.
LEMMA InitI ==
  ASSUME Init
  PROVE  IInv
<1>1. trace \in Seq(Line)
  BY HotAssumption DEF HotAssumption, Init, RegionsInit
<1>2. CountType
  BY <1>1 DEF Init, RegionsInit, CountType
<1>3. LossyCount
  BY DEF Init, RegionsInit, LossyCount
<1> QED BY <1>2, <1>3 DEF IInv

\* For any trace and any number of samples, the count of an instruction is
\* off by no more than the shares the purges have dropped (memoryanalysis.cpp:
\* 198-225).
THEOREM LossyCountCorrect == Spec => []LossyCount
<1>1. Init => IInv
  BY InitI
<1>2. IInv /\ [Next]_vars => IInv'
  <2>1. CASE CountInsn
    BY <2>1, CountStep
  <2>2. CASE Coalesce \/ SkipRange \/ AddRange \/ SelectRegions \/ updateTraceRegion
    BY <2>2, LaterStep
  <2>3. CASE UNCHANGED hotVars
    BY <2>3, LaterStep
  <2>4. [Next]_vars => RegionsNext \/ UNCHANGED hotVars
    BY DEF Next, FindPages, CountLines, AbortWithoutLines, SelectTopLines, vars
  <2> QED BY <2>1, <2>2, <2>3, <2>4 DEF RegionsNext
<1>3. IInv => LossyCount
  BY DEF IInv
<1> QED BY <1>1, <1>2, <1>3, PTL DEF Spec

-----------------------------------------------------------------------------
(* The invariant.                                                          *)

\* An instruction in the map has been seen.
Seen ==
  /\ trace \in Traces
  /\ itr \in 0 .. Len(trace)
  /\ \A i \in Insns : insMap[i] > 0 => \E k \in 1 .. itr : trace[k].insn = i

\* A hot range goes from the address of one access to that of another.
HotRanges ==
  /\ hot \in Seq(Nat \X Nat)
  /\ \A k \in DOMAIN hot : IsRange(trace, hot[k])
  /\ next \in Nat \ {0}

\* A name of the zoom, or of a child of one of the ranges so far.
IsName(id, k) ==
  \/ id \in Seq(Nat)
  \/ \E m \in Nat, n \in Int : m < k - 1 /\ id = <<HotIns, m, n>>

\* While ranges are added: the list of addresses is that of the regions, the
\* regions start in the interval set, and they differ in names and starts.
\* That they start in the set makes a range that adds an interval one of
\* starts no region has.
Lists ==
  /\ regions \in Seq(AnyRegion)
  /\ setRegionAddr \in Seq(Int \X Int)
  /\ insnRegSet \subseteq Nat /\ IsFiniteSet(insnRegSet)
  /\ \A j \in DOMAIN regions : regions[j].min \in insnRegSet /\ IsName(regions[j].strID, next)
  /\ SameAddrs(regions, setRegionAddr)
  /\ NamesApart(regions)
  /\ StartsApart(zoomed) => StartsApart(regions)

\* What holds of the lists in each phase.
Collecting ==
  /\ zoomed \in ZoomRegions
  /\ phase \in {"count", "add", "number", "done"}
  /\ phase = "count" => regions = zoomed
  /\ phase \in {"count", "add"} => regionId = << >>
  /\ phase = "add" => Lists

\* The final list, if the zoom has found no start twice.
Selected ==
  phase \in {"number", "done"} /\ StartsApart(zoomed) =>
    final \in Seq(AnyRegion) /\ setRegionAddr \in Seq(Int \X Int)

\* The invariant: that a trace line finds its region only shows at the end,
\* and depends on what was in the lists before.
RInv == IInv /\ Seen /\ HotRanges /\ Collecting /\ Selected /\ RegionIndexAgrees

\* A trace has an access.
LEMMA TracesFacts ==
  ASSUME NEW t \in Traces
  PROVE  t \in Seq(Line) /\ t # << >> /\ Len(t) \in Nat /\ Len(t) > 0
  BY HotAssumption DEF HotAssumption

\* An access of the trace.
LEMMA TraceLine ==
  ASSUME trace \in Seq(Line), NEW k \in DOMAIN trace
  PROVE  trace[k].addr \in Nat /\ trace[k].insn \in Insns
<1>1. trace[k] \in Line
  OBVIOUS
<1> QED BY <1>1 DEF Line

\* The regions of the zoom.
LEMMA ZoomFacts ==
  ASSUME NEW z \in ZoomRegions
  PROVE  /\ z \in Seq(Region) /\ NamesApart(z)
         /\ \A k \in DOMAIN z : z[k].min <= z[k].max
  BY HotAssumption DEF HotAssumption

\* The invariant holds at the start.
LEMMA InitR ==
  ASSUME Init, IInv
  PROVE  RInv
<1>1. trace \in Traces /\ zoomed \in ZoomRegions /\ regions = zoomed
  BY DEF Init, RegionsInit
<1>2. Len(trace) \in Nat
  BY <1>1, TracesFacts
<1>3. Seen
  <2>1. itr = 0 /\ \A i \in Insns : insMap[i] = 0
    BY DEF Init, RegionsInit
  <2>2. \A i \in Insns : ~(insMap[i] > 0)
    BY <2>1
  <2> QED BY <1>1, <1>2, <2>1, <2>2 DEF Seen
<1>4. HotRanges
  BY DEF Init, RegionsInit, HotRanges
<1>5. Collecting
  BY <1>1 DEF Init, RegionsInit, Collecting
<1>6. Selected /\ RegionIndexAgrees
  BY DEF Init, RegionsInit, Selected, RegionIndexAgrees
<1> QED BY <1>3, <1>4, <1>5, <1>6 DEF RInv

\* ... when an access is counted,
LEMMA CountR ==
  ASSUME RInv, CountInsn, IInv'
  PROVE  RInv'
<1>1. /\ phase = "count" /\ phase' = "count" /\ itr < Len(trace) /\ itr' = itr + 1
      /\ trace' = trace /\ zoomed' = zoomed /\ hot' = hot /\ next' = next
      /\ regions' = regions /\ regionId' = regionId
  BY DEF CountInsn, regionVars
<1>2. trace \in Traces /\ itr \in 0 .. Len(trace) /\ Len(trace) \in Nat
  BY TracesFacts DEF RInv, Seen
<1>3. \A i \in Insns : insMap[i] > 0 => \E k \in 1 .. itr : trace[k].insn = i
  BY DEF RInv, Seen
<1>4. ASSUME NEW j \in Insns, insMap'[j] > 0 PROVE insMap[j] > 0 \/ j = trace[itr + 1].insn
  <2>1. insMap \in [Insns -> Nat]
    BY DEF RInv, IInv, CountType
  <2> DEFINE i == trace[itr + 1].insn
  <2>2. CASE insMap' = [Purge EXCEPT ![i] = @ + 1]
    <3> SUFFICES ASSUME j # i PROVE insMap[j] > 0
      OBVIOUS
    <3>1. insMap'[j] = Purge[j]
      BY <2>2 DEF Purge, Without
    <3> QED BY <1>4, <3>1 DEF Purge, Without
  <2>3. CASE insMap' = [insMap EXCEPT ![i] = @ + 1]
    BY <1>4, <2>1, <2>3
  <2> QED BY <2>2, <2>3 DEF CountInsn
<1>5. Seen'
  <2>1. ASSUME NEW j \in Insns, insMap'[j] > 0 PROVE \E k \in 1 .. itr + 1 : trace[k].insn = j
    <3>1. \A k \in 1 .. itr : k \in 1 .. itr + 1
      BY <1>2
    <3>2. itr + 1 \in 1 .. itr + 1
      BY <1>2
    <3> QED BY <1>3, <1>4, <2>1, <3>1, <3>2
  <2>2. itr + 1 \in 0 .. Len(trace)
    BY <1>1, <1>2
  <2> QED BY <1>1, <1>2, <2>1, <2>2 DEF Seen
<1>6. HotRanges'
  BY <1>1 DEF RInv, HotRanges, IsRange
<1>7. Collecting'
  BY <1>1 DEF RInv, Collecting
<1>8. Selected' /\ RegionIndexAgrees'
  BY <1>1 DEF Selected, RegionIndexAgrees
<1> QED BY <1>5, <1>6, <1>7, <1>8 DEF RInv

\* The range of an instruction is from one access to another.
LEMMA RangeOfFacts ==
  ASSUME trace \in Seq(Line), NEW i, \E k \in DOMAIN trace : trace[k].insn = i
  PROVE  RangeOf(i) \in {trace[k].addr : k \in DOMAIN trace} \X {trace[k].addr : k \in DOMAIN trace}
<1> DEFINE A == {trace[k].addr : k \in DOMAIN trace}
           D == {m \in DOMAIN trace : trace[m].insn = i}
           as == {trace[k].addr : k \in D}
<1>1. as # {} /\ as \subseteq A /\ as \subseteq Nat
  BY TraceLine
<1>2. IsFiniteSet(as)
  <2>1. IsFiniteSet(1 .. Len(trace)) /\ DOMAIN trace = 1 .. Len(trace)
    BY FS_Interval
  <2>2. D \in SUBSET (1 .. Len(trace))
    BY <2>1
  <2>3. IsFiniteSet(D)
    BY <2>1, <2>2, FS_Subset
  <2> DEFINE f == [k \in D |-> trace[k].addr]
  <2>4. f \in Surjection(D, as)
    BY DEF Surjection
  <2> HIDE DEF f, D, as
  <2> QED BY <2>3, <2>4, FS_Surjection
<1>3. RangeOf(i) = <<Min(as), Max(as)>>
  BY DEF RangeOf
<1> HIDE DEF as, A
<1>4. Min(as) \in as /\ Max(as) \in as
  BY <1>1, <1>2, MinOfSet, MaxOfSet
<1>5. RangeOf(i) \in A \X A
  <2>1. Min(as) \in A /\ Max(as) \in A
    BY <1>1, <1>4
  <2>2. <<Min(as), Max(as)>> \in A \X A
    BY <2>1
  <2> QED BY <1>3, <2>2, Zenon
<1> QED BY <1>5 DEF A

\* The addresses of a trace.
LEMMA AddressesFinite ==
  ASSUME trace \in Traces, NEW A, A = {trace[k].addr : k \in DOMAIN trace}
  PROVE  A \subseteq Nat /\ IsFiniteSet(A) /\ A # {}
<1>1. trace \in Seq(Line) /\ Len(trace) \in Nat /\ Len(trace) > 0
  BY TracesFacts
<1>2. DOMAIN trace = 1 .. Len(trace) /\ IsFiniteSet(1 .. Len(trace))
  BY <1>1, FS_Interval
<1>3. A \subseteq Nat
  BY <1>1, TraceLine
<1>4. 1 \in DOMAIN trace
  BY <1>1, <1>2
<1>5. A # {}
  BY <1>4
<1> DEFINE f == [k \in 1 .. Len(trace) |-> trace[k].addr]
<1>6. f \in Surjection(1 .. Len(trace), A)
  BY <1>2 DEF Surjection
<1> HIDE DEF f
<1>7. IsFiniteSet(A)
  BY <1>2, <1>6, FS_Surjection
<1> QED BY <1>3, <1>5, <1>7

\* Sorted, the addresses are still those of the regions.
LEMMA SortedAddrs ==
  ASSUME NEW list \in Seq(AnyRegion), NEW s \in Seq(Int \X Int), Len(s) = Len(list),
         \A k \in DOMAIN list : s[k] = Addrs(list[k]), NEW t, t = Sorted(s)
  PROVE  t \in Seq(Int \X Int) /\ SameAddrs(list, t)
<1> DEFINE n == Len(list)
<1>1. n \in Nat /\ DOMAIN list = 1 .. n /\ DOMAIN s = 1 .. n
  OBVIOUS
<1>2. /\ t \in Seq(Int \X Int) /\ Len(t) = Len(s)
      /\ \E p \in Bijection(DOMAIN s, DOMAIN s) : \A k \in DOMAIN s : t[k] = s[p[k]]
      /\ \A j, k \in DOMAIN t : j < k => Before(t[j], t[k]) \/ t[j] = t[k]
  BY SortedFacts
<1>3. DOMAIN t = 1 .. n /\ Len(t) = n
  BY <1>1, <1>2
<1>4. PICK p \in Bijection(DOMAIN s, DOMAIN s) : \A k \in DOMAIN s : t[k] = s[p[k]]
  BY <1>2
<1> HIDE DEF n
<1>5. p \in [1 .. n -> 1 .. n] /\ \A j \in 1 .. n : \E k \in 1 .. n : p[k] = j
  BY <1>1 DEF Bijection, Surjection
<1>6. \A k \in 1 .. n : p[k] \in 1 .. n /\ t[k] = Addrs(list[p[k]])
  BY <1>1, <1>4, <1>5
<1>7. \A j \in DOMAIN list : \E k \in DOMAIN t : t[k] = Addrs(list[j])
  <2> SUFFICES ASSUME NEW j \in 1 .. n PROVE \E k \in 1 .. n : t[k] = Addrs(list[j])
    BY <1>1, <1>3
  <2>1. PICK k \in 1 .. n : p[k] = j
    BY <1>5
  <2> QED BY <1>6, <2>1
<1>8. \A k \in DOMAIN t : \E j \in DOMAIN list : t[k] = Addrs(list[j])
  BY <1>1, <1>3, <1>6
<1>9. Len(list) = Len(t)
  BY <1>3 DEF n
<1> QED BY <1>2, <1>7, <1>8, <1>9, Zenon DEF SameAddrs

\* The lists the hot ranges are added to.
LEMMA ZoomLists ==
  ASSUME NEW z \in ZoomRegions
  PROVE  /\ z \in Seq(AnyRegion)
         /\ Sorted([k \in DOMAIN z |-> Addrs(z[k])]) \in Seq(Int \X Int)
         /\ SameAddrs(z, Sorted([k \in DOMAIN z |-> Addrs(z[k])]))
         /\ LET X == UNION {r.min .. r.max : r \in ToSet(z)}
            IN  /\ X \subseteq Nat /\ IsFiniteSet(X)
                /\ \A j \in DOMAIN z : z[j].min \in X
<1>1. /\ z \in Seq(Region) /\ \A k \in DOMAIN z : z[k].min <= z[k].max
  BY ZoomFacts
<1> DEFINE n == Len(z)
           s == [k \in DOMAIN z |-> Addrs(z[k])]
           t == Sorted(s)
           X == UNION {r.min .. r.max : r \in ToSet(z)}
<1>2. n \in Nat /\ DOMAIN z = 1 .. n
  BY <1>1
<1>3. ASSUME NEW k \in 1 .. n
      PROVE  z[k] \in AnyRegion /\ z[k].min \in Nat /\ z[k].max \in Nat /\ z[k].min <= z[k].max
  <2>1. z[k] \in Region /\ z[k].min <= z[k].max
    BY <1>1, <1>2
  <2>2. z[k].min \in Nat /\ z[k].max \in Nat
    BY <2>1 DEF Region
  <2>3. z[k] \in AnyRegion
    <3>1. \A q : q \in Seq(Nat) => q \in Seq(Int)
      OBVIOUS
    <3> QED BY <2>1, <3>1 DEF Region, AnyRegion
  <2> QED BY <2>1, <2>2, <2>3
<1>4. z \in Seq(AnyRegion)
  <2>1. z = [k \in 1 .. n |-> z[k]]
    BY <1>1, <1>2
  <2>2. z \in [1 .. n -> AnyRegion]
    BY <1>3, <2>1
  <2> QED BY <1>2, <2>2, FunctionIsSeq
<1>5. s \in Seq(Int \X Int) /\ Len(s) = n /\ DOMAIN s = 1 .. n
  <2>1. s \in [1 .. n -> Int \X Int]
    <3>1. \A k \in 1 .. n : Addrs(z[k]) \in Int \X Int
      BY <1>3, AddrsOf
    <3> QED BY <1>2, <3>1
  <2> HIDE DEF s
  <2> QED BY <1>2, <2>1, FunctionIsSeq
<1>6. \A k \in 1 .. n : s[k] = Addrs(z[k])
  BY <1>2
<1> HIDE DEF s, n
<1>7. t \in Seq(Int \X Int) /\ SameAddrs(z, t)
  <2>1. t = Sorted(s)
    OBVIOUS
  <2>2. Len(s) = Len(z) /\ \A k \in DOMAIN z : s[k] = Addrs(z[k])
    BY <1>2, <1>5, <1>6 DEF n
  <2> HIDE DEF t, X
  <2> QED BY <1>4, <1>5, <2>1, <2>2, SortedAddrs
<1> HIDE DEF t
<1>9. X \subseteq Nat /\ IsFiniteSet(X) /\ \A j \in DOMAIN z : z[j].min \in X
  <2> DEFINE I(k) == z[k].min .. z[k].max
             S == {I(k) : k \in 1 .. n}
             f == [k \in 1 .. n |-> I(k)]
  <2>1. X = UNION S
    BY <1>2 DEF ToSet
  <2> HIDE DEF X
  <2>2. ASSUME NEW k \in 1 .. n
        PROVE  I(k) \subseteq Nat /\ IsFiniteSet(I(k)) /\ z[k].min \in I(k)
    <3>1. z[k].min \in Nat /\ z[k].max \in Nat /\ z[k].min <= z[k].max
      BY <1>3
    <3>2. IsFiniteSet(I(k))
      <4>1. z[k].min \in Int /\ z[k].max \in Int
        BY <3>1
      <4>2. I(k) = z[k].min .. z[k].max
        OBVIOUS
      <4> HIDE DEF I
      <4> QED BY <4>1, <4>2, FS_Interval
    <3> QED BY <3>1, <3>2
  <2> HIDE DEF I
  <2>3. f \in Surjection(1 .. n, S)
    BY DEF Surjection
  <2>4. IsFiniteSet(1 .. n)
    BY <1>2, FS_Interval
  <2> HIDE DEF f
  <2>5. IsFiniteSet(S)
    <3> HIDE DEF S
    <3> QED BY <2>3, <2>4, FS_Surjection
  <2>6. \A T \in S : IsFiniteSet(T)
    BY <2>2
  <2>7. IsFiniteSet(UNION S)
    <3> HIDE DEF S
    <3> QED BY <2>5, <2>6, FS_UNION
  <2> QED BY <1>2, <2>1, <2>2, <2>7
<1> QED BY <1>4, <1>7, <1>9 DEF t, s

\* ... when the ranges of the hot instructions are joined,
LEMMA CoalesceR ==
  ASSUME RInv, Coalesce, IInv'
  PROVE  RInv'
<1>1. /\ phase = "count" /\ itr = Len(trace) /\ phase' = "add"
      /\ insMap' = Without(TopShare, Len(trace))
      /\ hot' = Ascending(Coalesced({RangeOf(i) : i \in Top(insMap')}))
      /\ setRegionAddr' = Sorted([k \in DOMAIN regions |-> Addrs(regions[k])])
      /\ insnRegSet' = UNION {r.min .. r.max : r \in ToSet(regions)}
      /\ trace' = trace /\ zoomed' = zoomed /\ itr' = itr /\ next' = next
      /\ regions' = regions /\ regionId' = regionId
  BY DEF Coalesce
<1>2. trace \in Traces /\ trace \in Seq(Line) /\ itr \in 0 .. Len(trace)
  BY TracesFacts DEF RInv, Seen
<1>3. ASSUME NEW i \in Insns, insMap'[i] > 0 PROVE \E k \in 1 .. itr : trace[k].insn = i
  <2>1. insMap[i] > 0
    BY <1>1, <1>3 DEF Without
  <2> QED BY <2>1 DEF RInv, Seen
<1>4. Seen'
  BY <1>1, <1>2, <1>3 DEF Seen
<1> DEFINE A == {trace[k].addr : k \in DOMAIN trace}
           ranges == {RangeOf(i) : i \in Top(insMap')}
           C == Coalesced(ranges)
<1>5. A \subseteq Nat /\ IsFiniteSet(A) /\ A # {}
  BY <1>2, AddressesFinite
<1>6. \A r \in ranges : r \in A \X A
  <2> SUFFICES ASSUME NEW i \in Top(insMap') PROVE RangeOf(i) \in A \X A
    OBVIOUS
  <2>1. i \in Insns /\ insMap'[i] > 0
    BY DEF Top
  <2>2. \E k \in DOMAIN trace : trace[k].insn = i
    BY <1>1, <1>2, <1>3, <2>1
  <2> QED BY <1>2, <2>2, RangeOfFacts
<1>7. hot' = Ascending(C)
  BY <1>1
<1> HIDE DEF ranges
<1>8. IsFiniteSet(C) /\ \A r \in C : r \in A \X A /\ r[1] < r[2]
  <2> HIDE DEF A
  <2> QED BY <1>5, <1>6, CoalescedFacts
<1> HIDE DEF C
<1>9. HotRanges'
  <2>1. C \subseteq Int \X Int /\ C \subseteq Nat \X Nat
    <3> HIDE DEF A
    <3>1. A \X A \subseteq Nat \X Nat
      BY <1>5
    <3>2. C \subseteq A \X A
      BY <1>8
    <3>3. Nat \X Nat \subseteq Int \X Int
      OBVIOUS
    <3> QED BY <3>1, <3>2, <3>3
  <2>2. /\ Len(hot') = Cardinality(C) /\ Cardinality(C) \in Nat
        /\ DOMAIN hot' = 1 .. Cardinality(C)
        /\ hot' = [k \in 1 .. Cardinality(C) |-> hot'[k]]
        /\ \A k \in DOMAIN hot' : hot'[k] \in C
    BY <1>7, <1>8, <2>1, AscendingFacts
  <2>3. hot' \in Seq(Nat \X Nat)
    <3> DEFINE n == Cardinality(C)
    <3>1. n \in Nat /\ hot' = [k \in 1 .. n |-> hot'[k]] /\ \A k \in 1 .. n : hot'[k] \in Nat \X Nat
      BY <2>1, <2>2
    <3> HIDE DEF n
    <3>2. hot' \in [1 .. n -> Nat \X Nat]
      BY <3>1
    <3> QED BY <3>1, <3>2, FunctionIsSeq
  <2>4. ASSUME NEW r \in C PROVE IsRange(trace, r)
    <3>1. r \in Nat \X Nat /\ r[1] \in A /\ r[2] \in A /\ r[1] < r[2]
      BY <1>8, <2>1
    <3>2. /\ \E k \in DOMAIN trace : trace[k].addr = r[1]
          /\ \E k \in DOMAIN trace : trace[k].addr = r[2]
      BY <3>1
    <3> QED BY <3>1, <3>2 DEF IsRange
  <2>5. \A k \in DOMAIN hot' : IsRange(trace', hot'[k])
    BY <1>1, <2>2, <2>4
  <2>6. next' \in Nat \ {0}
    BY <1>1 DEF RInv, HotRanges
  <2> QED BY <2>3, <2>5, <2>6 DEF HotRanges
<1>10. zoomed \in ZoomRegions /\ regions = zoomed /\ regionId = << >>
  BY <1>1 DEF RInv, Collecting
<1>11. Lists'
  <2> DEFINE X == UNION {r.min .. r.max : r \in ToSet(regions)}
             t == Sorted([k \in DOMAIN regions |-> Addrs(regions[k])])
  <2>1. /\ regions \in Seq(AnyRegion) /\ t \in Seq(Int \X Int) /\ SameAddrs(regions, t)
        /\ X \subseteq Nat /\ IsFiniteSet(X)
        /\ \A j \in DOMAIN regions : regions[j].min \in X
    BY <1>10, ZoomLists
  <2>2. NamesApart(regions) /\ regions \in Seq(Region)
    BY <1>10, ZoomFacts
  <2>3. \A j \in DOMAIN regions : IsName(regions[j].strID, next)
    <3> SUFFICES ASSUME NEW j \in DOMAIN regions PROVE IsName(regions[j].strID, next)
      OBVIOUS
    <3>1. regions[j] \in Region
      BY <2>2
    <3> QED BY <3>1 DEF Region, IsName
  <2>4. StartsApart(zoomed) => StartsApart(regions)
    BY <1>10
  <2>5. X = insnRegSet' /\ t = setRegionAddr'
    BY <1>1
  <2> HIDE DEF X, t
  <2> QED BY <1>1, <2>1, <2>2, <2>3, <2>4, <2>5 DEF Lists
<1>12. Collecting'
  BY <1>1, <1>10, <1>11 DEF Collecting
<1>13. Selected' /\ RegionIndexAgrees'
  BY <1>1 DEF Selected, RegionIndexAgrees
<1> QED BY <1>4, <1>9, <1>12, <1>13 DEF RInv

\* The range that comes next.
LEMMA CurrentFacts ==
  ASSUME RInv, next \in DOMAIN hot
  PROVE  /\ trace \in Seq(Line) /\ IsRange(trace, Current)
         /\ Current \in Nat \X Nat /\ Current[1] \in Nat /\ Current[2] \in Nat
         /\ Current[1] < Current[2]
<1>1. trace \in Seq(Line)
  BY TracesFacts DEF RInv, Seen
<1>2. IsRange(trace, Current)
  BY DEF RInv, HotRanges, Current
<1>3. Current \in Nat \X Nat /\ Current[1] < Current[2]
  BY <1>2 DEF IsRange
<1> QED BY <1>1, <1>2, <1>3

\* The range of a hot instruction joins the addresses seen so far.
LEMMA WithRange ==
  ASSUME NEW X, X \subseteq Nat, IsFiniteSet(X), NEW a \in Nat, NEW b \in Nat
  PROVE  X \cup (a .. b) \subseteq Nat /\ IsFiniteSet(X \cup (a .. b))
<1>1. a \in Int /\ b \in Int
  OBVIOUS
<1>2. IsFiniteSet(a .. b)
  BY <1>1, FS_Interval
<1>3. IsFiniteSet(X \cup (a .. b))
  BY <1>2, FS_Union
<1> QED BY <1>3

\* A name given before a range is one given before the next range.
LEMMA LaterNames ==
  ASSUME NEW id, NEW k \in Nat, IsName(id, k)
  PROVE  IsName(id, k + 1)
<1>1. \A m \in Nat : m < k - 1 => m < (k + 1) - 1
  OBVIOUS
<1> QED BY <1>1 DEF IsName

\* ... when a range is left out,
LEMMA SkipR ==
  ASSUME RInv, SkipRange, IInv'
  PROVE  RInv'
<1>1. /\ phase = "add" /\ phase' = "add" /\ next \in DOMAIN hot /\ next' = next + 1
      /\ trace' = trace /\ zoomed' = zoomed /\ hot' = hot /\ insMap' = insMap /\ itr' = itr
      /\ regions' = regions /\ setRegionAddr' = setRegionAddr /\ regionId' = regionId
      /\ insnRegSet' \in {insnRegSet, insnRegSet \cup (Current[1] .. Current[2])}
  BY DEF SkipRange, countVars
<1>2. Seen'
  BY <1>1 DEF RInv, Seen
<1>3. next \in Nat \ {0} /\ HotRanges'
  <2>1. next + 1 \in Nat \ {0} /\ next \in Nat \ {0}
    BY DEF RInv, HotRanges
  <2> QED BY <1>1, <2>1 DEF RInv, HotRanges
<1>4. Lists
  BY <1>1 DEF RInv, Collecting
<1>5. insnRegSet \subseteq insnRegSet' /\ insnRegSet' \subseteq Nat /\ IsFiniteSet(insnRegSet')
  <2>1. insnRegSet \subseteq Nat /\ IsFiniteSet(insnRegSet)
    BY <1>4 DEF Lists
  <2>2. Current[1] \in Nat /\ Current[2] \in Nat
    BY <1>1, CurrentFacts
  <2>3. /\ insnRegSet \cup (Current[1] .. Current[2]) \subseteq Nat
        /\ IsFiniteSet(insnRegSet \cup (Current[1] .. Current[2]))
    BY <2>1, <2>2, WithRange
  <2> QED BY <1>1, <2>1, <2>3
<1>6. Lists'
  <2>1. \A j \in DOMAIN regions : IsName(regions[j].strID, next + 1)
    BY <1>3, <1>4, LaterNames DEF Lists
  <2> QED BY <1>1, <1>4, <1>5, <2>1 DEF Lists
<1>7. Collecting'
  BY <1>1, <1>6 DEF RInv, Collecting
<1>8. Selected' /\ RegionIndexAgrees'
  BY <1>1 DEF Selected, RegionIndexAgrees
<1> QED BY <1>2, <1>3, <1>7, <1>8 DEF RInv

\* The children start in the range.
LEMMA ChildFacts ==
  ASSUME RInv, next \in DOMAIN hot,
         NEW r, r = Current, NEW runs, runs = Children(getAccessCount(r)),
         NEW n \in DOMAIN runs, NEW c, c = Child(r, runs[n], n)
  PROVE  /\ c \in AnyRegion
         /\ c.min = r[1] + OSPageSize * runs[n][1]
         /\ c.min \in r[1] .. r[2]
         /\ runs[n][1] \in Nat
         /\ c.strID = <<HotIns, next - 1, IF HotRuns(getAccessCount(r)) = << >> THEN n ELSE n - 1>>
<1> DEFINE count == getAccessCount(r)
<1>1. trace \in Seq(Line) /\ IsRange(trace, r) /\ r \in Nat \X Nat /\ r[1] < r[2] /\ r[1] \in Nat
  BY CurrentFacts
<1>2. IsCount(count, BlockCount(r))
  BY <1>1, CountOfRange
<1>3. runs \in Seq(Int \X Int) /\ runs[n][1] \in 0 .. BlockCount(r) - 1
  <2> HIDE DEF count
  <2>1. runs = Children(count)
    BY DEF count
  <2> QED BY <1>2, <2>1, ChildrenFacts
<1>4. OSPageSize * runs[n][1] \in Nat /\ r[1] + OSPageSize * runs[n][1] \in r[1] .. r[2]
  BY <1>1, <1>3, BlockStart
<1>5. BlockCount(r) \in Nat \ {0}
  BY <1>1, BlockCountFacts
<1>6. runs[n][1] \in Nat
  BY <1>3, <1>5
<1>7. runs[n][2] \in Int /\ n \in Int
  BY <1>3
<1> DEFINE id == <<HotIns, next - 1, IF HotRuns(count) = << >> THEN n ELSE n - 1>>
           hi == r[1] + OSPageSize * (runs[n][1] + runs[n][2]) - 1
<1>8. hi \in Int
  <2>1. OSPageSize \in Int
    BY HotAssumption DEF HotAssumption
  <2>2. runs[n][1] + runs[n][2] \in Int
    BY <1>6, <1>7
  <2> DEFINE e == runs[n][1] + runs[n][2]
  <2>3. OSPageSize * e \in Int
    <3> HIDE DEF e
    <3>1. e \in Int
      BY <2>2 DEF e
    <3> QED BY <2>1, <3>1
  <2> HIDE DEF e
  <2>4. hi = r[1] + OSPageSize * e - 1
    BY DEF e
  <2> HIDE DEF hi
  <2> QED BY <1>1, <2>3, <2>4
<1>9. id \in Seq(Int)
  <2>1. HotIns \in Int
    BY DEF HotIns
  <2>2. next - 1 \in Int
    BY DEF RInv, HotRanges
  <2>3. (IF HotRuns(count) = << >> THEN n ELSE n - 1) \in Int
    BY <1>7
  <2> HIDE DEF count
  <2> QED BY <2>1, <2>2, <2>3
<1>10. c = [min |-> r[1] + OSPageSize * runs[n][1], max |-> hi, strID |-> id]
  BY DEF Child
<1> HIDE DEF hi, id
<1>11. c.min = r[1] + OSPageSize * runs[n][1] /\ c.max = hi /\ c.strID = id
  BY <1>10
<1>12. c \in AnyRegion
  <2>1. r[1] + OSPageSize * runs[n][1] \in Nat
    BY <1>1, <1>4
  <2> QED BY <1>8, <1>9, <1>10, <2>1 DEF AnyRegion
<1> QED BY <1>4, <1>6, <1>11, <1>12 DEF id

\* Two sequences put together.
LEMMA ConcatFacts ==
  ASSUME NEW S, NEW s \in Seq(S), NEW t \in Seq(S), NEW u, u = s \o t
  PROVE  /\ u \in Seq(S) /\ Len(u) = Len(s) + Len(t)
         /\ Len(s) \in Nat /\ Len(t) \in Nat
         /\ DOMAIN s = 1 .. Len(s) /\ DOMAIN t = 1 .. Len(t) /\ DOMAIN u = 1 .. Len(s) + Len(t)
         /\ \A i \in 1 .. Len(s) : i \in 1 .. Len(s) + Len(t) /\ u[i] = s[i]
         /\ \A i \in 1 .. Len(t) : i + Len(s) \in 1 .. Len(s) + Len(t) /\ u[i + Len(s)] = t[i]
         /\ \A i \in 1 .. Len(s) + Len(t) :
              i \notin 1 .. Len(s) => i - Len(s) \in 1 .. Len(t) /\ u[i] = t[i - Len(s)]
  OBVIOUS

\* New regions, apart from those of the list.
LEMMA AppendLists ==
  ASSUME NEW list \in Seq(AnyRegion), NEW more \in Seq(AnyRegion),
         NEW X, NEW Y, X \cap Y = {},
         \A j \in DOMAIN list : list[j].min \in X,
         \A j \in DOMAIN more : more[j].min \in Y,
         NamesApart(list), NamesApart(more), StartsApart(more),
         \A j \in DOMAIN list, k \in DOMAIN more : list[j].strID # more[k].strID,
         NEW both, both = list \o more
  PROVE  /\ NamesApart(both)
         /\ StartsApart(list) => StartsApart(both)
<1> DEFINE n == Len(list)
           m == Len(more)
<1>1. /\ both \in Seq(AnyRegion) /\ n \in Nat /\ m \in Nat
      /\ DOMAIN list = 1 .. n /\ DOMAIN more = 1 .. m /\ DOMAIN both = 1 .. n + m
      /\ \A i \in 1 .. n : both[i] = list[i]
      /\ \A i \in 1 .. n + m :
           i \notin 1 .. n => i - n \in 1 .. m /\ both[i] = more[i - n]
  BY ConcatFacts
<1> HIDE DEF n, m
<1>2. ASSUME NEW j \in 1 .. n + m, NEW k \in 1 .. n + m, j # k
      PROVE  /\ both[j].strID # both[k].strID
             /\ StartsApart(list) => both[j].min # both[k].min
  <2>1. CASE j \in 1 .. n /\ k \in 1 .. n
    BY <1>1, <1>2, <2>1, ZenonT(60) DEF NamesApart, StartsApart
  <2>2. CASE j \in 1 .. n /\ k \notin 1 .. n
    <3>1. both[j] = list[j] /\ k - n \in 1 .. m /\ both[k] = more[k - n]
      BY <1>1, <2>2
    <3>2. list[j].strID # more[k - n].strID /\ list[j].min \in X /\ more[k - n].min \in Y
      BY <1>1, <2>2, <3>1
    <3> QED BY <3>1, <3>2
  <2>3. CASE j \notin 1 .. n /\ k \in 1 .. n
    <3>1. both[k] = list[k] /\ j - n \in 1 .. m /\ both[j] = more[j - n]
      BY <1>1, <2>3
    <3>2. list[k].strID # more[j - n].strID /\ list[k].min \in X /\ more[j - n].min \in Y
      BY <1>1, <2>3, <3>1
    <3> QED BY <3>1, <3>2
  <2>4. CASE j \notin 1 .. n /\ k \notin 1 .. n
    <3>1. j - n \in 1 .. m /\ k - n \in 1 .. m /\ both[j] = more[j - n] /\ both[k] = more[k - n]
      BY <1>1, <2>4
    <3>2. j - n # k - n
      BY <1>1, <1>2
    <3>3. more[j - n].strID # more[k - n].strID /\ more[j - n].min # more[k - n].min
      BY <1>1, <3>1, <3>2 DEF NamesApart, StartsApart
    <3> QED BY <3>1, <3>3
  <2> QED BY <2>1, <2>2, <2>3, <2>4
<1> QED BY <1>1, <1>2, ZenonT(60) DEF NamesApart, StartsApart

\* The lists of regions and of addresses grow together.
LEMMA AppendAddrs ==
  ASSUME NEW list \in Seq(AnyRegion), NEW more \in Seq(AnyRegion),
         NEW addrs \in Seq(Int \X Int), SameAddrs(list, addrs),
         NEW others, others = [j \in DOMAIN more |-> Addrs(more[j])]
  PROVE  addrs \o others \in Seq(Int \X Int) /\ SameAddrs(list \o more, addrs \o others)
<1> DEFINE n == Len(list)
           m == Len(more)
           both == list \o more
           all == addrs \o others
<1>1. m \in Nat /\ DOMAIN more = 1 .. m
  OBVIOUS
<1>2. others \in Seq(Int \X Int) /\ Len(others) = m /\ \A j \in 1 .. m : others[j] = Addrs(more[j])
  <2>1. \A j \in 1 .. m : Addrs(more[j]) \in Int \X Int
    <3>1. \A j \in 1 .. m : more[j] \in AnyRegion
      BY <1>1
    <3> QED BY <3>1, AddrsOf
  <2>2. others \in [1 .. m -> Int \X Int] /\ \A j \in 1 .. m : others[j] = Addrs(more[j])
    BY <1>1, <2>1
  <2> HIDE DEF m
  <2> QED BY <1>1, <2>2, FunctionIsSeq
<1>3. /\ n \in Nat
      /\ DOMAIN list = 1 .. n /\ DOMAIN both = 1 .. n + m /\ Len(both) = n + m
      /\ \A i \in 1 .. n : i \in 1 .. n + m /\ both[i] = list[i]
      /\ \A i \in 1 .. m : i + n \in 1 .. n + m /\ both[i + n] = more[i]
      /\ \A i \in 1 .. n + m :
           i \notin 1 .. n => i - n \in 1 .. m /\ both[i] = more[i - n]
  BY ConcatFacts
<1>4. Len(addrs) = n
  BY DEF SameAddrs
<1>5. /\ all \in Seq(Int \X Int) /\ DOMAIN addrs = 1 .. n
      /\ DOMAIN all = 1 .. n + m /\ Len(all) = n + m
      /\ \A i \in 1 .. n : all[i] = addrs[i]
      /\ \A i \in 1 .. m : all[i + n] = others[i]
      /\ \A i \in 1 .. n + m :
           i \notin 1 .. n => i - n \in 1 .. m /\ all[i] = others[i - n]
  <2>1. /\ all \in Seq(Int \X Int) /\ Len(all) = Len(addrs) + Len(others)
        /\ DOMAIN addrs = 1 .. Len(addrs) /\ DOMAIN all = 1 .. Len(addrs) + Len(others)
        /\ \A i \in 1 .. Len(addrs) : all[i] = addrs[i]
        /\ \A i \in 1 .. Len(others) : all[i + Len(addrs)] = others[i]
        /\ \A i \in 1 .. Len(addrs) + Len(others) :
             i \notin 1 .. Len(addrs) =>
               i - Len(addrs) \in 1 .. Len(others) /\ all[i] = others[i - Len(addrs)]
    <3> DEFINE S == Int \X Int
    <3>1. addrs \in Seq(S) /\ others \in Seq(S)
      BY <1>2
    <3>2. all = addrs \o others
      OBVIOUS
    <3> HIDE DEF all, S
    <3>3. all \in Seq(S)
      BY <3>1, <3>2, ConcatFacts
    <3> QED BY <3>1, <3>2, <3>3, ConcatFacts DEF S
  <2>2. Len(addrs) = n /\ Len(others) = m
    BY <1>2, <1>4
  <2> HIDE DEF all, n, m
  <2> QED BY <2>1, <2>2
<1> HIDE DEF n, m, both, all
<1>6. /\ \A j \in 1 .. n : \E k \in 1 .. n : addrs[k] = Addrs(list[j])
      /\ \A k \in 1 .. n : \E j \in 1 .. n : addrs[k] = Addrs(list[j])
  <2>1. DOMAIN list = 1 .. n /\ DOMAIN addrs = 1 .. n
    BY <1>3, <1>5
  <2> QED BY <2>1, Zenon DEF SameAddrs
<1>7. ASSUME NEW j \in 1 .. n + m PROVE \E k \in 1 .. n + m : all[k] = Addrs(both[j])
  <2>1. CASE j \in 1 .. n
    <3>1. PICK k \in 1 .. n : addrs[k] = Addrs(list[j])
      BY <1>6, <2>1
    <3> QED BY <1>3, <1>5, <2>1, <3>1
  <2>2. CASE j \notin 1 .. n
    <3>1. j - n \in 1 .. m /\ both[j] = more[j - n] /\ all[j] = others[j - n]
      BY <1>3, <1>5, <2>2
    <3> QED BY <1>2, <3>1
  <2> QED BY <2>1, <2>2
<1>8. ASSUME NEW k \in 1 .. n + m PROVE \E j \in 1 .. n + m : all[k] = Addrs(both[j])
  <2>1. CASE k \in 1 .. n
    <3>1. PICK j \in 1 .. n : addrs[k] = Addrs(list[j])
      BY <1>6, <2>1
    <3> QED BY <1>3, <1>5, <2>1, <3>1
  <2>2. CASE k \notin 1 .. n
    <3>1. k - n \in 1 .. m /\ both[k] = more[k - n] /\ all[k] = others[k - n]
      BY <1>3, <1>5, <2>2
    <3> QED BY <1>2, <3>1
  <2> QED BY <2>1, <2>2
<1>9. SameAddrs(both, all)
  <2>1. DOMAIN both = 1 .. n + m /\ DOMAIN all = 1 .. n + m /\ Len(both) = Len(all)
    BY <1>3, <1>5
  <2> QED BY <1>7, <1>8, <2>1, Zenon DEF SameAddrs
<1> QED BY <1>5, <1>9 DEF both, all

\* A child has a name no region has.
LEMMA NameOfChild ==
  ASSUME NEW id, NEW k \in Nat, IsName(id, k), NEW n
  PROVE  id # <<HotIns, k - 1, n>>
<1>1. CASE id \in Seq(Nat)
  <2> SUFFICES ASSUME id = <<HotIns, k - 1, n>> PROVE FALSE
    OBVIOUS
  <2>1. Len(id) = 3 /\ id[1] = -1
    BY DEF HotIns
  <2>2. id[1] \in Nat
    BY <1>1, <2>1
  <2> QED BY <2>1, <2>2
<1>2. ASSUME NEW m \in Nat, NEW i, m < k - 1, id = <<HotIns, m, i>>
      PROVE  id # <<HotIns, k - 1, n>>
  <2>1. m # k - 1
    BY <1>2
  <2> QED BY <1>2, <2>1
<1> QED BY <1>1, <1>2 DEF IsName

\* ... when the children of a range are added,
LEMMA AddR ==
  ASSUME RInv, AddRange, IInv'
  PROVE  RInv'
<1> DEFINE r == Current
           runs == Children(getAccessCount(r))
           children == [n \in DOMAIN runs |-> Child(r, runs[n], n)]
<1>1. /\ phase = "add" /\ phase' = "add" /\ next \in DOMAIN hot /\ next' = next + 1
      /\ trace' = trace /\ zoomed' = zoomed /\ hot' = hot /\ insMap' = insMap /\ itr' = itr
      /\ regionId' = regionId /\ ~Covered(r)
      /\ insnRegSet' = insnRegSet \cup (r[1] .. r[2])
      /\ regions' = regions \o children
      /\ setRegionAddr' = setRegionAddr \o [n \in DOMAIN children |-> Addrs(children[n])]
  BY DEF AddRange, countVars
<1>2. Seen'
  BY <1>1 DEF RInv, Seen
<1>3. next \in Nat \ {0} /\ HotRanges'
  <2>1. next + 1 \in Nat \ {0} /\ next \in Nat \ {0}
    BY DEF RInv, HotRanges
  <2> QED BY <1>1, <2>1 DEF RInv, HotRanges
<1>4. Lists
  BY <1>1 DEF RInv, Collecting
<1>5. /\ trace \in Seq(Line) /\ IsRange(trace, r) /\ r \in Nat \X Nat
      /\ r[1] \in Nat /\ r[2] \in Nat /\ r[1] < r[2]
  BY <1>1, CurrentFacts
<1>6. /\ insnRegSet \cap (r[1] .. r[2]) = {}
      /\ insnRegSet' \subseteq Nat /\ IsFiniteSet(insnRegSet')
  <2>1. insnRegSet \subseteq Nat /\ IsFiniteSet(insnRegSet)
    BY <1>4 DEF Lists
  <2>2. ~(iterative_size(insnRegSet \cup (r[1] .. r[2])) <= iterative_size(insnRegSet))
    BY <1>1 DEF Covered
  <2> HIDE DEF r
  <2>3. insnRegSet \cap (r[1] .. r[2]) = {}
    <3> DEFINE l == r[1]
               u == r[2]
    <3>1. l \in Nat /\ u \in Nat /\ l <= u
      BY <1>5
    <3>2. ~(iterative_size(insnRegSet \cup (l .. u)) <= iterative_size(insnRegSet))
      BY <2>2
    <3> HIDE DEF l, u
    <3>3. insnRegSet \cap (l .. u) = {}
      BY <2>1, <3>1, <3>2, FreshRange, ZenonT(30)
    <3> QED BY <3>3 DEF l, u
  <2> QED BY <1>1, <1>5, <2>1, <2>3, WithRange
<1>7. /\ runs \in Seq(Int \X Int)
      /\ \A j, k \in DOMAIN runs : j # k => runs[j][1] # runs[k][1]
  <2>1. IsCount(getAccessCount(r), BlockCount(r))
    BY <1>5, CountOfRange
  <2> HIDE DEF r
  <2> QED BY <2>1, ChildrenFacts
<1>8. \A n \in DOMAIN runs :
        /\ Child(r, runs[n], n) \in AnyRegion
        /\ Child(r, runs[n], n).min = r[1] + OSPageSize * runs[n][1]
        /\ Child(r, runs[n], n).min \in r[1] .. r[2]
        /\ runs[n][1] \in Nat
        /\ Child(r, runs[n], n).strID =
             <<HotIns, next - 1, IF HotRuns(getAccessCount(r)) = << >> THEN n ELSE n - 1>>
  BY <1>1, ChildFacts
<1> HIDE DEF r, runs
<1>9. /\ children \in Seq(AnyRegion) /\ DOMAIN children = DOMAIN runs
      /\ \A n \in DOMAIN runs : children[n] = Child(r, runs[n], n)
  <2>1. Len(runs) \in Nat /\ DOMAIN runs = 1 .. Len(runs)
    BY <1>7
  <2>2. children \in [1 .. Len(runs) -> AnyRegion]
    BY <1>8, <2>1
  <2>3. \A n \in DOMAIN runs : children[n] = Child(r, runs[n], n)
    OBVIOUS
  <2> HIDE DEF children
  <2> QED BY <2>1, <2>2, <2>3, FunctionIsSeq
<1> HIDE DEF children
<1>10. StartsApart(children)
  <2> SUFFICES ASSUME NEW j \in DOMAIN runs, NEW k \in DOMAIN runs, j # k
               PROVE  children[j].min # children[k].min
    BY <1>9 DEF StartsApart
  <2>1. runs[j][1] # runs[k][1] /\ runs[j][1] \in Nat /\ runs[k][1] \in Nat
    BY <1>7, <1>8
  <2>2. OSPageSize * runs[j][1] # OSPageSize * runs[k][1]
    BY <2>1, BlockStartsApart
  <2>3. OSPageSize * runs[j][1] \in Nat /\ OSPageSize * runs[k][1] \in Nat
    <3>1. OSPageSize \in Nat
      BY HotAssumption DEF HotAssumption
    <3> QED BY <2>1, <3>1, TimesNat
  <2>4. /\ children[j].min = r[1] + OSPageSize * runs[j][1]
        /\ children[k].min = r[1] + OSPageSize * runs[k][1]
    BY <1>8, <1>9
  <2> QED BY <1>5, <2>2, <2>3, <2>4
<1> DEFINE name(n) == <<HotIns, next - 1, IF HotRuns(getAccessCount(r)) = << >> THEN n ELSE n - 1>>
<1>11. \A n \in DOMAIN runs : children[n].strID = name(n)
  BY <1>8, <1>9
<1>12. NamesApart(children)
  <2> SUFFICES ASSUME NEW j \in DOMAIN runs, NEW k \in DOMAIN runs, j # k
               PROVE  children[j].strID # children[k].strID
    BY <1>9 DEF NamesApart
  <2>1. j \in Int /\ k \in Int
    BY <1>7
  <2>2. name(j) # name(k)
    BY <2>1
  <2> QED BY <1>11, <2>2
<1>13. \A j \in DOMAIN regions, k \in DOMAIN children : regions[j].strID # children[k].strID
  <2> SUFFICES ASSUME NEW j \in DOMAIN regions, NEW k \in DOMAIN runs
               PROVE  regions[j].strID # children[k].strID
    BY <1>9
  <2>1. IsName(regions[j].strID, next)
    BY <1>4 DEF Lists
  <2>2. regions[j].strID # name(k)
    BY <1>3, <2>1, NameOfChild
  <2> QED BY <1>11, <2>2
<1>14. /\ regions' \in Seq(AnyRegion) /\ NamesApart(regions')
       /\ StartsApart(regions) => StartsApart(regions')
  <2>1. regions \in Seq(AnyRegion) /\ NamesApart(regions)
        /\ \A j \in DOMAIN regions : regions[j].min \in insnRegSet
    BY <1>4 DEF Lists
  <2>2. \A j \in DOMAIN children : children[j].min \in r[1] .. r[2]
    BY <1>8, <1>9
  <2> DEFINE Y == r[1] .. r[2]
  <2>3. insnRegSet \cap Y = {} /\ \A j \in DOMAIN children : children[j].min \in Y
    BY <1>6, <2>2
  <2> HIDE DEF Y
  <2>4. NamesApart(regions') /\ (StartsApart(regions) => StartsApart(regions'))
    BY <1>1, <1>9, <1>10, <1>12, <1>13, <2>1, <2>3, AppendLists
  <2>5. regions' \in Seq(AnyRegion)
    BY <1>1, <1>9, <2>1
  <2> QED BY <2>4, <2>5
<1>15. setRegionAddr' \in Seq(Int \X Int) /\ SameAddrs(regions', setRegionAddr')
  <2>1. regions \in Seq(AnyRegion) /\ setRegionAddr \in Seq(Int \X Int)
        /\ SameAddrs(regions, setRegionAddr)
    BY <1>4 DEF Lists
  <2> DEFINE others == [n \in DOMAIN children |-> Addrs(children[n])]
  <2>2. setRegionAddr \o others \in Seq(Int \X Int)
        /\ SameAddrs(regions \o children, setRegionAddr \o others)
    BY <1>9, <2>1, AppendAddrs
  <2> HIDE DEF others
  <2>3. setRegionAddr' = setRegionAddr \o others
    BY <1>1 DEF others
  <2> QED BY <1>1, <2>2, <2>3
<1>16. ASSUME NEW j \in DOMAIN regions'
       PROVE  regions'[j].min \in insnRegSet' /\ IsName(regions'[j].strID, next + 1)
  <2> DEFINE n == Len(regions)
  <2>1. /\ regions \in Seq(AnyRegion)
        /\ \A i \in DOMAIN regions : regions[i].min \in insnRegSet /\ IsName(regions[i].strID, next)
    BY <1>4 DEF Lists
  <2>2. /\ DOMAIN regions = 1 .. n /\ DOMAIN children = 1 .. Len(children)
        /\ DOMAIN regions' = 1 .. n + Len(children)
        /\ \A i \in 1 .. n : regions'[i] = regions[i]
        /\ \A i \in 1 .. n + Len(children) :
             i \notin 1 .. n => i - n \in 1 .. Len(children) /\ regions'[i] = children[i - n]
    BY <1>1, <1>9, <2>1, ConcatFacts
  <2> HIDE DEF n
  <2>3. CASE j \in 1 .. n
    <3>1. regions'[j] = regions[j] /\ regions[j].min \in insnRegSet /\ IsName(regions[j].strID, next)
      BY <2>1, <2>2, <2>3
    <3>2. IsName(regions[j].strID, next + 1)
      BY <1>3, <3>1, LaterNames
    <3> QED BY <1>1, <3>1, <3>2
  <2>4. CASE j \notin 1 .. n
    <3> DEFINE k == j - n
    <3>1. k \in DOMAIN runs /\ regions'[j] = children[k]
      BY <1>9, <2>2, <2>4
    <3> HIDE DEF k
    <3>2. children[k].min \in r[1] .. r[2]
      BY <1>8, <1>9, <3>1
    <3>3. IsName(name(k), next + 1)
      <4>1. next - 1 \in Nat /\ next - 1 < (next + 1) - 1 /\ k \in Int
        BY <1>3, <1>7, <3>1
      <4>2. (IF HotRuns(getAccessCount(r)) = << >> THEN k ELSE k - 1) \in Int
        BY <4>1
      <4> QED BY <4>1, <4>2 DEF IsName
    <3> QED BY <1>1, <1>11, <3>1, <3>2, <3>3
  <2> QED BY <2>3, <2>4
<1>17. Lists'
  <2>1. StartsApart(zoomed') => StartsApart(regions')
    BY <1>1, <1>4, <1>14 DEF Lists
  <2> QED BY <1>1, <1>6, <1>14, <1>15, <1>16, <2>1 DEF Lists
<1>18. Collecting'
  BY <1>1, <1>17 DEF RInv, Collecting
<1>19. Selected' /\ RegionIndexAgrees'
  BY <1>1 DEF Selected, RegionIndexAgrees
<1> QED BY <1>2, <1>3, <1>18, <1>19 DEF RInv

\* ... when the regions are sorted by their addresses,
LEMMA SelectR ==
  ASSUME RInv, SelectRegions, IInv'
  PROVE  RInv'
<1> DEFINE sorted == Sorted(setRegionAddr)
           found  == Ascending({x \in (DOMAIN sorted) \X (DOMAIN regions) :
                                  Addrs(regions[x[2]]) = sorted[x[1]]})
<1>1. /\ phase = "add" /\ phase' \in {"number", "done"}
      /\ setRegionAddr' = sorted
      /\ final' = [k \in DOMAIN found |-> regions[found[k][2]]]
      /\ trace' = trace /\ zoomed' = zoomed /\ hot' = hot /\ next' = next
      /\ insMap' = insMap /\ itr' = itr /\ regionId' = regionId
  BY DEF SelectRegions, countVars
<1>2. Seen' /\ HotRanges'
  BY <1>1 DEF RInv, Seen, HotRanges
<1>3. Lists /\ regionId = << >>
  BY <1>1 DEF RInv, Collecting
<1>4. Collecting'
  BY <1>1 DEF RInv, Collecting
<1> DEFINE n == Len(sorted)
<1>5. ASSUME StartsApart(zoomed)
      PROVE  /\ final' \in Seq(AnyRegion) /\ sorted \in Seq(Int \X Int)
             /\ n \in Nat /\ DOMAIN final' = 1 .. n /\ Len(final') = n
             /\ \A k \in 1 .. n : Addrs(final'[k]) = sorted[k]
             /\ \A j, k \in 1 .. n : j < k =>
                  final'[j].min < final'[k].min /\ final'[j].strID # final'[k].strID
  <2>1. /\ regions \in Seq(AnyRegion) /\ setRegionAddr \in Seq(Int \X Int)
        /\ SameAddrs(regions, setRegionAddr) /\ StartsApart(regions) /\ NamesApart(regions)
    BY <1>3, <1>5 DEF Lists
  <2>2. /\ sorted \in Seq(Int \X Int) /\ DOMAIN found = DOMAIN sorted
        /\ \A k \in DOMAIN sorted :
             found[k][2] \in DOMAIN regions /\ Addrs(regions[found[k][2]]) = sorted[k]
        /\ \A j, k \in DOMAIN sorted : j < k =>
             /\ regions[found[j][2]].min < regions[found[k][2]].min
             /\ regions[found[j][2]].strID # regions[found[k][2]].strID
    BY <2>1, SelectFacts, SMTT(40)
  <2> HIDE DEF sorted, found
  <2>3. n \in Nat /\ DOMAIN sorted = 1 .. n
    BY <2>2
  <2> HIDE DEF n
  <2>4. \A k \in 1 .. n : final'[k] = regions[found[k][2]]
    BY <1>1, <2>2, <2>3
  <2>5. final' \in [1 .. n -> AnyRegion]
    <3>1. \A k \in 1 .. n : regions[found[k][2]] \in AnyRegion
      <4>1. \A k \in 1 .. n : found[k][2] \in DOMAIN regions
        BY <2>2, <2>3
      <4>2. \A i \in DOMAIN regions : regions[i] \in AnyRegion
        BY <2>1
      <4> QED BY <4>1, <4>2, Zenon
    <3>2. final' = [k \in 1 .. n |-> regions[found[k][2]]]
      BY <1>1, <2>2, <2>3
    <3> QED BY <3>1, <3>2
  <2>6. final' \in Seq(AnyRegion) /\ Len(final') = n /\ DOMAIN final' = 1 .. n
    BY <2>3, <2>5, FunctionIsSeq
  <2>7. \A k \in 1 .. n : Addrs(final'[k]) = sorted[k]
    BY <2>2, <2>3, <2>4
  <2>8. ASSUME NEW j \in 1 .. n, NEW k \in 1 .. n, j < k
        PROVE  final'[j].min < final'[k].min /\ final'[j].strID # final'[k].strID
    <3>1. /\ regions[found[j][2]].min < regions[found[k][2]].min
          /\ regions[found[j][2]].strID # regions[found[k][2]].strID
      BY <2>2, <2>3, <2>8
    <3> QED BY <2>4, <3>1
  <2> QED BY <2>2, <2>3, <2>6, <2>7, <2>8, Zenon
<1> HIDE DEF sorted, found
<1>6. Selected'
  BY <1>1, <1>5 DEF Selected
<1>7. RegionIndexAgrees'
  <2>1. \A k \in DOMAIN regionId' : FALSE
    BY <1>1, <1>3
  <2> SUFFICES ASSUME StartsApart(zoomed)
               PROVE  /\ Len(final') = Len(setRegionAddr')
                      /\ \A k \in DOMAIN final' : Addrs(final'[k]) = setRegionAddr'[k]
                      /\ \A j, k \in DOMAIN final' : j < k =>
                           final'[j].min < final'[k].min /\ final'[j].strID # final'[k].strID
    BY <1>1, <2>1, Zenon DEF RegionIndexAgrees
  <2> QED BY <1>1, <1>5
<1> QED BY <1>2, <1>4, <1>6, <1>7 DEF RInv

\* The region of an address is one it is in.
LEMMA RegionOfFacts ==
  ASSUME NEW a, RegionOf(a) < NonHot, setRegionAddr \in Seq(Int \X Int)
  PROVE  LET k == RegionOf(a) + 1
         IN  k \in DOMAIN setRegionAddr /\ setRegionAddr[k][1] <= a /\ a <= setRegionAddr[k][2]
<1> DEFINE in == {k \in DOMAIN setRegionAddr :
                    setRegionAddr[k][1] <= a /\ a <= setRegionAddr[k][2]}
<1>1. RegionOf(a) = IF in # {} THEN Min(in) - 1 ELSE IF a > heapAddrEnd THEN Stack ELSE NonHot
  BY DEF RegionOf
<1>2. in \subseteq Nat /\ in \subseteq DOMAIN setRegionAddr
  OBVIOUS
<1>3. \A k \in in : setRegionAddr[k][1] <= a /\ a <= setRegionAddr[k][2]
  OBVIOUS
<1> HIDE DEF in
<1>4. in # {}
  BY <1>1 DEF NonHot, Stack
<1>5. Min(in) \in in
  BY <1>2, <1>4, MinOfSet
<1>6. RegionOf(a) = Min(in) - 1
  BY <1>1, <1>4
<1> DEFINE m == Min(in)
<1>7. m \in Nat /\ RegionOf(a) = m - 1 /\ m \in in
  BY <1>2, <1>5, <1>6
<1> HIDE DEF m
<1>8. RegionOf(a) + 1 = m
  BY <1>7
<1> QED BY <1>2, <1>3, <1>7, <1>8

\* ... and when the trace gets its ids.
LEMMA UpdateR ==
  ASSUME RInv, updateTraceRegion, IInv'
  PROVE  RInv'
<1>1. /\ phase = "number" /\ phase' = "done"
      /\ regionId' = [k \in DOMAIN trace |-> RegionOf(trace[k].addr)]
      /\ trace' = trace /\ zoomed' = zoomed /\ hot' = hot /\ next' = next
      /\ insMap' = insMap /\ itr' = itr /\ setRegionAddr' = setRegionAddr /\ final' = final
  BY DEF updateTraceRegion, countVars, regionVars
<1>2. Seen' /\ HotRanges'
  BY <1>1 DEF RInv, Seen, HotRanges
<1>3. Collecting'
  BY <1>1 DEF RInv, Collecting
<1>4. Selected'
  BY <1>1 DEF RInv, Selected
<1>5. RegionIndexAgrees'
  <2> SUFFICES ASSUME StartsApart(zoomed)
               PROVE  /\ Len(final) = Len(setRegionAddr)
                      /\ \A k \in DOMAIN final : Addrs(final[k]) = setRegionAddr[k]
                      /\ \A j, k \in DOMAIN final : j < k =>
                           final[j].min < final[k].min /\ final[j].strID # final[k].strID
                      /\ \A k \in DOMAIN regionId' : regionId'[k] < NonHot =>
                           /\ final[regionId'[k] + 1].min <= trace[k].addr
                           /\ trace[k].addr <= final[regionId'[k] + 1].max
    BY <1>1, SMTT(40) DEF RegionIndexAgrees
  <2>1. /\ Len(final) = Len(setRegionAddr)
        /\ \A k \in DOMAIN final : Addrs(final[k]) = setRegionAddr[k]
        /\ \A j, k \in DOMAIN final : j < k =>
             final[j].min < final[k].min /\ final[j].strID # final[k].strID
    BY <1>1, Zenon DEF RInv, RegionIndexAgrees
  <2>2. final \in Seq(AnyRegion) /\ setRegionAddr \in Seq(Int \X Int)
    BY <1>1 DEF RInv, Selected
  <2>3. DOMAIN final = DOMAIN setRegionAddr
    BY <2>1, <2>2
  <2>4. ASSUME NEW k \in DOMAIN regionId', regionId'[k] < NonHot
        PROVE  /\ final[regionId'[k] + 1].min <= trace[k].addr
               /\ trace[k].addr <= final[regionId'[k] + 1].max
    <3> DEFINE a == trace[k].addr
               m == RegionOf(a) + 1
    <3>1. regionId'[k] = RegionOf(a)
      BY <1>1
    <3>2. RegionOf(a) < NonHot
      BY <2>4, <3>1
    <3>3. m \in DOMAIN setRegionAddr /\ setRegionAddr[m][1] <= a /\ a <= setRegionAddr[m][2]
      BY <2>2, <3>2, RegionOfFacts
    <3>4. regionId'[k] + 1 = m
      BY <3>1
    <3> HIDE DEF m
    <3>5. Addrs(final[m]) = setRegionAddr[m]
      BY <2>1, <2>3, <3>3
    <3>6. setRegionAddr[m][1] = final[m].min /\ setRegionAddr[m][2] = final[m].max
      BY <3>5 DEF Addrs
    <3> QED BY <3>3, <3>4, <3>6
  <2> QED BY <2>1, <2>4, Zenon
<1> QED BY <1>2, <1>3, <1>4, <1>5 DEF RInv

\* HotLines leaves it alone.
LEMMA StutterR ==
  ASSUME RInv, UNCHANGED hotVars, IInv'
  PROVE  RInv'
<1>1. /\ trace' = trace /\ itr' = itr /\ insMap' = insMap
  BY DEF hotVars, countVars
<1>2. /\ hot' = hot /\ next' = next /\ insnRegSet' = insnRegSet
      /\ regions' = regions /\ setRegionAddr' = setRegionAddr
  BY DEF hotVars, regionVars
<1>3. phase' = phase /\ zoomed' = zoomed /\ final' = final /\ regionId' = regionId
  BY DEF hotVars
<1>4. Seen' /\ HotRanges'
  BY <1>1, <1>2 DEF RInv, Seen, HotRanges
<1>5. Collecting'
  BY <1>2, <1>3 DEF RInv, Collecting, Lists
<1>6. Selected'
  BY <1>2, <1>3 DEF RInv, Selected
<1>7. RegionIndexAgrees'
  BY <1>1, <1>2, <1>3 DEF RInv, RegionIndexAgrees
<1> QED BY <1>4, <1>5, <1>6, <1>7 DEF RInv

\* Every step of HotLines is one of HotRegions or leaves its state alone.
LEMMA NextR ==
  ASSUME RInv, [Next]_vars
  PROVE  RInv'
<1>1. IInv
  BY DEF RInv
<1>2. CASE CountInsn
  BY <1>1, <1>2, CountStep, CountR
<1>3. CASE Coalesce
  BY <1>1, <1>3, LaterStep, CoalesceR
<1>4. CASE SkipRange
  BY <1>1, <1>4, LaterStep, SkipR
<1>5. CASE AddRange
  BY <1>1, <1>5, LaterStep, AddR
<1>6. CASE SelectRegions
  BY <1>1, <1>6, LaterStep, SelectR
<1>7. CASE updateTraceRegion
  BY <1>1, <1>7, LaterStep, UpdateR
<1>8. CASE UNCHANGED hotVars
  BY <1>1, <1>8, LaterStep, StutterR
<1>9. RegionsNext \/ UNCHANGED hotVars
  BY DEF Next, FindPages, CountLines, AbortWithoutLines, SelectTopLines, vars
<1> QED BY <1>2, <1>3, <1>4, <1>5, <1>6, <1>7, <1>8, <1>9 DEF RegionsNext

\* The invariant is enough for what a range is taken apart into.
LEMMA ChildrenR ==
  ASSUME RInv
  PROVE  ChildrenAccessed
<1> SUFFICES ASSUME phase = "add", next \in DOMAIN hot
             PROVE  LET r     == Current
                        count == getAccessCount(r)
                        runs  == Children(count)
                    IN  /\ HotRuns(count) = << >> => Len(runs) = 2
                        /\ LeftOut(count) = {} =>
                             \A n \in DOMAIN runs :
                               Sum(count, runs[n][1] .. runs[n][1] + runs[n][2] - 1) > 0
  BY Zenon DEF ChildrenAccessed
<1> DEFINE count == getAccessCount(Current)
<1>1. IsCount(count, BlockCount(Current))
  BY CurrentFacts, CountOfRange
<1> HIDE DEF count
<1> QED BY <1>1, ChildrenFacts DEF count

\* For any trace, any hot instructions and any regions of the zoom, unless it
\* has found two with the same start: the id a trace line gets is that of a
\* region that has its address, in setRegionAddr as in finalRegionList, and no
\* two regions have the same start or the same name (main.cpp:1055-1207,
\* memoryanalysis.cpp:253-280).
THEOREM RegionIndexAgreesCorrect == Spec => []RegionIndexAgrees
<1>1. Init => RInv
  <2> SUFFICES ASSUME Init PROVE RInv
    OBVIOUS
  <2> QED BY InitI, InitR
<1>2. RInv /\ [Next]_vars => RInv'
  BY NextR
<1>3. RInv => RegionIndexAgrees
  BY DEF RInv
<1> QED BY <1>1, <1>2, <1>3, PTL DEF Spec

\* Any hot range is taken apart without a look at a second group of one, and
\* into pages that have accesses (main.cpp:272-375).  With up to MaxGroups
\* blocks there are at most ZoomShare runs, so that one of them is hot.
THEOREM ChildrenAccessedCorrect == Spec => []ChildrenAccessed
<1>1. Init => RInv
  <2> SUFFICES ASSUME Init PROVE RInv
    OBVIOUS
  <2> QED BY InitI, InitR
<1>2. RInv /\ [Next]_vars => RInv'
  BY NextR
<1>3. RInv => ChildrenAccessed
  BY ChildrenR
<1> QED BY <1>1, <1>2, <1>3, PTL DEF Spec
=============================================================================
