---------------------------- MODULE SetsOfNumbers ----------------------------
(***************************************************************************)
(* Least and greatest elements of sets of natural numbers, induction over  *)
(* numbers and over finite sets, and sums over finite sets, for the proofs.*)
(* The induction lemmas are about a set, where the library's are about an  *)
(* operator: what is to be proved of n is put as n \in {m \in Nat : ...}.  *)
(***************************************************************************)
EXTENDS Integers, FiniteSets, FiniteSetTheorems, WellFoundedInduction,
        Functions, TLAPS

\* A non-empty set of natural numbers has a least element.
LEMMA LeastElement ==
  ASSUME NEW S, S \subseteq Nat, S # {}
  PROVE  \E x \in S : \A y \in S : x <= y
<1>1. \E x \in S : \A y \in S : ~ (<<y, x>> \in OpToRel(<, Nat))
  BY NatLessThanWellFounded, WFMin
<1>2. PICK x \in S : \A y \in S : ~ (<<y, x>> \in OpToRel(<, Nat))
  BY <1>1
<1>3. ASSUME NEW y \in S PROVE x <= y
  <2>1. x \in Nat /\ y \in Nat
    OBVIOUS
  <2>2. ~(y < x)
    BY <1>2, <2>1, Zenon DEF OpToRel
  <2> QED BY <2>1, <2>2
<1> QED BY <1>3

\* A non-empty set of numbers up to N has a greatest element.
LEMMA GreatestElement ==
  ASSUME NEW N \in Nat, NEW S, S \subseteq 0 .. N, S # {}
  PROVE  \E x \in S : \A y \in S : y <= x
<1> DEFINE T == {N - x : x \in S}
<1>1. T \subseteq Nat /\ T # {}
  <2>1. ASSUME NEW x \in S PROVE N - x \in Nat
    OBVIOUS
  <2> QED BY <2>1
<1>2. PICK z \in T : \A y \in T : z <= y
  BY <1>1, LeastElement
<1>3. PICK x \in S : z = N - x
  BY <1>2
<1>4. ASSUME NEW y \in S PROVE y <= x
  <2>1. z <= N - y
    BY <1>2
  <2> QED BY <1>3, <2>1
<1> QED BY <1>4

\* Induction over the natural numbers, for a set.
LEMMA NatSetInduction ==
  ASSUME NEW P, 0 \in P, \A n \in Nat : n \in P => n + 1 \in P
  PROVE  Nat \subseteq P
<1> SUFFICES ASSUME Nat \ P # {} PROVE FALSE
  OBVIOUS
<1>1. PICK n \in Nat \ P : \A m \in Nat \ P : n <= m
  BY LeastElement
<1>2. n # 0 /\ n - 1 \in Nat /\ ~(n <= n - 1)
  BY <1>1
<1>3. n - 1 \in P
  BY <1>1, <1>2
<1>4. (n - 1) + 1 = n
  BY <1>1
<1> QED BY <1>1, <1>2, <1>3, <1>4

\* Induction over the subsets of a finite set, from all the smaller ones.
LEMMA SmallerSetInduction ==
  ASSUME NEW S, IsFiniteSet(S), NEW P,
         \A T \in SUBSET S : (\A U \in SUBSET T : U # T => U \in P) => T \in P
  PROVE  SUBSET S \subseteq P
<1> SUFFICES ASSUME (SUBSET S) \ P # {} PROVE FALSE
  OBVIOUS
<1> DEFINE R == StrictSubsetOrdering(S)
           Bad == (SUBSET S) \ P
<1>1. IsWellFoundedOn(R, SUBSET S)
  <2>1. IsWellFoundedOn(R, FiniteSubsetsOf(S))
    BY FS_StrictSubsetOrderingWellFounded, Zenon
  <2>2. FiniteSubsetsOf(S) = SUBSET S
    BY FS_FiniteSubsetsOfFinite, Zenon
  <2> QED BY <2>1, <2>2, Zenon
<1>2. PICK T \in Bad : \A U \in Bad : ~ (<<U, T>> \in R)
  <2>1. Bad \subseteq SUBSET S /\ Bad # {}
    OBVIOUS
  <2> HIDE DEF R, Bad
  <2> QED BY <1>1, <2>1, WFMin
<1>3. ASSUME NEW U \in SUBSET T, U # T PROVE U \in P
  BY <1>2, <1>3 DEF StrictSubsetOrdering
<1> QED BY <1>2, <1>3

\* Induction over the subsets of a finite set, adding one element at a time.
LEMMA AddElementInduction ==
  ASSUME NEW S, IsFiniteSet(S), NEW P, {} \in P,
         \A T \in SUBSET S : \A x \in S \ T : T \in P => T \cup {x} \in P
  PROVE  S \in P
<1>1. ASSUME NEW T \in SUBSET S, \A U \in SUBSET T : U # T => U \in P
      PROVE  T \in P
  <2>1. CASE T = {}
    BY <2>1
  <2>2. CASE T # {}
    <3>1. PICK x \in T : TRUE
      BY <2>2
    <3>2. T \ {x} \in SUBSET T /\ T \ {x} # T /\ (T \ {x}) \cup {x} = T
      BY <3>1
    <3>3. T \ {x} \in P
      BY <1>1, <3>2
    <3> QED BY <3>1, <3>2, <3>3
  <2> QED BY <2>1, <2>2
<1>2. SUBSET S \subseteq P
  BY <1>1, SmallerSetInduction
<1> QED BY <1>2
-----------------------------------------------------------------------------
(* Sums: SumFunctionOnSet of the module Functions.                          *)

AnyOf(S) == CHOOSE x \in S : TRUE

\* g holds the sums of f over the subsets of S, as a fold computes them.
IsSum(g, f, S) ==
  g = [s \in SUBSET S |-> IF s = {} THEN 0 ELSE f[AnyOf(s)] + g[s \ {AnyOf(s)}]]

LEMMA SumIsFold ==
  ASSUME NEW f, NEW S
  PROVE  SumFunctionOnSet(f, S) = (CHOOSE g : IsSum(g, f, S))[S]
  BY Zenon DEF SumFunctionOnSet, FoldFunctionOnSet, MapThenFoldSet, IsSum, AnyOf

LEMMA AnyElement ==
  ASSUME NEW S, S # {}
  PROVE  AnyOf(S) \in S
  BY DEF AnyOf

\* What a fold computes, it computes whatever the set is a subset of.
LEMMA SumUnique ==
  ASSUME NEW S, IsFiniteSet(S), NEW f, NEW g, IsSum(g, f, S),
         NEW T \in SUBSET S, NEW h, IsSum(h, f, T)
  PROVE  h[T] = g[T]
<1> DEFINE P == {U \in SUBSET T : h[U] = g[U]}
<1>1. IsFiniteSet(T)
  BY FS_Subset
<1>2. ASSUME NEW U \in SUBSET T, \A V \in SUBSET U : V # U => V \in P
      PROVE  U \in P
  <2>1. CASE U = {}
    <3>1. h[U] = 0 /\ g[U] = 0
      BY <2>1 DEF IsSum
    <3> QED BY <3>1
  <2>2. CASE U # {}
    <3> DEFINE x == AnyOf(U)
    <3>1. x \in U
      BY <2>2, AnyElement
    <3> HIDE DEF x
    <3>2. U \ {x} \in SUBSET U /\ U \ {x} # U
      BY <3>1
    <3>3. h[U \ {x}] = g[U \ {x}]
      BY <1>2, <3>2
    <3>4. h[U] = f[x] + h[U \ {x}] /\ g[U] = f[x] + g[U \ {x}]
      BY <2>2 DEF IsSum, x
    <3> QED BY <3>3, <3>4
  <2> QED BY <2>1, <2>2
<1>3. SUBSET T \subseteq P
  <2> HIDE DEF P
  <2> QED BY <1>1, <1>2, SmallerSetInduction
<1> QED BY <1>3

\* Over a finite set a fold is defined: there is a function that holds it.
LEMMA SumExists ==
  ASSUME NEW S, IsFiniteSet(S), NEW f, \A x \in S : f[x] \in Int
  PROVE  \E g \in [SUBSET S -> Int] : IsSum(g, f, S)
<1> DEFINE Upto(n) == {s \in SUBSET S : Cardinality(s) <= n}
           Holds(g, n) ==
             g = [s \in Upto(n) |-> IF s = {} THEN 0
                                   ELSE f[AnyOf(s)] + g[s \ {AnyOf(s)}]]
           P == {n \in Nat : \E g \in [Upto(n) -> Int] : Holds(g, n)}
<1>1. \A s \in SUBSET S : IsFiniteSet(s) /\ Cardinality(s) \in Nat
  BY FS_Subset, FS_CardinalityType
<1>2. ASSUME NEW n \in Nat, NEW s \in Upto(n + 1), s # {}
      PROVE  /\ AnyOf(s) \in s /\ f[AnyOf(s)] \in Int
             /\ s \ {AnyOf(s)} \in Upto(n)
  <2>1. AnyOf(s) \in s
    BY <1>2, AnyElement
  <2>2. Cardinality(s \ {AnyOf(s)}) = Cardinality(s) - 1
    BY <1>1, <2>1, FS_RemoveElement
  <2>3. Cardinality(s) - 1 <= n
    BY <1>1
  <2> QED BY <2>1, <2>2, <2>3
<1>3. 0 \in P
  <2> DEFINE g == [s \in Upto(0) |-> 0]
  <2>1. \A s \in Upto(0) : s = {}
    BY <1>1, FS_EmptySet
  <2>2. g \in [Upto(0) -> Int]
    OBVIOUS
  <2>3. g = [s \in Upto(0) |-> IF s = {} THEN 0
                              ELSE f[AnyOf(s)] + g[s \ {AnyOf(s)}]]
    BY <2>1
  <2> QED BY <2>2, <2>3
<1>4. ASSUME NEW n \in Nat, n \in P PROVE n + 1 \in P
  <2>1. PICK g \in [Upto(n) -> Int] : Holds(g, n)
    BY <1>4
  <2> DEFINE h == [s \in Upto(n + 1) |-> IF s = {} THEN 0
                                   ELSE f[AnyOf(s)] + g[s \ {AnyOf(s)}]]
  <2>2. ASSUME NEW s \in Upto(n) PROVE s \in Upto(n + 1) /\ h[s] = g[s]
    <3>1. s \in Upto(n + 1)
      BY <1>1
    <3>2. g[s] = IF s = {} THEN 0 ELSE f[AnyOf(s)] + g[s \ {AnyOf(s)}]
      BY <2>1
    <3> QED BY <3>1, <3>2
  <2>3. ASSUME NEW s \in Upto(n + 1)
        PROVE  /\ h[s] \in Int
               /\ h[s] = IF s = {} THEN 0 ELSE f[AnyOf(s)] + h[s \ {AnyOf(s)}]
    <3>1. CASE s = {}
      BY <3>1
    <3>2. CASE s # {}
      <4> DEFINE u == s \ {AnyOf(s)}
      <4>1. u \in Upto(n) /\ f[AnyOf(s)] \in Int
        BY <1>2, <3>2
      <4>2. h[s] = f[AnyOf(s)] + g[u]
        BY <3>2
      <4> HIDE DEF u, h
      <4>3. g[u] \in Int /\ h[u] = g[u]
        BY <2>1, <2>2, <4>1
      <4> QED BY <3>2, <4>1, <4>2, <4>3 DEF u
    <3> QED BY <3>1, <3>2
  <2>4. h \in [Upto(n + 1) -> Int]
    <3>1. \A s \in Upto(n + 1) : h[s] \in Int
      BY <2>3
    <3> QED BY <3>1
  <2>5. Holds(h, n + 1)
    <3>1. DOMAIN h = Upto(n + 1) /\ h = [s \in Upto(n + 1) |-> h[s]]
      OBVIOUS
    <3> HIDE DEF h, Upto
    <3> QED BY <2>3, <3>1
  <2>6. \E k \in [Upto(n + 1) -> Int] : Holds(k, n + 1)
    <3> HIDE DEF h, Holds, Upto
    <3> QED BY <2>4, <2>5
  <2> HIDE DEF Holds, Upto
  <2> QED BY <2>6
<1>5. Cardinality(S) \in P
  <2> HIDE DEF P
  <2> QED BY <1>1, <1>3, <1>4, NatSetInduction
<1>6. Upto(Cardinality(S)) = SUBSET S
  BY FS_Subset
<1> QED BY <1>5, <1>6 DEF IsSum

LEMMA SumValue ==
  ASSUME NEW S, IsFiniteSet(S), NEW f, \A x \in S : f[x] \in Int,
         NEW g, IsSum(g, f, S), NEW T \in SUBSET S
  PROVE  SumFunctionOnSet(f, T) = g[T]
<1> DEFINE h == CHOOSE h : IsSum(h, f, T)
<1>1. IsFiniteSet(T) /\ \A x \in T : f[x] \in Int
  BY FS_Subset
<1>2. \E e : IsSum(e, f, T)
  <2>1. \E e \in [SUBSET T -> Int] : IsSum(e, f, T)
    BY <1>1, SumExists
  <2> QED BY <2>1
<1>3. IsSum(h, f, T)
  BY <1>2
<1>4. SumFunctionOnSet(f, T) = h[T]
  BY SumIsFold
<1> HIDE DEF h
<1>5. h[T] = g[T]
  BY <1>3, SumUnique
<1> QED BY <1>4, <1>5

\* A sum takes one element, any, and the rest.
LEMMA SumOfAny ==
  ASSUME NEW S, IsFiniteSet(S), NEW f, \A x \in S : f[x] \in Int
  PROVE  /\ SumFunctionOnSet(f, S) \in Int
         /\ S = {} => SumFunctionOnSet(f, S) = 0
         /\ S # {} => /\ AnyOf(S) \in S
                      /\ SumFunctionOnSet(f, S) =
                           f[AnyOf(S)] + SumFunctionOnSet(f, S \ {AnyOf(S)})
<1>1. PICK g \in [SUBSET S -> Int] : IsSum(g, f, S)
  BY SumExists
<1>2. \A T \in SUBSET S : SumFunctionOnSet(f, T) = g[T]
  BY <1>1, SumValue
<1>3. g[S] = IF S = {} THEN 0 ELSE f[AnyOf(S)] + g[S \ {AnyOf(S)}]
  BY <1>1 DEF IsSum
<1>4. SumFunctionOnSet(f, S) = g[S]
  BY <1>2
<1>5. g[S] \in Int
  BY <1>1
<1>6. S # {} => /\ AnyOf(S) \in S
                /\ SumFunctionOnSet(f, S \ {AnyOf(S)}) = g[S \ {AnyOf(S)}]
  BY <1>2, AnyElement
<1> QED BY <1>3, <1>4, <1>5, <1>6

LEMMA SumType ==
  ASSUME NEW S, IsFiniteSet(S), NEW f, \A x \in S : f[x] \in Int
  PROVE  SumFunctionOnSet(f, S) \in Int
  BY SumOfAny

LEMMA SumEmpty ==
  ASSUME NEW f
  PROVE  SumFunctionOnSet(f, {}) = 0
  BY SumOfAny, FS_EmptySet

\* Whichever element is taken first.
LEMMA SumRemove ==
  ASSUME NEW S, IsFiniteSet(S), NEW f, \A x \in S : f[x] \in Int, NEW a \in S
  PROVE  SumFunctionOnSet(f, S) = f[a] + SumFunctionOnSet(f, S \ {a})
<1> DEFINE sum(T) == SumFunctionOnSet(f, T)
           P == {T \in SUBSET S : \A x \in T : sum(T) = f[x] + sum(T \ {x})}
<1>1. ASSUME NEW T \in SUBSET S, \A U \in SUBSET T : U # T => U \in P
      PROVE  T \in P
  <2> SUFFICES ASSUME NEW x \in T PROVE sum(T) = f[x] + sum(T \ {x})
    OBVIOUS
  <2> DEFINE y == AnyOf(T)
  <2>1. /\ IsFiniteSet(T) /\ \A z \in T : f[z] \in Int
        /\ \A U \in SUBSET T : IsFiniteSet(U)
    BY FS_Subset
  <2>2. \A U \in SUBSET T : sum(U) \in Int
    BY <2>1, SumOfAny
  <2>3. y \in T /\ sum(T) = f[y] + sum(T \ {y})
    BY <2>1, SumOfAny
  <2> HIDE DEF y
  <2>4. CASE x = y
    BY <2>3, <2>4
  <2>5. CASE x # y
    <3> DEFINE U == T \ {x}
               V == T \ {y}
               W == (T \ {x}) \ {y}
    <3>1. W = (T \ {y}) \ {x}
      OBVIOUS
    <3>2. U \in P /\ y \in U
      BY <1>1, <2>3, <2>5
    <3>3. V \in P /\ x \in V
      BY <1>1, <2>3, <2>5
    <3>4. sum(U) = f[y] + sum(W) /\ sum(V) = f[x] + sum(W)
      BY <3>1, <3>2, <3>3
    <3>5. sum(U) \in Int /\ sum(V) \in Int /\ sum(W) \in Int
      BY <2>2
    <3> HIDE DEF U, V, W, sum
    <3>6. sum(T) = f[y] + sum(V)
      BY <2>3 DEF V
    <3>7. f[x] \in Int /\ f[y] \in Int
      BY <2>1, <2>3
    <3>8. sum(T) = f[x] + sum(U)
      BY <3>4, <3>5, <3>6, <3>7
    <3> QED BY <3>8 DEF U
  <2> QED BY <2>4, <2>5
<1>2. SUBSET S \subseteq P
  <2> HIDE DEF P
  <2> QED BY <1>1, SmallerSetInduction
<1> QED BY <1>2

LEMMA SumAdd ==
  ASSUME NEW S, IsFiniteSet(S), NEW f, \A x \in S : f[x] \in Int,
         NEW a, a \notin S, f[a] \in Int
  PROVE  SumFunctionOnSet(f, S \cup {a}) = SumFunctionOnSet(f, S) + f[a]
<1>1. IsFiniteSet(S \cup {a}) /\ (S \cup {a}) \ {a} = S
  BY FS_AddElement
<1>2. SumFunctionOnSet(f, S \cup {a}) = f[a] + SumFunctionOnSet(f, S)
  BY <1>1, SumRemove
<1> QED BY <1>2, SumType

\* The sum of two functions is the sum of their sums.
LEMMA SumLinear ==
  ASSUME NEW S, IsFiniteSet(S), NEW f, NEW g, NEW h,
         \A x \in S : f[x] \in Int /\ g[x] \in Int /\ h[x] = f[x] + g[x]
  PROVE  SumFunctionOnSet(h, S) = SumFunctionOnSet(f, S) + SumFunctionOnSet(g, S)
<1> DEFINE sum(k, T) == SumFunctionOnSet(k, T)
           P == {T \in SUBSET S : sum(h, T) = sum(f, T) + sum(g, T)}
<1>1. {} \in P
  BY SumEmpty
<1>2. ASSUME NEW T \in SUBSET S, NEW x \in S \ T, T \in P
      PROVE  T \cup {x} \in P
  <2>1. IsFiniteSet(T) /\ \A y \in T : f[y] \in Int /\ g[y] \in Int /\ h[y] \in Int
    BY FS_Subset
  <2>2. f[x] \in Int /\ g[x] \in Int /\ h[x] \in Int /\ h[x] = f[x] + g[x]
    OBVIOUS
  <2>3. /\ sum(h, T \cup {x}) = sum(h, T) + h[x]
        /\ sum(f, T \cup {x}) = sum(f, T) + f[x]
        /\ sum(g, T \cup {x}) = sum(g, T) + g[x]
    BY <2>1, <2>2, SumAdd
  <2>4. sum(f, T) \in Int /\ sum(g, T) \in Int
    BY <2>1, SumType
  <2> HIDE DEF sum
  <2> QED BY <1>2, <2>2, <2>3, <2>4
<1>3. S \in P
  <2> HIDE DEF P
  <2> QED BY <1>1, <1>2, AddElementInduction
<1> QED BY <1>3

LEMMA SumZero ==
  ASSUME NEW S, IsFiniteSet(S), NEW f, \A x \in S : f[x] = 0
  PROVE  SumFunctionOnSet(f, S) = 0
<1>1. \A x \in S : f[x] \in Int /\ f[x] = f[x] + f[x]
  OBVIOUS
<1>2. SumFunctionOnSet(f, S) = SumFunctionOnSet(f, S) + SumFunctionOnSet(f, S)
  BY <1>1, SumLinear
<1> DEFINE s == SumFunctionOnSet(f, S)
<1>3. s \in Int
  BY <1>1, SumType
<1>4. s = s + s
  BY <1>2
<1> HIDE DEF s
<1>5. s = 0
  BY <1>3, <1>4
<1> QED BY <1>5 DEF s

\* A sum of which one term counts.
LEMMA SumSingle ==
  ASSUME NEW S, IsFiniteSet(S), NEW f, NEW a \in S, f[a] \in Int,
         \A x \in S : x # a => f[x] = 0
  PROVE  SumFunctionOnSet(f, S) = f[a]
<1> DEFINE T == S \ {a}
<1>1. IsFiniteSet(T) /\ \A x \in T : f[x] = 0
  BY FS_Subset
<1>2. \A x \in S : f[x] \in Int
  OBVIOUS
<1>3. SumFunctionOnSet(f, S) = f[a] + SumFunctionOnSet(f, T)
  BY <1>2, SumRemove
<1> HIDE DEF T
<1>4. SumFunctionOnSet(f, T) = 0
  BY <1>1, SumZero
<1> QED BY <1>3, <1>4

\* A sum over two sets that are apart.
LEMMA SumUnion ==
  ASSUME NEW S, IsFiniteSet(S), NEW T, IsFiniteSet(T), S \cap T = {},
         NEW f, \A x \in S \cup T : f[x] \in Int
  PROVE  SumFunctionOnSet(f, S \cup T) =
           SumFunctionOnSet(f, S) + SumFunctionOnSet(f, T)
<1> DEFINE sum(U) == SumFunctionOnSet(f, U)
           P == {U \in SUBSET T : sum(S \cup U) = sum(S) + sum(U)}
<1>1. sum(S) \in Int
  BY SumType
<1>2. {} \in P
  <2>1. S \cup {} = S /\ sum({}) = 0
    BY SumEmpty
  <2> HIDE DEF sum
  <2> QED BY <1>1, <2>1
<1>3. ASSUME NEW U \in SUBSET T, NEW x \in T \ U, U \in P
      PROVE  U \cup {x} \in P
  <2>1. IsFiniteSet(U)
    BY FS_Subset
  <2>2. IsFiniteSet(S \cup U)
    BY <2>1, FS_Union
  <2>3. x \notin S \cup U /\ (S \cup U) \cup {x} = S \cup (U \cup {x})
    OBVIOUS
  <2>4. f[x] \in Int /\ \A y \in S \cup U : f[y] \in Int
    OBVIOUS
  <2>5. sum(S \cup (U \cup {x})) = sum(S \cup U) + f[x]
    BY SMTT(30), <2>2, <2>3, <2>4, SumAdd
  <2>6. sum(U \cup {x}) = sum(U) + f[x] /\ sum(U) \in Int
    BY <2>1, <2>4, SumAdd, SumType
  <2>7. U \cup {x} \in SUBSET T
    OBVIOUS
  <2>8. sum(S \cup U) = sum(S) + sum(U)
    BY <1>3
  <2> HIDE DEF sum
  <2> QED BY <1>1, <2>4, <2>5, <2>6, <2>7, <2>8
<1>4. T \in P
  <2> HIDE DEF P
  <2> QED BY <1>2, <1>3, AddElementInduction
<1> QED BY <1>4

\* A sum depends on the values over its set only.
LEMMA SumEqual ==
  ASSUME NEW S, IsFiniteSet(S), NEW f, NEW g,
         \A x \in S : f[x] \in Int /\ f[x] = g[x]
  PROVE  SumFunctionOnSet(f, S) = SumFunctionOnSet(g, S)
<1> DEFINE P == {T \in SUBSET S : SumFunctionOnSet(f, T) = SumFunctionOnSet(g, T)}
<1>1. {} \in P
  BY SumEmpty
<1>2. ASSUME NEW T \in SUBSET S, NEW x \in S \ T, T \in P
      PROVE  T \cup {x} \in P
  <2>1. IsFiniteSet(T) /\ \A y \in T : f[y] \in Int /\ g[y] \in Int
    BY FS_Subset
  <2>2. /\ SumFunctionOnSet(f, T \cup {x}) = SumFunctionOnSet(f, T) + f[x]
        /\ SumFunctionOnSet(g, T \cup {x}) = SumFunctionOnSet(g, T) + g[x]
    BY <2>1, SumAdd
  <2> QED BY <1>2, <2>2
<1>3. S \in P
  <2> HIDE DEF P
  <2> QED BY <1>1, <1>2, AddElementInduction
<1> QED BY <1>3

\* A sum of natural numbers is one, and at least each of them.
LEMMA SumNat ==
  ASSUME NEW S, IsFiniteSet(S), NEW f, \A x \in S : f[x] \in Nat
  PROVE  /\ SumFunctionOnSet(f, S) \in Nat
         /\ \A x \in S : f[x] <= SumFunctionOnSet(f, S)
<1> DEFINE P == {T \in SUBSET S : SumFunctionOnSet(f, T) \in Nat}
<1>1. {} \in P
  BY SumEmpty
<1>2. ASSUME NEW T \in SUBSET S, NEW x \in S \ T, T \in P
      PROVE  T \cup {x} \in P
  <2>1. IsFiniteSet(T) /\ \A y \in T : f[y] \in Int
    BY FS_Subset
  <2>2. SumFunctionOnSet(f, T \cup {x}) = SumFunctionOnSet(f, T) + f[x]
    BY <2>1, SumAdd
  <2> QED BY <1>2, <2>2
<1>3. ASSUME NEW T \in SUBSET S PROVE SumFunctionOnSet(f, T) \in Nat
  <2>1. IsFiniteSet(T)
    BY FS_Subset
  <2> DEFINE Q == {U \in SUBSET T : U \in P}
  <2>2. {} \in Q /\ \A U \in SUBSET T : \A x \in T \ U : U \in Q => U \cup {x} \in Q
    <3>1. \A U \in SUBSET S : \A x \in S \ U : U \in P => U \cup {x} \in P
      BY <1>2
    <3> HIDE DEF P
    <3> QED BY <1>1, <3>1
  <2>3. T \in Q
    <3> HIDE DEF Q
    <3> QED BY <2>1, <2>2, AddElementInduction
  <2> QED BY <2>3
<1>4. ASSUME NEW x \in S PROVE f[x] <= SumFunctionOnSet(f, S)
  <2>1. SumFunctionOnSet(f, S) = f[x] + SumFunctionOnSet(f, S \ {x})
    BY SumRemove
  <2>2. SumFunctionOnSet(f, S \ {x}) \in Nat
    BY <1>3
  <2> QED BY <2>1, <2>2
<1> QED BY <1>3, <1>4

\* One value of a function changes, or comes to a set without it.
Integral(f, S) == \A x \in S : f[x] \in Int
SameBut(f, g, S, a) == \A x \in S : x # a => f[x] = g[x]

LEMMA SumStep ==
  ASSUME NEW S, IsFiniteSet(S), NEW a, NEW f, NEW g,
         Integral(f, S \cup {a}), Integral(g, S \cup {a}), SameBut(f, g, S, a),
         a \notin S => f[a] = 0
  PROVE  SumFunctionOnSet(g, S \cup {a}) = SumFunctionOnSet(f, S) - f[a] + g[a]
<1> DEFINE T == S \ {a}
<1>1. IsFiniteSet(T) /\ a \notin T /\ T \cup {a} = S \cup {a}
  BY FS_RemoveElement
<1>2. /\ \A x \in T : f[x] \in Int /\ g[x] \in Int /\ f[x] = g[x]
      /\ f[a] \in Int /\ g[a] \in Int
  BY DEF Integral, SameBut
<1>3. a \in S => S = T \cup {a}
  OBVIOUS
<1>4. a \notin S => S = T
  OBVIOUS
<1> HIDE DEF T
<1>5. SumFunctionOnSet(g, T) = SumFunctionOnSet(f, T)
  BY <1>1, <1>2, SumEqual
<1>6. SumFunctionOnSet(g, T \cup {a}) = SumFunctionOnSet(g, T) + g[a]
  BY <1>1, <1>2, SumAdd
<1>7. SumFunctionOnSet(f, T \cup {a}) = SumFunctionOnSet(f, T) + f[a]
  BY <1>1, <1>2, SumAdd
<1>8. SumFunctionOnSet(f, T) \in Int
  BY <1>1, <1>2, SumType
<1>9. SumFunctionOnSet(f, S) = SumFunctionOnSet(f, T) + f[a]
  <2>1. CASE a \in S
    BY <1>3, <1>7, <2>1
  <2>2. CASE a \notin S
    <3>1. SumFunctionOnSet(f, S) = SumFunctionOnSet(f, T) /\ f[a] = 0
      BY <1>4, <2>2
    <3> QED BY <1>8, <3>1
  <2> QED BY <2>1, <2>2
<1>10. SumFunctionOnSet(g, S \cup {a}) = SumFunctionOnSet(f, T) + g[a]
  BY <1>1, <1>5, <1>6
<1>11. \A x, y, z \in Int : x + z = (x + y) - y + z
  OBVIOUS
<1>12. f[a] \in Int /\ g[a] \in Int
  BY <1>2
<1> QED BY <1>8, <1>9, <1>10, <1>11, <1>12
-----------------------------------------------------------------------------
(* The elements of a finite set of numbers, in order.                      *)

Increasing(S) ==
  {s \in [1 .. Cardinality(S) -> S] : \A j, k \in DOMAIN s : j < k => s[j] < s[k]}

\* A finite set of numbers has a greatest element.
LEMMA FiniteGreatest ==
  ASSUME NEW S, IsFiniteSet(S), S \subseteq Nat, S # {}
  PROVE  \E x \in S : \A y \in S : y <= x
<1> DEFINE P == {T \in SUBSET S : T = {} \/ \E x \in T : \A y \in T : y <= x}
<1>1. {} \in P
  OBVIOUS
<1>2. ASSUME NEW T \in SUBSET S, NEW a \in S \ T, T \in P
      PROVE  T \cup {a} \in P
  <2>1. CASE T = {}
    BY <2>1
  <2>2. CASE T # {}
    <3>1. PICK x \in T : \A y \in T : y <= x
      BY <1>2, <2>2
    <3>2. \A y \in T \cup {a} : y \in Nat
      OBVIOUS
    <3>3. CASE a <= x
      BY <3>1, <3>3
    <3>4. CASE x <= a
      BY <3>1, <3>2, <3>4
    <3> QED BY <3>2, <3>3, <3>4
  <2> QED BY <2>1, <2>2
<1>3. S \in P
  <2> HIDE DEF P
  <2> QED BY <1>1, <1>2, AddElementInduction
<1> QED BY <1>3

\* Such a sequence has every element.
LEMMA IncreasingOnto ==
  ASSUME NEW S, IsFiniteSet(S), S \subseteq Nat, NEW s \in Increasing(S)
  PROVE  \A x \in S : \E k \in 1 .. Cardinality(S) : s[k] = x
<1> DEFINE n == Cardinality(S)
<1>1. n \in Nat
  BY FS_CardinalityType
<1>2. s \in [1 .. n -> S] /\ \A j, k \in 1 .. n : j < k => s[j] < s[k]
  BY DEF Increasing
<1>3. ASSUME NEW j \in 1 .. n, NEW k \in 1 .. n, s[j] = s[k] PROVE j = k
  <2>1. s[j] \in Nat /\ s[k] \in Nat
    BY <1>2
  <2> QED BY <1>1, <1>2, <1>3, <2>1
<1>4. s \in Injection(1 .. n, S)
  BY <1>2, <1>3 DEF Injection, IsInjective
<1>5. Cardinality(1 .. n) = n
  BY <1>1, FS_Interval
<1>6. s \in Surjection(1 .. n, S)
  BY <1>4, <1>5, FS_Injection
<1> QED BY <1>6 DEF Surjection

\* There is one.
LEMMA IncreasingUnique ==
  ASSUME NEW S, IsFiniteSet(S), S \subseteq Nat,
         NEW s \in Increasing(S), NEW t \in Increasing(S)
  PROVE  s = t
<1> DEFINE n == Cardinality(S)
           D == {k \in 1 .. n : s[k] # t[k]}
<1>1. n \in Nat
  BY FS_CardinalityType
<1>2. /\ s \in [1 .. n -> S] /\ \A j, k \in 1 .. n : j < k => s[j] < s[k]
      /\ t \in [1 .. n -> S] /\ \A j, k \in 1 .. n : j < k => t[j] < t[k]
  BY DEF Increasing
<1>3. /\ \A x \in S : \E k \in 1 .. n : s[k] = x
      /\ \A x \in S : \E k \in 1 .. n : t[k] = x
  BY IncreasingOnto
<1>4. \A k \in 1 .. n : s[k] \in S /\ t[k] \in S /\ s[k] \in Nat /\ t[k] \in Nat
  BY <1>2
<1>5. ASSUME D # {} PROVE FALSE
  <2>1. PICK k \in D : \A j \in D : k <= j
    <3>1. D \subseteq Nat
      BY <1>1
    <3> QED BY <1>5, <3>1, LeastElement
  <2>2. k \in 1 .. n /\ s[k] # t[k] /\ k \in Nat
    BY <1>1, <2>1
  <2>3. ASSUME NEW j \in 1 .. n, j < k PROVE s[j] = t[j]
    <3>1. j \in Nat /\ ~(k <= j)
      BY <1>1, <2>2, <2>3
    <3> QED BY <2>1, <3>1
  <2> HIDE DEF n, D
  <2>4. CASE s[k] < t[k]
    <3>1. PICK j \in 1 .. n : t[j] = s[k]
      BY <1>3, <1>4, <2>2
    <3>2. j \in Nat
      BY <1>1
    <3>3. CASE j < k
      <4>1. s[j] = s[k] /\ s[j] < s[k]
        BY <1>2, <2>2, <2>3, <3>1, <3>3
      <4> QED BY <1>4, <2>2, <4>1
    <3>4. CASE j = k
      BY <2>2, <3>1, <3>4
    <3>5. CASE k < j
      <4>1. t[k] < t[j]
        BY <1>2, <2>2, <3>5
      <4> QED BY <1>4, <2>2, <2>4, <3>1, <4>1
    <3> QED BY <2>2, <3>2, <3>3, <3>4, <3>5
  <2>5. CASE t[k] < s[k]
    <3>1. PICK j \in 1 .. n : s[j] = t[k]
      BY <1>3, <1>4, <2>2
    <3>2. j \in Nat
      BY <1>1
    <3>3. CASE j < k
      <4>1. t[j] = t[k] /\ t[j] < t[k]
        BY <1>2, <2>2, <2>3, <3>1, <3>3
      <4> QED BY <1>4, <2>2, <4>1
    <3>4. CASE j = k
      BY <2>2, <3>1, <3>4
    <3>5. CASE k < j
      <4>1. s[k] < s[j]
        BY <1>2, <2>2, <3>5
      <4> QED BY <1>4, <2>2, <2>5, <3>1, <4>1
    <3> QED BY <2>2, <3>2, <3>3, <3>4, <3>5
  <2> QED BY <1>4, <2>2, <2>4, <2>5
<1>6. \A k \in 1 .. n : s[k] = t[k]
  BY <1>5
<1> DEFINE A == 1 .. n
<1>7. s \in [A -> S] /\ t \in [A -> S] /\ \A k \in A : s[k] = t[k]
  BY <1>2, <1>6
<1> HIDE DEF A, n, D
<1> QED BY <1>7

\* A greater element comes last.
LEMMA IncreasingAppend ==
  ASSUME NEW S, IsFiniteSet(S), S \subseteq Nat, NEW s \in Increasing(S),
         NEW m \in Nat, \A x \in S : x < m
  PROVE  /\ Cardinality(S \cup {m}) = Cardinality(S) + 1
         /\ [k \in 1 .. Cardinality(S) + 1 |-> IF k \in DOMAIN s THEN s[k] ELSE m]
              \in Increasing(S \cup {m})
<1> DEFINE n == Cardinality(S)
           t == [k \in 1 .. n + 1 |-> IF k \in DOMAIN s THEN s[k] ELSE m]
<1>1. n \in Nat
  BY FS_CardinalityType
<1>2. s \in [1 .. n -> S] /\ \A j, k \in 1 .. n : j < k => s[j] < s[k]
  BY DEF Increasing
<1>3. m \notin S
  OBVIOUS
<1>4. Cardinality(S \cup {m}) = n + 1
  BY <1>3, FS_AddElement
<1>5. t \in [1 .. n + 1 -> S \cup {m}]
  BY <1>2
<1>6. ASSUME NEW j \in 1 .. n + 1, NEW k \in 1 .. n + 1, j < k PROVE t[j] < t[k]
  <2>1. j \in 1 .. n /\ t[j] = s[j] /\ s[j] \in S
    BY <1>1, <1>2, <1>6
  <2>2. CASE k \in 1 .. n
    <3>1. t[k] = s[k]
      BY <1>2, <2>2
    <3> HIDE DEF t
    <3> QED BY <1>2, <1>6, <2>1, <2>2, <3>1
  <2>3. CASE k \notin 1 .. n
    <3>1. t[k] = m
      BY <1>2, <2>3
    <3> HIDE DEF t
    <3> QED BY <2>1, <3>1
  <2> QED BY <2>2, <2>3
<1> HIDE DEF t
<1>7. t \in Increasing(S \cup {m})
  BY <1>4, <1>5, <1>6 DEF Increasing
<1> QED BY <1>4, <1>7 DEF t

LEMMA IncreasingExists ==
  ASSUME NEW S, IsFiniteSet(S), S \subseteq Nat
  PROVE  Increasing(S) # {}
<1> DEFINE P == {T \in SUBSET S : Increasing(T) # {}}
<1>1. ASSUME NEW T \in SUBSET S, \A U \in SUBSET T : U # T => U \in P
      PROVE  T \in P
  <2>1. CASE T = {}
    <3> DEFINE s == [k \in 1 .. 0 |-> 0]
    <3>1. Cardinality({}) = 0
      BY FS_EmptySet
    <3>2. s \in [1 .. 0 -> {}] /\ \A j, k \in DOMAIN s : j < k => s[j] < s[k]
      OBVIOUS
    <3>3. s \in Increasing({})
      BY <3>1, <3>2 DEF Increasing
    <3> QED BY <2>1, <3>3
  <2>2. CASE T # {}
    <3>1. IsFiniteSet(T) /\ T \subseteq Nat
      BY FS_Subset
    <3>2. PICK m \in T : \A y \in T : y <= m
      BY <2>2, <3>1, FiniteGreatest
    <3> DEFINE U == T \ {m}
    <3>3. U \in SUBSET T /\ U # T /\ U \cup {m} = T /\ IsFiniteSet(U) /\ m \in Nat
      BY <3>1, <3>2, FS_RemoveElement
    <3>4. \A y \in U : y < m
      BY <3>1, <3>2
    <3>5. PICK s : s \in Increasing(U)
      BY <1>1, <3>3
    <3> HIDE DEF U
    <3>6. Increasing(U \cup {m}) # {}
      BY <3>1, <3>3, <3>4, <3>5, IncreasingAppend
    <3> QED BY <3>3, <3>6
  <2> QED BY <2>1, <2>2
<1>2. SUBSET S \subseteq P
  <2> HIDE DEF P
  <2> QED BY <1>1, SmallerSetInduction
<1> QED BY <1>2
-----------------------------------------------------------------------------
(* Remainders.                                                              *)

LEMMA RemainderUnique ==
  ASSUME NEW m \in Nat \ {0}, NEW k \in Int, NEW r \in 0 .. m - 1
  PROVE  (m * k + r) % m = r
<1> DEFINE x == m * k + r
           q == x \div m
           e == x % m
<1>1. x \in Int
  OBVIOUS
<1>2. q \in Int /\ e \in 0 .. m - 1 /\ x = m * q + e
  <2> HIDE DEF x
  <2> QED BY <1>1
<1> HIDE DEF q, e
<1>3. m * (k - q) = e - r
  BY <1>2
<1>4. CASE k = q
  BY <1>3, <1>4, <1>2 DEF e
<1>5. CASE k > q
  <2>1. k - q >= 1
    BY <1>2, <1>5
  <2>2. m * (k - q) >= m
    BY <2>1, <1>2
  <2> QED BY <2>2, <1>2, <1>3
<1>6. CASE k < q
  <2>1. q - k >= 1
    BY <1>2, <1>6
  <2>2. m * (q - k) >= m
    BY <2>1, <1>2
  <2>3. m * (q - k) = r - e
    BY <1>2
  <2> QED BY <2>2, <2>3, <1>2
<1> QED BY <1>2, <1>4, <1>5, <1>6

\* A counter that wraps at every addition is the sum, wrapped once.
LEMMA RemainderOfSum ==
  ASSUME NEW m \in Nat \ {0}, NEW a \in Nat, NEW b \in Nat
  PROVE  ((a % m) + b) % m = (a + b) % m
<1> DEFINE q == a \div m
           c == (a % m) + b
           d == c \div m
           r == c % m
<1>1. q \in Int /\ a % m \in 0 .. m - 1 /\ a = m * q + (a % m)
  OBVIOUS
<1>2. c \in Nat
  BY <1>1
<1>3. d \in Int /\ r \in 0 .. m - 1 /\ c = m * d + r
  <2> HIDE DEF c
  <2> QED BY <1>2
<1>4. a + b = m * (q + d) + r
  <2>1. a + b = m * q + c
    BY <1>1
  <2> HIDE DEF q, c, d, r
  <2> QED BY <2>1, <1>1, <1>2, <1>3
<1>5. q + d \in Int
  BY <1>1, <1>3
<1>6. (m * (q + d) + r) % m = r
  <2> HIDE DEF q, d, r
  <2> QED BY <1>3, <1>5, RemainderUnique
<1> QED BY <1>4, <1>6
=============================================================================
