---------------------------- MODULE SamplesProofs ----------------------------
(***************************************************************************)
(* Proofs about the window loop and the trees it builds, for traces of any *)
(* length, any number of samples and any size of window.                   *)
(*                                                                         *)
(* Samples: Partition is inductive once two facts are added (WithInv):     *)
(* only positions of the trace are in samples, and the last position is in *)
(* the sample being read.                                                  *)
(*                                                                         *)
(* SampleWindows, the counters: what a sample counts too much the next one *)
(* counts too little.                                                      *)
(*                                                                         *)
(* SampleWindows, the trees: TreeInv says of every window of the heap what *)
(* is true of it wherever it is in a tree (Heap), and of the rows of       *)
(* windows not yet in a tree that they cover the trace without a gap       *)
(* (Tiles).  The heap is ordered: children come before their parents, and  *)
(* what is under a window is found by induction over it.                   *)
(*                                                                         *)
(* SampleWindows, the report: every window has one parent or is a root     *)
(* (RootsInv), and when printTree walks the tree, a window that is printed *)
(* has no parent still to be printed and one that is not printed waits in  *)
(* the stack or under a window that does (Walk).  So no window is printed  *)
(* twice and none is left out.                                             *)
(*                                                                         *)
(* SampleWindows implements Samples: a row of windows that covers a part   *)
(* of the trace stands for the positions of that part (Span), so a step of *)
(* the loop is one of Samples or changes nothing it sees.                  *)
(***************************************************************************)
EXTENDS Samples, SampleWindows, SetsOfNumbers, SequenceTheorems

WithinTrace == \A k \in Samples : SampleAt[k] \subseteq DOMAIN ids
LastInCurrent == open /\ ids # << >> => Len(ids) \in Elements(current)
WithInv == WithinTrace /\ LastInCurrent

\* A sequence that got one more element.
LEMMA AppendElements ==
  ASSUME NEW S, NEW s \in Seq(S), NEW e \in S
  PROVE  /\ Append(s, e) \in Seq(S)
         /\ Len(Append(s, e)) = Len(s) + 1
         /\ DOMAIN Append(s, e) = 1 .. Len(s) + 1
         /\ DOMAIN s = 1 .. Len(s)
         /\ Len(s) \in Nat
         /\ Append(s, e)[Len(s) + 1] = e
         /\ \A i \in 1 .. Len(s) : Append(s, e)[i] = s[i]
         /\ Elements(Append(s, e)) = Elements(s) \cup {e}
<1>1. /\ Append(s, e) \in Seq(S)
      /\ Len(Append(s, e)) = Len(s) + 1
      /\ DOMAIN Append(s, e) = 1 .. Len(s) + 1
      /\ DOMAIN s = 1 .. Len(s)
      /\ Len(s) \in Nat
      /\ Append(s, e)[Len(s) + 1] = e
      /\ \A i \in 1 .. Len(s) : Append(s, e)[i] = s[i]
  OBVIOUS
<1>2. Elements(Append(s, e)) = Elements(s) \cup {e}
  <2> DEFINE t == Append(s, e)
  <2>1. ASSUME NEW i \in DOMAIN t PROVE t[i] \in Elements(s) \cup {e}
    BY <1>1 DEF Elements
  <2>2. ASSUME NEW i \in DOMAIN s PROVE s[i] \in Elements(t)
    <3>1. i \in DOMAIN t /\ t[i] = s[i]
      BY <1>1
    <3> QED BY <3>1 DEF Elements
  <2>3. e \in Elements(t)
    <3>1. Len(s) + 1 \in DOMAIN t /\ t[Len(s) + 1] = e
      BY <1>1
    <3> QED BY <3>1 DEF Elements
  <2> QED BY <2>1, <2>2, <2>3 DEF Elements
<1> QED BY <1>1, <1>2

LEMMA NextType ==
  ASSUME TraceType, [TraceNext]_traceVars
  PROVE  TraceType'
<1>1. ASSUME NEW id \in IDs, IsNext(id) PROVE ids' \in Seq(IDs)
  BY <1>1 DEF IsNext, TraceType
<1>2. Len(ids) + 1 \in Nat
  BY DEF TraceType
<1>3. ASSUME NEW id \in IDs, Extend(id) PROVE TraceType'
  <2>1. current' \in Seq(Nat) /\ complete' = complete
    BY <1>2, <1>3 DEF Extend, TraceType
  <2>2. open' = open /\ ids' \in Seq(IDs)
    BY <1>1, <1>3 DEF Extend, IsNext
  <2> QED BY <2>1, <2>2 DEF TraceType
<1>4. ASSUME NEW id \in IDs, Cut(id) PROVE TraceType'
  <2>1. current' \in Seq(Nat)
    BY <1>2, <1>4 DEF Cut
  <2>2. complete' \in Seq(Seq(Nat))
    <3> DEFINE T == Seq(Nat)
    <3>1. complete \in Seq(T) /\ current \in T /\ complete' = Append(complete, current)
      BY <1>4 DEF Cut, TraceType
    <3> HIDE DEF T
    <3>2. complete' \in Seq(T)
      BY <3>1
    <3> QED BY <3>2 DEF T
  <2>3. open' = open /\ ids' \in Seq(IDs)
    BY <1>1, <1>4 DEF Cut, IsNext
  <2> QED BY <2>1, <2>2, <2>3 DEF TraceType
<1>5. CASE End
  <2>1. complete' \in Seq(Seq(Nat))
    <3> DEFINE T == Seq(Nat)
    <3>1. complete \in Seq(T) /\ current \in T /\ complete' = Append(complete, current)
      BY <1>5 DEF End, TraceType
    <3> HIDE DEF T
    <3>2. complete' \in Seq(T)
      BY <3>1
    <3> QED BY <3>2 DEF T
  <2>2. current' \in Seq(Nat)
    BY <1>5 DEF End
  <2>3. ids' = ids /\ open' = FALSE
    BY <1>5 DEF End
  <2> QED BY <2>1, <2>2, <2>3 DEF TraceType
<1>6. CASE UNCHANGED traceVars
  BY <1>6 DEF traceVars, TraceType
<1> QED BY <1>3, <1>4, <1>5, <1>6 DEF TraceNext

LEMMA InitType == TraceInit => TraceType
BY DEF TraceInit, TraceType

\* The state of Samples is well formed for every trace.
THEOREM TypeCorrect == TraceSpec => []TraceType
<1>1. TraceType /\ [TraceNext]_traceVars => TraceType'
  BY NextType
<1> QED BY <1>1, InitType, PTL DEF TraceSpec

-----------------------------------------------------------------------------
(* What each action does to the samples.                                   *)

LEMMA SampleIndices ==
  ASSUME TraceType
  PROVE  /\ Len(complete) \in Nat
         /\ Samples = 1 .. Len(complete) + 1
         /\ DOMAIN ids = 1 .. Len(ids)
         /\ Len(ids) \in Nat
BY DEF TraceType, Samples

\* Extend puts the new position in the last sample.
LEMMA ExtendSamples ==
  ASSUME TraceType, NEW id \in IDs, Extend(id)
  PROVE  /\ Samples' = Samples
         /\ \A k \in Samples :
              SampleAt'[k] = SampleAt[k] \cup
                (IF k = Len(complete) + 1 THEN {Len(ids) + 1} ELSE {})
         /\ Elements(current)' = Elements(current) \cup {Len(ids) + 1}
         /\ ids' = Append(ids, id)
         /\ ids # << >> => ids[Len(ids)] = id
         /\ open
<1>1. complete' = complete /\ current' = Append(current, Len(ids) + 1)
  BY DEF Extend
<1>2. Len(ids) + 1 \in Nat
  BY SampleIndices
<1>3. Elements(current') = Elements(current) \cup {Len(ids) + 1}
  <2>1. current \in Seq(Nat)
    BY DEF TraceType
  <2>2. Elements(Append(current, Len(ids) + 1))
          = Elements(current) \cup {Len(ids) + 1}
    BY <1>2, <2>1, AppendElements
  <2> QED BY <1>1, <2>2
<1>4. Samples' = Samples
  BY <1>1 DEF Samples
<1>5. ASSUME NEW k \in Samples
      PROVE  SampleAt'[k] = SampleAt[k] \cup
               (IF k = Len(complete) + 1 THEN {Len(ids) + 1} ELSE {})
  <2>1. k = Len(complete) + 1 <=> ~(k <= Len(complete))
    BY SampleIndices
  <2>2. k \in Samples'
    BY <1>4
  <2> QED BY <1>1, <1>3, <2>1, <2>2 DEF SampleAt
<1>6. /\ ids' = Append(ids, id) /\ open
      /\ ids # << >> => ids[Len(ids)] = id
  BY DEF Extend, IsNext, CutHere
<1> QED BY <1>3, <1>4, <1>5, <1>6 DEF Elements

\* Cut keeps all the samples and puts the new position in one of its own.
LEMMA CutSamples ==
  ASSUME TraceType, NEW id \in IDs, Cut(id)
  PROVE  /\ Samples' = Samples \cup {Len(complete) + 2}
         /\ \A k \in Samples : SampleAt'[k] = SampleAt[k]
         /\ SampleAt'[Len(complete) + 2] = {Len(ids) + 1}
         /\ Elements(current)' = {Len(ids) + 1}
         /\ ids' = Append(ids, id)
         /\ ids # << >>
         /\ ids[Len(ids)] # id
         /\ open
<1>1. complete' = Append(complete, current) /\ current' = <<Len(ids) + 1>>
  BY DEF Cut
<1> DEFINE T == Seq(Nat)
<1>2. complete \in Seq(T) /\ current \in T
  BY DEF TraceType
<1> HIDE DEF T
<1>3. /\ Len(complete') = Len(complete) + 1
      /\ complete'[Len(complete) + 1] = current
      /\ \A i \in 1 .. Len(complete) : complete'[i] = complete[i]
  BY <1>1, <1>2, AppendElements
<1>4. Elements(current') = {Len(ids) + 1}
  BY <1>1 DEF Elements
<1>5. Samples' = Samples \cup {Len(complete) + 2}
  BY <1>3, SampleIndices DEF Samples
<1>6. ASSUME NEW k \in Samples PROVE SampleAt'[k] = SampleAt[k]
  <2>1. k \in 1 .. Len(complete) \/ k = Len(complete) + 1
    BY SampleIndices
  <2>4. k \in Samples'
    BY <1>5
  <2>2. CASE k \in 1 .. Len(complete)
    <3>1. k <= Len(complete) /\ k <= Len(complete') /\ complete'[k] = complete[k]
      BY <1>3, <2>2, SampleIndices
    <3> QED BY <2>4, <3>1 DEF SampleAt
  <2>3. CASE k = Len(complete) + 1
    <3>1. ~(k <= Len(complete)) /\ k <= Len(complete') /\ complete'[k] = current
      BY <1>3, <2>3, SampleIndices
    <3> QED BY <2>4, <3>1 DEF SampleAt
  <2> QED BY <2>1, <2>2, <2>3
<1>7. SampleAt'[Len(complete) + 2] = {Len(ids) + 1}
  <2>1. ~(Len(complete) + 2 <= Len(complete'))
    BY <1>3, SampleIndices
  <2>2. Len(complete) + 2 \in Samples'
    BY <1>5
  <2> QED BY <1>4, <2>1, <2>2 DEF SampleAt
<1>8. /\ ids' = Append(ids, id) /\ open /\ ids # << >> /\ ids[Len(ids)] # id
  BY DEF Cut, IsNext, CutHere
<1> QED BY <1>4, <1>5, <1>6, <1>7, <1>8 DEF Elements

\* End keeps all the samples and leaves an empty current one.
LEMMA EndSamples ==
  ASSUME TraceType, End
  PROVE  /\ Samples' = Samples \cup {Len(complete) + 2}
         /\ \A k \in Samples : SampleAt'[k] = SampleAt[k]
         /\ SampleAt'[Len(complete) + 2] = {}
         /\ ids' = ids
         /\ ~open'
<1>1. complete' = Append(complete, current) /\ current' = << >>
  BY DEF End
<1> DEFINE T == Seq(Nat)
<1>2. complete \in Seq(T) /\ current \in T
  BY DEF TraceType
<1> HIDE DEF T
<1>3. /\ Len(complete') = Len(complete) + 1
      /\ complete'[Len(complete) + 1] = current
      /\ \A i \in 1 .. Len(complete) : complete'[i] = complete[i]
  BY <1>1, <1>2, AppendElements
<1>4. Elements(current') = {}
  BY <1>1 DEF Elements
<1>5. Samples' = Samples \cup {Len(complete) + 2}
  BY <1>3, SampleIndices DEF Samples
<1>6. ASSUME NEW k \in Samples PROVE SampleAt'[k] = SampleAt[k]
  <2>1. k \in 1 .. Len(complete) \/ k = Len(complete) + 1
    BY SampleIndices
  <2>4. k \in Samples'
    BY <1>5
  <2>2. CASE k \in 1 .. Len(complete)
    <3>1. k <= Len(complete) /\ k <= Len(complete') /\ complete'[k] = complete[k]
      BY <1>3, <2>2, SampleIndices
    <3> QED BY <2>4, <3>1 DEF SampleAt
  <2>3. CASE k = Len(complete) + 1
    <3>1. ~(k <= Len(complete)) /\ k <= Len(complete') /\ complete'[k] = current
      BY <1>3, <2>3, SampleIndices
    <3> QED BY <2>4, <3>1 DEF SampleAt
  <2> QED BY <2>1, <2>2, <2>3
<1>7. SampleAt'[Len(complete) + 2] = {}
  <2>1. ~(Len(complete) + 2 <= Len(complete'))
    BY <1>3, SampleIndices
  <2>2. Len(complete) + 2 \in Samples'
    BY <1>5
  <2> QED BY <1>4, <2>1, <2>2 DEF SampleAt
<1>8. ids' = ids /\ ~open'
  BY DEF End
<1> QED BY <1>5, <1>6, <1>7, <1>8

-----------------------------------------------------------------------------
(* The invariant.                                                          *)

LEMMA InitPartition == TraceInit => WithInv /\ Partition
BY DEF TraceInit, WithInv, WithinTrace, LastInCurrent, Partition, EachInOneSample,
       CutsAtChanges, Samples, SampleAt, Elements

LEMMA ExtendPartition ==
  ASSUME TraceType, WithInv, Partition, NEW id \in IDs, Extend(id)
  PROVE  WithInv' /\ Partition'
<1> DEFINE n == Len(ids)
           c == Len(complete) + 1
           At(k) == SampleAt[k] \cup (IF k = c THEN {n + 1} ELSE {})
<1>1. /\ Samples' = Samples
      /\ \A k \in Samples : SampleAt'[k] = At(k)
      /\ c \in Samples /\ SampleAt[c] = Elements(current)
  <2>1. c \in Samples /\ ~(c <= Len(complete))
    BY SampleIndices
  <2>2. SampleAt[c] = Elements(current)
    BY <2>1 DEF SampleAt
  <2> QED BY <2>1, <2>2, ExtendSamples
<1>2. /\ DOMAIN ids = 1 .. n /\ n \in Nat /\ DOMAIN ids' = 1 .. n + 1
      /\ ids'[n + 1] = id /\ \A p \in 1 .. n : ids'[p] = ids[p]
      /\ Len(ids') = n + 1
  <2>1. ids \in Seq(IDs) /\ ids' = Append(ids, id)
    BY ExtendSamples DEF TraceType
  <2> QED BY <2>1, AppendElements
<1>3. \A k \in Samples : SampleAt[k] \subseteq 1 .. n
  BY <1>2 DEF WithInv, WithinTrace
<1>4. WithInv'
  <2>1. WithinTrace'
    <3>1. ASSUME NEW k \in Samples PROVE At(k) \subseteq 1 .. n + 1
      BY <1>2, <1>3
    <3> QED BY <1>1, <1>2, <3>1 DEF WithinTrace
  <2>2. LastInCurrent'
    BY <1>2, ExtendSamples DEF LastInCurrent
  <2> QED BY <2>1, <2>2 DEF WithInv
<1>5. n + 1 \in At(c) /\ \A k \in Samples : n + 1 \in At(k) => k = c
  <2>1. \A k \in Samples : n + 1 \notin SampleAt[k]
    BY <1>2, <1>3
  <2> QED BY <2>1
<1>6. \A p \in 1 .. n : \A k \in Samples : p \in At(k) <=> p \in SampleAt[k]
  BY <1>2
<1>7. EachInOneSample'
  <2>1. ASSUME NEW p \in 1 .. n + 1
        PROVE  \E k \in Samples : /\ p \in At(k)
                                 /\ \A l \in Samples : p \in At(l) => l = k
    <3>1. CASE p = n + 1
      BY <1>1, <1>5, <3>1
    <3>2. CASE p \in 1 .. n
      <4>1. PICK k \in Samples :
              /\ p \in SampleAt[k]
              /\ \A l \in Samples : p \in SampleAt[l] => l = k
        BY <1>2, <3>2 DEF Partition, EachInOneSample
      <4> HIDE DEF At
      <4> QED BY <1>6, <3>2, <4>1
    <3> QED BY <1>2, <3>1, <3>2
  <2> HIDE DEF At
  <2> QED BY <1>1, <1>2, <2>1 DEF EachInOneSample
<1>8. CutsAtChanges'
  <2>1. ASSUME NEW p \in 1 .. n + 1, p + 1 \in 1 .. n + 1
        PROVE  ids'[p] = ids'[p + 1] <=>
                 \E k \in Samples : p \in At(k) /\ p + 1 \in At(k)
    <3>1. CASE p = n
      <4>1. ids # << >> /\ p \in 1 .. n /\ p + 1 = n + 1
        BY <1>2, <2>1, <3>1
      <4>2. p \in At(c) /\ p + 1 \in At(c)
        BY <1>1, <1>5, <3>1, <4>1, ExtendSamples DEF WithInv, LastInCurrent
      <4>3. ids'[p] = ids'[p + 1]
        BY <1>2, <3>1, <4>1, ExtendSamples
      <4> QED BY <1>1, <4>2, <4>3
    <3>2. CASE p # n
      <4>1. p \in 1 .. n /\ p + 1 \in 1 .. n
        <5>1. n \in Nat
          BY <1>2
        <5> QED BY <2>1, <3>2, <5>1
      <4>2. ids[p] = ids[p + 1] <=>
              \E k \in Samples : p \in SampleAt[k] /\ p + 1 \in SampleAt[k]
        BY <1>2, <4>1 DEF Partition, CutsAtChanges
      <4> HIDE DEF At
      <4> QED BY <1>2, <1>6, <4>1, <4>2
    <3> QED BY <3>1, <3>2
  <2> HIDE DEF At
  <2> QED BY <1>1, <1>2, <2>1 DEF CutsAtChanges
<1> QED BY <1>4, <1>7, <1>8 DEF Partition

LEMMA CutPartition ==
  ASSUME TraceType, WithInv, Partition, NEW id \in IDs, Cut(id)
  PROVE  WithInv' /\ Partition'
<1> DEFINE n == Len(ids)
           c == Len(complete) + 1
           m == Len(complete) + 2
<1>1. /\ Samples' = Samples \cup {m} /\ m \notin Samples /\ c \in Samples
      /\ \A k \in Samples : SampleAt'[k] = SampleAt[k]
      /\ SampleAt'[m] = {n + 1}
      /\ SampleAt[c] = Elements(current)
  <2>1. c \in Samples /\ ~(c <= Len(complete)) /\ m \notin Samples
    BY SampleIndices
  <2>2. SampleAt[c] = Elements(current)
    BY <2>1 DEF SampleAt
  <2> QED BY <2>1, <2>2, CutSamples
<1>2. /\ DOMAIN ids = 1 .. n /\ n \in Nat /\ DOMAIN ids' = 1 .. n + 1
      /\ ids'[n + 1] = id /\ \A p \in 1 .. n : ids'[p] = ids[p]
      /\ Len(ids') = n + 1
  <2>1. ids \in Seq(IDs) /\ ids' = Append(ids, id)
    BY CutSamples DEF TraceType
  <2> QED BY <2>1, AppendElements
<1>3. \A k \in Samples : SampleAt[k] \subseteq 1 .. n
  BY <1>2 DEF WithInv, WithinTrace
<1>4. WithInv'
  <2>1. WithinTrace'
    BY <1>1, <1>2, <1>3 DEF WithinTrace
  <2>2. LastInCurrent'
    BY <1>2, CutSamples DEF LastInCurrent
  <2> QED BY <2>1, <2>2 DEF WithInv
<1>5. \A k \in Samples : n + 1 \notin SampleAt[k]
  BY <1>2, <1>3
<1>6. EachInOneSample'
  <2>1. ASSUME NEW p \in 1 .. n + 1
        PROVE  \E k \in Samples \cup {m} :
                 /\ p \in SampleAt'[k]
                 /\ \A l \in Samples \cup {m} : p \in SampleAt'[l] => l = k
    <3>1. CASE p = n + 1
      BY <1>1, <1>5, <3>1
    <3>2. CASE p \in 1 .. n
      <4>1. PICK k \in Samples :
              /\ p \in SampleAt[k]
              /\ \A l \in Samples : p \in SampleAt[l] => l = k
        BY <1>2, <3>2 DEF Partition, EachInOneSample
      <4>2. p \notin SampleAt'[m]
        BY <1>1, <1>2, <3>2
      <4> QED BY <1>1, <4>1, <4>2
    <3> QED BY <1>2, <3>1, <3>2
  <2> QED BY <1>1, <1>2, <2>1 DEF EachInOneSample
<1>7. CutsAtChanges'
  <2>1. ASSUME NEW p \in 1 .. n + 1, p + 1 \in 1 .. n + 1
        PROVE  ids'[p] = ids'[p + 1] <=>
                 \E k \in Samples \cup {m} :
                   p \in SampleAt'[k] /\ p + 1 \in SampleAt'[k]
    <3>1. CASE p = n
      <4>1. p \in 1 .. n /\ p + 1 = n + 1
        BY <1>2, <2>1, <3>1
      <4>2. ids'[p] # ids'[p + 1]
        BY <1>2, <3>1, <4>1, CutSamples
      <4>3. ASSUME NEW k \in Samples \cup {m},
                   p \in SampleAt'[k], p + 1 \in SampleAt'[k]
            PROVE  FALSE
        <5>1. k \notin Samples
          BY <1>1, <1>5, <4>1, <4>3
        <5>2. p \in {n + 1}
          BY <1>1, <4>3, <5>1
        <5> QED BY <1>2, <3>1, <5>2
      <4> QED BY <4>2, <4>3
    <3>2. CASE p # n
      <4>1. p \in 1 .. n /\ p + 1 \in 1 .. n
        <5>1. n \in Nat
          BY <1>2
        <5> QED BY <2>1, <3>2, <5>1
      <4>2. ids[p] = ids[p + 1] <=>
              \E k \in Samples : p \in SampleAt[k] /\ p + 1 \in SampleAt[k]
        BY <1>2, <4>1 DEF Partition, CutsAtChanges
      <4>3. p \notin SampleAt'[m]
        BY <1>1, <1>2, <4>1
      <4> QED BY <1>1, <1>2, <4>1, <4>2, <4>3
    <3> QED BY <3>1, <3>2
  <2> QED BY <1>1, <1>2, <2>1 DEF CutsAtChanges
<1> QED BY <1>4, <1>6, <1>7 DEF Partition

LEMMA EndPartition ==
  ASSUME TraceType, WithInv, Partition, End
  PROVE  WithInv' /\ Partition'
<1> DEFINE m == Len(complete) + 2
<1>1. /\ Samples' = Samples \cup {m} /\ m \notin Samples
      /\ \A k \in Samples : SampleAt'[k] = SampleAt[k]
      /\ SampleAt'[m] = {}
      /\ ids' = ids /\ ~open'
  BY EndSamples, SampleIndices
<1>2. WithInv'
  BY <1>1 DEF WithInv, WithinTrace, LastInCurrent
<1>3. EachInOneSample'
  <2>1. ASSUME NEW p \in DOMAIN ids
        PROVE  \E k \in Samples \cup {m} :
                 /\ p \in SampleAt'[k]
                 /\ \A l \in Samples \cup {m} : p \in SampleAt'[l] => l = k
    <3>1. PICK k \in Samples :
            /\ p \in SampleAt[k]
            /\ \A l \in Samples : p \in SampleAt[l] => l = k
      BY DEF Partition, EachInOneSample
    <3> QED BY <1>1, <3>1
  <2> QED BY <1>1, <2>1 DEF EachInOneSample
<1>4. CutsAtChanges'
  <2>1. ASSUME NEW p \in DOMAIN ids, p + 1 \in DOMAIN ids
        PROVE  ids[p] = ids[p + 1] <=>
                 \E k \in Samples \cup {m} :
                   p \in SampleAt'[k] /\ p + 1 \in SampleAt'[k]
    <3>1. ids[p] = ids[p + 1] <=>
            \E k \in Samples : p \in SampleAt[k] /\ p + 1 \in SampleAt[k]
      BY <2>1 DEF Partition, CutsAtChanges
    <3> QED BY <1>1, <3>1
  <2> QED BY <1>1, <2>1 DEF CutsAtChanges
<1> QED BY <1>2, <1>3, <1>4 DEF Partition

LEMMA NextPartition ==
  ASSUME TraceType, WithInv, Partition, [TraceNext]_traceVars
  PROVE  WithInv' /\ Partition'
<1>1. CASE UNCHANGED traceVars
  <2>1. /\ ids' = ids /\ open' = open /\ Samples' = Samples
        /\ SampleAt' = SampleAt /\ Elements(current)' = Elements(current)
    BY <1>1 DEF traceVars, Samples, SampleAt, Elements
  <2> QED BY <2>1 DEF WithInv, WithinTrace, LastInCurrent, Partition,
                      EachInOneSample, CutsAtChanges
<1>2. CASE TraceNext
  BY <1>2, ExtendPartition, CutPartition, EndPartition DEF TraceNext
<1> QED BY <1>1, <1>2

\* A trace of any length is cut into samples exactly where the id changes.
THEOREM PartitionCorrect == TraceSpec => []Partition
<1>1. TraceType /\ WithInv /\ Partition /\ [TraceNext]_traceVars => WithInv' /\ Partition'
  BY NextPartition
<1> QED BY <1>1, InitPartition, TypeCorrect, PTL DEF TraceSpec

-----------------------------------------------------------------------------
(* The counters of the loop of SampleWindows.                              *)

LEMMA SumAppend ==
  ASSUME NEW s \in Seq(Int), NEW e \in Int
  PROVE  SumFunction(Append(s, e)) = SumFunction(s) + e
<1> DEFINE t == Append(s, e)
           n == Len(s)
<1>1. /\ n \in Nat /\ DOMAIN s = 1 .. n /\ DOMAIN t = (1 .. n) \cup {n + 1}
      /\ t[n + 1] = e /\ n + 1 \notin 1 .. n
      /\ \A i \in 1 .. n : t[i] = s[i] /\ s[i] \in Int
  OBVIOUS
<1> HIDE DEF t, n
<1>2. IsFiniteSet(1 .. n)
  BY <1>1, FS_Interval
<1>3. \A i \in 1 .. n : t[i] \in Int
  BY <1>1
<1>4. SumFunctionOnSet(t, (1 .. n) \cup {n + 1}) = SumFunctionOnSet(t, 1 .. n) + e
  <2>1. t[n + 1] \in Int
    BY <1>1
  <2> DEFINE D == 1 .. n
             a == n + 1
  <2>2. IsFiniteSet(D) /\ (\A i \in D : t[i] \in Int) /\ a \notin D /\ t[a] \in Int
    BY <1>1, <1>2, <1>3, <2>1
  <2> HIDE DEF D, a
  <2>3. SumFunctionOnSet(t, D \cup {a}) = SumFunctionOnSet(t, D) + t[a]
    BY <2>2, SumAdd
  <2> QED BY <1>1, <2>3 DEF D, a
<1>5. SumFunctionOnSet(t, 1 .. n) = SumFunctionOnSet(s, 1 .. n)
  BY <1>1, <1>2, SumEqual
<1> QED BY <1>1, <1>4, <1>5 DEF SumFunction, t

LEMMA SumOfSeq ==
  ASSUME NEW s \in Seq(Nat)
  PROVE  SumFunction(s) \in Nat
<1>1. Len(s) \in Nat /\ DOMAIN s = 1 .. Len(s) /\ \A i \in DOMAIN s : s[i] \in Nat
  OBVIOUS
<1>2. IsFiniteSet(DOMAIN s)
  BY <1>1, FS_Interval
<1> QED BY <1>1, <1>2, SumNat DEF SumFunction

\* Accesses with extra loads, of any kind.
Loads == [at : Nat, addr : Addrs, extra : Nat, sample : Nat]

LEMMA AccessIsLoad == Access \subseteq Loads
<1>1. 1 .. MaxAccesses \subseteq Nat
  OBVIOUS
<1> QED BY <1>1, ParametersAssumption DEF ParametersAssumption, Access, Loads

LEMMA ExtraAppend ==
  ASSUME NEW s \in Seq(Loads), NEW e \in Loads
  PROVE  /\ ExtraOf(s) \in Nat
         /\ ExtraOf(Append(s, e)) = ExtraOf(s) + e.extra
<1> DEFINE f == [i \in DOMAIN s |-> s[i].extra]
           t == Append(s, e)
           g == [i \in DOMAIN t |-> t[i].extra]
<1>1. /\ Len(s) \in Nat /\ DOMAIN s = 1 .. Len(s) /\ DOMAIN t = 1 .. Len(s) + 1
      /\ t[Len(s) + 1] = e
      /\ \A i \in 1 .. Len(s) : t[i] = s[i] /\ s[i] \in Loads
  OBVIOUS
<1>2. \A x \in Loads : x.extra \in Nat
  BY DEF Loads
<1>3. f \in Seq(Nat) /\ Len(f) = Len(s)
  BY <1>1, <1>2
<1>4. g = Append(f, e.extra)
  <2> HIDE DEF t
  <2>1. DOMAIN g = 1 .. Len(s) + 1 /\ DOMAIN Append(f, e.extra) = 1 .. Len(s) + 1
    BY <1>1, <1>2, <1>3
  <2>2. ASSUME NEW i \in 1 .. Len(s) + 1 PROVE g[i] = Append(f, e.extra)[i]
    BY <1>1, <1>3, <2>2
  <2> HIDE DEF f
  <2> QED BY <1>1, <1>3, <2>1, <2>2
<1>5. SumFunction(Append(f, e.extra)) = SumFunction(f) + e.extra /\ SumFunction(f) \in Nat
  <2>1. e.extra \in Int /\ f \in Seq(Int)
    BY <1>2, <1>3
  <2> QED BY <1>3, <2>1, SumAppend, SumOfSeq
<1> QED BY <1>4, <1>5 DEF ExtraOf

CountsInv ==
  /\ input \in Seq(Access)
  /\ currentWS \in Nat /\ windowSize \in Nat /\ wSize \in Seq(Nat)
  /\ loadsInWindow \in Nat /\ totalLoads \in Nat /\ wLoads \in Seq(Nat)
  /\ CountsTelescope

LEMMA CountsInit == Init => CountsInv
<1> SUFFICES ASSUME Init PROVE CountsInv
  OBVIOUS
<1>1. SumFunction(<< >>) = 0
  BY SumEmpty DEF SumFunction
<1>2. ExtraOf(<< >>) = 0
  BY SumEmpty DEF SumFunction, ExtraOf
<1> QED BY <1>1, <1>2 DEF Init, CountsInv, CountsTelescope, SumOf

LEMMA CountsOfAccess ==
  ASSUME CountsInv, NEW access \in Access, IsAccess(access)
  PROVE  /\ input' \in Seq(Access) /\ Len(input') = Len(input) + 1 /\ Len(input) \in Nat
         /\ ExtraOf(input') = ExtraOf(input) + access.extra
         /\ ExtraOf(input) \in Nat /\ access.extra \in Nat
         /\ totalLoads' = totalLoads + 1 + access.extra
<1>1. input \in Seq(Access) /\ input' = Append(input, access)
  BY DEF CountsInv, IsAccess
<1>2. input \in Seq(Loads) /\ access \in Loads
  BY <1>1, AccessIsLoad
<1>3. access.extra \in Nat
  BY <1>2 DEF Loads
<1> QED BY <1>1, <1>2, <1>3, ExtraAppend DEF IsAccess

LEMMA CountsStep ==
  ASSUME CountsInv, [Next]_vars
  PROVE  CountsInv'
<1>1. ASSUME NEW access \in Access, SameSample(access) PROVE CountsInv'
  <2>1. IsAccess(access)
    BY <1>1 DEF SameSample
  <2>2. /\ currentWS' = currentWS + 1 /\ loadsInWindow' = loadsInWindow + 1 + access.extra
        /\ windowSize' = windowSize /\ wSize' = wSize /\ wLoads' = wLoads
    BY <1>1 DEF SameSample
  <2>3. SumOf(wLoads) \in Nat
    BY SumOfSeq DEF CountsInv, SumOf
  <2>4. /\ input' \in Seq(Access)
        /\ currentWS' \in Nat /\ loadsInWindow' \in Nat /\ totalLoads' \in Nat
    BY <2>1, <2>2, CountsOfAccess DEF CountsInv
  <2>5. /\ windowSize + currentWS = Len(input)
        /\ windowSize = SumOf(wSize)
        /\ totalLoads = Len(input) + ExtraOf(input)
        /\ SumOf(wLoads) + loadsInWindow = totalLoads
        /\ currentWS \in Nat /\ windowSize \in Nat
        /\ loadsInWindow \in Nat /\ totalLoads \in Nat
    BY DEF CountsInv, CountsTelescope
  <2>6. /\ Len(input') = Len(input) + 1 /\ Len(input) \in Nat
        /\ ExtraOf(input') = ExtraOf(input) + access.extra
        /\ ExtraOf(input) \in Nat /\ access.extra \in Nat
        /\ totalLoads' = totalLoads + 1 + access.extra
    BY <2>1, CountsOfAccess
  <2>7. /\ windowSize' + currentWS' = Len(input')
        /\ windowSize' = SumOf(wSize')
        /\ totalLoads' = Len(input') + ExtraOf(input')
        /\ SumOf(wLoads') + loadsInWindow' = totalLoads'
    <3> DEFINE n == Len(input)
               m == Len(input')
               x == ExtraOf(input)
               y == ExtraOf(input')
               z == SumOf(wLoads)
               e == access.extra
    <3>1. /\ windowSize + currentWS = n /\ totalLoads = n + x /\ z + loadsInWindow = totalLoads
          /\ currentWS \in Nat /\ windowSize \in Nat
          /\ loadsInWindow \in Nat /\ totalLoads \in Nat
      BY <2>5
    <3>2. /\ m = n + 1 /\ n \in Nat /\ y = x + e /\ x \in Nat /\ e \in Nat
          /\ totalLoads' = totalLoads + 1 + e
      BY <2>6
    <3>3. currentWS' = currentWS + 1 /\ windowSize' = windowSize /\ loadsInWindow' = loadsInWindow + 1 + e
      BY <2>2
    <3>4. z \in Nat /\ SumOf(wLoads') = z /\ windowSize' = SumOf(wSize')
      BY <2>2, <2>3, <2>5
    <3> HIDE DEF n, m, x, y, z, e
    <3>5. windowSize' + currentWS' = m /\ totalLoads' = m + y /\ z + loadsInWindow' = totalLoads'
      BY <3>1, <3>2, <3>3, <3>4
    <3> QED BY <3>4, <3>5 DEF m, y
  <2> QED BY <2>2, <2>4, <2>7 DEF CountsInv, CountsTelescope
<1>2. ASSUME NEW access \in Access, CloseSample(access) PROVE CountsInv'
  <2>1. IsAccess(access)
    BY <1>2 DEF CloseSample
  <2>2. /\ currentWS' = 0 /\ loadsInWindow' = 0
        /\ windowSize' = windowSize + (currentWS + 1)
        /\ wSize' = Append(wSize, currentWS + 1)
        /\ wLoads' = Append(wLoads, loadsInWindow + 1 + access.extra)
    BY <1>2 DEF CloseSample, Counted
  <2>3. /\ currentWS \in Nat /\ wSize \in Seq(Nat) /\ wLoads \in Seq(Nat)
        /\ loadsInWindow \in Nat /\ access.extra \in Nat
    BY <2>1, CountsOfAccess DEF CountsInv
  <2>4. wSize' \in Seq(Nat) /\ wLoads' \in Seq(Nat)
    BY <2>2, <2>3
  <2>5. /\ SumOf(wSize') = SumOf(wSize) + (currentWS + 1)
        /\ SumOf(wLoads') = SumOf(wLoads) + (loadsInWindow + 1 + access.extra)
        /\ SumOf(wLoads) \in Nat
    <3>1. wSize \in Seq(Int) /\ wLoads \in Seq(Int)
      BY <2>3
    <3>2. currentWS + 1 \in Int /\ loadsInWindow + 1 + access.extra \in Int
      BY <2>3
    <3> QED BY <2>2, <2>3, <3>1, <3>2, SumAppend, SumOfSeq DEF SumOf
  <2>6. input' \in Seq(Access) /\ windowSize' \in Nat /\ totalLoads' \in Nat
    BY <2>1, <2>2, CountsOfAccess DEF CountsInv
  <2>7. /\ windowSize + currentWS = Len(input)
        /\ windowSize = SumOf(wSize)
        /\ totalLoads = Len(input) + ExtraOf(input)
        /\ SumOf(wLoads) + loadsInWindow = totalLoads
        /\ currentWS \in Nat /\ windowSize \in Nat
        /\ loadsInWindow \in Nat /\ totalLoads \in Nat
    BY DEF CountsInv, CountsTelescope
  <2>8. /\ Len(input') = Len(input) + 1 /\ Len(input) \in Nat
        /\ ExtraOf(input') = ExtraOf(input) + access.extra
        /\ ExtraOf(input) \in Nat /\ access.extra \in Nat
        /\ totalLoads' = totalLoads + 1 + access.extra
    BY <2>1, CountsOfAccess
  <2>9. /\ windowSize' + currentWS' = Len(input')
        /\ windowSize' = SumOf(wSize')
        /\ totalLoads' = Len(input') + ExtraOf(input')
        /\ SumOf(wLoads') + loadsInWindow' = totalLoads'
    <3> DEFINE n == Len(input)
               m == Len(input')
               x == ExtraOf(input)
               y == ExtraOf(input')
               z == SumOf(wLoads)
               e == access.extra
    <3>1. /\ windowSize + currentWS = n /\ totalLoads = n + x /\ z + loadsInWindow = totalLoads
          /\ currentWS \in Nat /\ windowSize \in Nat
          /\ loadsInWindow \in Nat /\ totalLoads \in Nat
      BY <2>7
    <3>2. /\ m = n + 1 /\ n \in Nat /\ y = x + e /\ x \in Nat /\ e \in Nat
          /\ totalLoads' = totalLoads + 1 + e
      BY <2>8
    <3>3. currentWS' = 0 /\ windowSize' = windowSize + (currentWS + 1) /\ loadsInWindow' = 0
      BY <2>2
    <3>4. z \in Nat /\ SumOf(wLoads') = z + (loadsInWindow + 1 + e) /\ windowSize' = SumOf(wSize')
      BY <2>2, <2>5, <2>7
    <3> HIDE DEF n, m, x, y, z, e
    <3>5. /\ windowSize' + currentWS' = m /\ totalLoads' = m + y
          /\ z + (loadsInWindow + 1 + e) + 0 = totalLoads'
      BY <3>1, <3>2, <3>3, <3>4
    <3> QED BY <3>3, <3>4, <3>5 DEF m, y
  <2> QED BY <2>2, <2>4, <2>6, <2>9 DEF CountsInv, CountsTelescope
<1>3. ASSUME UNCHANGED <<input, countVars>> PROVE CountsInv'
  BY <1>3 DEF countVars, CountsInv, CountsTelescope
<1> QED BY <1>1, <1>2, <1>3 DEF Next, FirstWindow, ExtendWindow, NextWindow,
       EndOfTrace, EmptyTrace, BuildForest, PrintNode, Printed, vars

\* For traces of any length and any extra loads, the sizes of windows that the
\* multipliers are computed from add up to the trace: what one sample counts
\* too much, the next one counts too little (main.cpp:843-848, 891-915).
THEOREM CountsTelescopeCorrect == Spec => []CountsTelescope
<1>1. CountsInv => CountsTelescope
  BY DEF CountsInv
<1> QED BY <1>1, CountsInit, CountsStep, PTL DEF Spec

-----------------------------------------------------------------------------
(* The accesses under a window, by recursion over the heap.                *)

\* A window of the heap, whatever the trace.
HeapWindow ==
  [first : Nat, lvl : Nat, trace : Seq(Loads), leaf : Seq(Loads),
   fpMap : [load : [Addrs -> Nat], const : [Addrs -> Nat]],
   metrics : [fp : Nat, size : Nat] \cup {NoMetrics},
   constantLds : Nat, sampleHead : BOOLEAN,
   left : Nat, right : Nat, parent : Nat]

\* Children come before their parents.
Descending(h) == \A i \in DOMAIN h : h[i].left < i /\ h[i].right < i

\* The accesses under window i, given those under the windows before it.
UnderFrom(u, h, i) ==
  IF h[i].left = NULL THEN h[i].leaf
  ELSE u[h[i].left] \o (IF h[i].right = NULL THEN << >> ELSE u[h[i].right])

IsUnder(u, h) ==
  u = [i \in DOMAIN h |->
         IF h[i].left = NULL THEN h[i].leaf
         ELSE u[h[i].left] \o (IF h[i].right = NULL THEN << >> ELSE u[h[i].right])]

LEMMA UnderIsChoice ==
  ASSUME NEW h
  PROVE  UnderIn(h) = CHOOSE u : IsUnder(u, h)
BY DEF UnderIn, IsUnder

LEMMA HeapFacts ==
  ASSUME NEW h \in Seq(HeapWindow), NEW i \in DOMAIN h
  PROVE  /\ h[i] \in HeapWindow
         /\ i \in Nat /\ i # 0 /\ i <= Len(h) /\ Len(h) \in Nat /\ DOMAIN h = 1 .. Len(h)
         /\ h[i].left \in Nat /\ h[i].right \in Nat
         /\ h[i].leaf \in Seq(Loads) /\ h[i].trace \in Seq(Loads) /\ h[i].first \in Nat
<1>1. h[i] \in HeapWindow
  OBVIOUS
<1>2. /\ i \in Nat /\ i # 0 /\ i <= Len(h) /\ Len(h) \in Nat /\ DOMAIN h = 1 .. Len(h)
  OBVIOUS
<1> DEFINE w == h[i]
<1>3. w \in HeapWindow
  BY <1>1
<1> HIDE DEF w
<1>4. /\ w.left \in Nat /\ w.right \in Nat /\ w.leaf \in Seq(Loads)
      /\ w.trace \in Seq(Loads) /\ w.first \in Nat
  BY <1>3 DEF HeapWindow
<1> QED BY <1>1, <1>2, <1>4 DEF w

LEMMA UnderExists ==
  ASSUME NEW h \in Seq(HeapWindow), Descending(h)
  PROVE  \E u : IsUnder(u, h) /\ \A i \in DOMAIN h : u[i] \in Seq(Loads)
<1> DEFINE T == Seq(Loads)
           Holds(u, n) ==
             \A i \in 1 .. n : i \in DOMAIN h =>
               u[i] \in T /\ u[i] = UnderFrom(u, h, i)
           P == {n \in Nat : \E u : Holds(u, n)}
<1>1. /\ Len(h) \in Nat /\ DOMAIN h = 1 .. Len(h)
      /\ \A i \in DOMAIN h : /\ h[i].left \in Nat /\ h[i].right \in Nat
                             /\ h[i].leaf \in T
                             /\ h[i].left < i /\ h[i].right < i
  BY HeapFacts DEF Descending
<1>2. << >> \in T /\ \A s, t \in T : s \o t \in T
  OBVIOUS
<1> HIDE DEF T
<1>3. 0 \in P
  OBVIOUS
<1>4. ASSUME NEW n \in Nat, n \in P PROVE n + 1 \in P
  <2>1. PICK u : Holds(u, n)
    BY <1>4
  <2> DEFINE v == [i \in 1 .. n + 1 |-> IF i = n + 1 THEN UnderFrom(u, h, n + 1) ELSE u[i]]
  <2>2. \A i \in 1 .. n : v[i] = u[i]
    OBVIOUS
  <2>3. v[n + 1] = UnderFrom(u, h, n + 1)
    OBVIOUS
  <2> HIDE DEF v
  <2>4. ASSUME NEW i \in 1 .. n + 1, i \in DOMAIN h
        PROVE  UnderFrom(v, h, i) = UnderFrom(u, h, i)
    <3>1. ASSUME NEW j \in Nat, j < i, j # NULL PROVE v[j] = u[j]
      BY <2>2, <3>1 DEF NULL
    <3> QED BY <1>1, <2>4, <3>1 DEF UnderFrom
  <2>5. ASSUME NEW i \in 1 .. n + 1, i \in DOMAIN h
        PROVE  v[i] \in T /\ v[i] = UnderFrom(v, h, i)
    <3>1. CASE i \in 1 .. n
      BY <2>1, <2>2, <2>4, <2>5, <3>1
    <3>2. CASE i = n + 1
      <4>1. ASSUME NEW j \in Nat, j < i, j # NULL PROVE u[j] \in T
        <5>1. j \in 1 .. n /\ j \in DOMAIN h
          BY <1>1, <2>5, <3>2, <4>1 DEF NULL
        <5> QED BY <2>1, <5>1
      <4>2. UnderFrom(u, h, i) \in T
        BY <1>1, <1>2, <2>5, <4>1 DEF UnderFrom
      <4> QED BY <2>3, <2>4, <2>5, <3>2, <4>2
    <3> QED BY <3>1, <3>2
  <2> QED BY <2>5
<1>5. Len(h) \in P
  <2> HIDE DEF P
  <2> QED BY <1>1, <1>3, <1>4, NatSetInduction
<1>6. PICK u : Holds(u, Len(h))
  BY <1>5
<1> DEFINE w == [i \in DOMAIN h |-> u[i]]
<1>7. \A i \in DOMAIN h : w[i] \in T /\ w[i] = u[i]
  BY <1>1, <1>6
<1>8. ASSUME NEW i \in DOMAIN h PROVE w[i] = UnderFrom(w, h, i)
  <2>1. w[i] = UnderFrom(u, h, i)
    BY <1>1, <1>6
  <2>2. ASSUME NEW j \in Nat, j < i, j # NULL PROVE w[j] = u[j]
    <3>1. j \in DOMAIN h
      BY <1>1, <2>2 DEF NULL
    <3> QED BY <1>7, <3>1
  <2> HIDE DEF w
  <2> QED BY <1>1, <2>1, <2>2 DEF UnderFrom
<1>9. w = [i \in DOMAIN h |-> w[i]]
  OBVIOUS
<1>10. IsUnder(w, h)
  <2> HIDE DEF w
  <2> QED BY <1>8, <1>9 DEF IsUnder, UnderFrom
<1>11. \A i \in DOMAIN h : w[i] \in Seq(Loads)
  BY <1>7 DEF T
<1> HIDE DEF w
<1> QED BY <1>10, <1>11

LEMMA UnderEquations ==
  ASSUME NEW h \in Seq(HeapWindow), Descending(h)
  PROVE  \A i \in DOMAIN h : /\ UnderIn(h)[i] \in Seq(Loads)
                             /\ UnderIn(h)[i] = UnderFrom(UnderIn(h), h, i)
<1>1. IsUnder(UnderIn(h), h)
  BY UnderExists, UnderIsChoice
<1>2. \A i \in DOMAIN h : UnderIn(h)[i] = UnderFrom(UnderIn(h), h, i)
  <2> DEFINE u == UnderIn(h)
  <2> HIDE DEF u
  <2>1. IsUnder(u, h)
    BY <1>1 DEF u
  <2>2. \A i \in DOMAIN h : u[i] = UnderFrom(u, h, i)
    BY <2>1 DEF IsUnder, UnderFrom
  <2> QED BY <2>2 DEF u
<1> DEFINE T == Seq(Loads)
           u == UnderIn(h)
           P == {n \in Nat : \A i \in 1 .. n : i \in DOMAIN h => u[i] \in T}
<1>3. /\ Len(h) \in Nat /\ DOMAIN h = 1 .. Len(h)
      /\ \A i \in DOMAIN h : /\ h[i].left \in Nat /\ h[i].right \in Nat
                             /\ h[i].leaf \in T
                             /\ h[i].left < i /\ h[i].right < i
  BY HeapFacts DEF Descending
<1>4. << >> \in T /\ \A s, t \in T : s \o t \in T
  OBVIOUS
<1> HIDE DEF T, u
<1>5. 0 \in P
  OBVIOUS
<1>6. ASSUME NEW n \in Nat, n \in P PROVE n + 1 \in P
  <2>1. ASSUME NEW i \in 1 .. n + 1, i \in DOMAIN h PROVE u[i] \in T
    <3>1. ASSUME NEW j \in Nat, j < i, j # NULL PROVE u[j] \in T
      <4>1. j \in 1 .. n /\ j \in DOMAIN h
        BY <1>3, <2>1, <3>1 DEF NULL
      <4> QED BY <1>6, <4>1
    <3>2. u[i] = UnderFrom(u, h, i)
      BY <1>2, <2>1 DEF u
    <3>3. UnderFrom(u, h, i) \in T
      BY <1>3, <1>4, <2>1, <3>1 DEF UnderFrom
    <3> QED BY <3>2, <3>3
  <2> QED BY <2>1
<1>7. Len(h) \in P
  <2> HIDE DEF P
  <2> QED BY <1>3, <1>5, <1>6, NatSetInduction
<1> QED BY <1>2, <1>3, <1>7 DEF T, u

\* The accesses under the first n windows are told by the children and the
\* leaves of these windows.
LEMMA UnderSame ==
  ASSUME NEW h \in Seq(HeapWindow), Descending(h),
         NEW g \in Seq(HeapWindow), Descending(g),
         NEW n \in Nat, n <= Len(h), n <= Len(g),
         \A i \in 1 .. n : /\ g[i].left = h[i].left /\ g[i].right = h[i].right
                           /\ g[i].leaf = h[i].leaf
  PROVE  \A i \in 1 .. n : UnderIn(g)[i] = UnderIn(h)[i]
<1> DEFINE u == UnderIn(h)
           v == UnderIn(g)
           P == {m \in Nat : \A i \in 1 .. m : i <= n => v[i] = u[i]}
<1>1. /\ DOMAIN h = 1 .. Len(h) /\ DOMAIN g = 1 .. Len(g) /\ Len(h) \in Nat /\ Len(g) \in Nat
      /\ \A i \in DOMAIN h : /\ h[i].left \in Nat /\ h[i].right \in Nat
                             /\ h[i].left < i /\ h[i].right < i
  BY HeapFacts DEF Descending
<1>2. /\ \A i \in DOMAIN h : u[i] = UnderFrom(u, h, i)
      /\ \A i \in DOMAIN g : v[i] = UnderFrom(v, g, i)
  BY UnderEquations
<1> HIDE DEF u, v
<1>3. 0 \in P
  OBVIOUS
<1>4. ASSUME NEW m \in Nat, m \in P PROVE m + 1 \in P
  <2>1. ASSUME NEW i \in 1 .. m + 1, i <= n PROVE v[i] = u[i]
    <3>1. i \in DOMAIN h /\ i \in DOMAIN g /\ i \in 1 .. n
      BY <1>1, <2>1
    <3>2. ASSUME NEW j \in Nat, j < i, j # NULL PROVE v[j] = u[j]
      <4>1. j \in 1 .. m /\ j <= n
        BY <2>1, <3>2 DEF NULL
      <4> QED BY <1>4, <4>1
    <3>3. UnderFrom(v, g, i) = UnderFrom(u, h, i)
      BY <1>1, <3>1, <3>2 DEF UnderFrom
    <3> QED BY <1>2, <3>1, <3>3
  <2> QED BY <2>1
<1>5. n \in P
  <2> HIDE DEF P
  <2> QED BY <1>3, <1>4, NatSetInduction
<1> QED BY <1>5 DEF u, v

-----------------------------------------------------------------------------
(* The counts of fpMap and the metrics.                                    *)

LEMMA CountsType ==
  ASSUME NEW s \in Seq(Loads)
  PROVE  /\ LoadCounts(s) \in [Addrs -> Nat]
         /\ \A a \in Addrs : IsFiniteSet({i \in DOMAIN s : s[i].addr = a})
<1>1. IsFiniteSet(DOMAIN s)
  <2>1. DOMAIN s = 1 .. Len(s) /\ Len(s) \in Nat
    OBVIOUS
  <2> QED BY <2>1, FS_Interval
<1>2. \A a \in Addrs : /\ IsFiniteSet({i \in DOMAIN s : s[i].addr = a})
                       /\ Cardinality({i \in DOMAIN s : s[i].addr = a}) \in Nat
  BY <1>1, FS_Subset, FS_CardinalityType
<1> QED BY <1>2 DEF LoadCounts

LEMMA CountsConcat ==
  ASSUME NEW s \in Seq(Loads), NEW t \in Seq(Loads)
  PROVE  LoadCounts(s \o t) = Plus(LoadCounts(s), LoadCounts(t))
<1> DEFINE r == s \o t
           n == Len(s)
<1>1. /\ n \in Nat /\ DOMAIN s = 1 .. n /\ DOMAIN t = 1 .. Len(t) /\ Len(t) \in Nat
      /\ DOMAIN r = 1 .. n + Len(t)
      /\ \A i \in 1 .. n : r[i] = s[i]
      /\ \A i \in 1 .. Len(t) : r[n + i] = t[i]
  OBVIOUS
<1>2. ASSUME NEW a \in Addrs
      PROVE  LoadCounts(r)[a] = LoadCounts(s)[a] + LoadCounts(t)[a]
  <2> DEFINE A == {i \in DOMAIN s : s[i].addr = a}
             B == {i \in DOMAIN t : t[i].addr = a}
             C == {n + i : i \in B}
             R == {i \in DOMAIN r : r[i].addr = a}
  <2> HIDE DEF r, n
  <2>1. R = A \cup C
    <3>1. ASSUME NEW i \in R PROVE i \in A \cup C
      <4>1. CASE i \in 1 .. n
        BY <1>1, <4>1
      <4>2. CASE i \notin 1 .. n
        <5>1. i - n \in 1 .. Len(t) /\ i = n + (i - n)
          BY <1>1, <4>2
        <5>2. i - n \in B
          BY <1>1, <5>1
        <5> QED BY <5>1, <5>2
      <4> QED BY <4>1, <4>2
    <3>2. A \subseteq R
      BY <1>1
    <3>3. C \subseteq R
      BY <1>1
    <3> QED BY <3>1, <3>2, <3>3
  <2>2. A \cap C = {}
    BY <1>1
  <2>3. IsFiniteSet(A) /\ IsFiniteSet(B)
    BY CountsType
  <2>4. IsFiniteSet(C) /\ Cardinality(C) = Cardinality(B)
    <3> DEFINE f == [i \in B |-> n + i]
    <3>1. B \subseteq Nat
      BY <1>1
    <3>2. f \in Bijection(B, C)
      BY <1>1, <3>1 DEF Bijection, Injection, Surjection, IsInjective
    <3>3. ExistsBijection(B, C)
      BY <3>2 DEF ExistsBijection
    <3> HIDE DEF B, C
    <3> QED BY <2>3, <3>3, FS_Bijection
  <2>5. Cardinality(R) = Cardinality(A) + Cardinality(B)
    <3> HIDE DEF A, B, C, R
    <3>1. Cardinality(A \cup C) = Cardinality(A) + Cardinality(C) - Cardinality(A \cap C)
      BY <2>3, <2>4, FS_Union
    <3>2. Cardinality(A \cap C) = 0
      BY <2>2, FS_EmptySet
    <3>3. Cardinality(A) \in Nat /\ Cardinality(C) \in Nat
      BY <2>3, <2>4, FS_CardinalityType
    <3> QED BY <2>1, <2>4, <3>1, <3>2, <3>3
  <2>6. /\ LoadCounts(r)[a] = Cardinality(R) /\ LoadCounts(s)[a] = Cardinality(A)
        /\ LoadCounts(t)[a] = Cardinality(B)
    BY DEF LoadCounts
  <2> QED BY <2>5, <2>6
<1> HIDE DEF r
<1>3. LoadCounts(r) = [a \in Addrs |-> LoadCounts(r)[a]]
  BY DEF LoadCounts
<1> QED BY <1>2, <1>3 DEF Plus, r

LEMMA CountsAppend ==
  ASSUME NEW s \in Seq(Loads), NEW e \in Loads
  PROVE  /\ e.addr \in Addrs
         /\ LoadCounts(<<e>>) = [NoCounts.load EXCEPT ![e.addr] = 1]
         /\ LoadCounts(Append(s, e)) = [LoadCounts(s) EXCEPT ![e.addr] = @ + 1]
<1>1. e.addr \in Addrs
  BY DEF Loads
<1>2. \A a \in Addrs : LoadCounts(<<e>>)[a] = IF a = e.addr THEN 1 ELSE 0
  <2> SUFFICES ASSUME NEW a \in Addrs
               PROVE  LoadCounts(<<e>>)[a] = IF a = e.addr THEN 1 ELSE 0
    OBVIOUS
  <2>1. LoadCounts(<<e>>)[a] = Cardinality({i \in {1} : <<e>>[i].addr = a})
    BY DEF LoadCounts
  <2>2. CASE a = e.addr
    <3>1. {i \in {1} : <<e>>[i].addr = a} = {1}
      BY <2>2
    <3> QED BY <2>1, <2>2, <3>1, FS_Singleton
  <2>3. CASE a # e.addr
    <3>1. {i \in {1} : <<e>>[i].addr = a} = {}
      BY <2>3
    <3> QED BY <2>1, <2>3, <3>1, FS_EmptySet
  <2> QED BY <2>2, <2>3
<1>3. LoadCounts(<<e>>) = [NoCounts.load EXCEPT ![e.addr] = 1]
  <2>1. NoCounts.load = [a \in Addrs |-> 0]
    BY DEF NoCounts
  <2>2. LoadCounts(<<e>>) = [a \in Addrs |-> LoadCounts(<<e>>)[a]]
    BY DEF LoadCounts
  <2> DEFINE f == LoadCounts(<<e>>)
  <2> HIDE DEF f
  <2>3. f = [a \in Addrs |-> f[a]] /\ \A a \in Addrs : f[a] = IF a = e.addr THEN 1 ELSE 0
    BY <1>2, <2>2 DEF f
  <2>4. f = [NoCounts.load EXCEPT ![e.addr] = 1]
    BY <2>1, <2>3
  <2> QED BY <2>4 DEF f
<1>4. LoadCounts(Append(s, e)) = [LoadCounts(s) EXCEPT ![e.addr] = @ + 1]
  <2>1. Append(s, e) = s \o <<e>> /\ <<e>> \in Seq(Loads)
    OBVIOUS
  <2>2. LoadCounts(Append(s, e)) = Plus(LoadCounts(s), LoadCounts(<<e>>))
    BY <2>1, CountsConcat
  <2> DEFINE f == LoadCounts(s)
             g == LoadCounts(<<e>>)
  <2>3. f \in [Addrs -> Nat]
    BY CountsType
  <2>4. \A a \in Addrs : g[a] = IF a = e.addr THEN 1 ELSE 0
    BY <1>2
  <2> HIDE DEF f, g
  <2>5. Plus(f, g) = [f EXCEPT ![e.addr] = @ + 1]
    <3> DEFINE b == e.addr
               q == [f EXCEPT ![b] = @ + 1]
    <3>1. b \in Addrs /\ \A a \in Addrs : g[a] = IF a = b THEN 1 ELSE 0
      BY <1>1, <2>4
    <3> HIDE DEF b
    <3>2. \A a \in Addrs : f[a] + g[a] = IF a = b THEN f[a] + 1 ELSE f[a]
      BY <2>3, <3>1
    <3>3. q = [a \in Addrs |-> IF a = b THEN f[a] + 1 ELSE f[a]]
      BY <2>3, <3>1
    <3> HIDE DEF q
    <3>4. Plus(f, g) = q
      BY <3>2, <3>3 DEF Plus
    <3> QED BY <3>4 DEF b, q
  <2> QED BY <2>2, <2>5 DEF f, g
<1> QED BY <1>1, <1>3, <1>4

\* The footprint that a window reads off its counts.
LEMMA CountsFootprint ==
  ASSUME NEW s \in Seq(Loads)
  PROVE  /\ {a \in Addrs : LoadCounts(s)[a] > 0} = AddrsOf(s)
         /\ Cardinality(AddrsOf(s)) \in Nat
<1>1. ASSUME NEW a \in Addrs
      PROVE  LoadCounts(s)[a] > 0 <=> a \in AddrsOf(s)
  <2> DEFINE A == {i \in DOMAIN s : s[i].addr = a}
  <2>1. IsFiniteSet(A) /\ LoadCounts(s)[a] = Cardinality(A)
    BY CountsType DEF LoadCounts
  <2>2. A # {} <=> a \in AddrsOf(s)
    BY DEF AddrsOf
  <2> HIDE DEF A
  <2>3. Cardinality(A) \in Nat /\ (Cardinality(A) = 0 <=> A = {})
    BY <2>1, FS_CardinalityType, FS_EmptySet
  <2> QED BY <2>1, <2>2, <2>3
<1>2. AddrsOf(s) \subseteq Addrs
  <2>1. \A k \in DOMAIN s : s[k] \in Loads
    OBVIOUS
  <2> QED BY <2>1 DEF AddrsOf, Loads
<1>3. IsFiniteSet(AddrsOf(s))
  <2>1. DOMAIN s = 1 .. Len(s) /\ Len(s) \in Nat
    OBVIOUS
  <2>2. IsFiniteSet(DOMAIN s)
    BY <2>1, FS_Interval
  <2> DEFINE f == [k \in DOMAIN s |-> s[k].addr]
  <2>3. AddrsOf(s) = {f[k] : k \in DOMAIN s}
    BY DEF AddrsOf
  <2>4. f \in Surjection(DOMAIN s, AddrsOf(s))
    BY DEF AddrsOf, Surjection
  <2> QED BY <2>2, <2>4, FS_Surjection
<1> QED BY <1>1, <1>2, <1>3, FS_CardinalityType

LEMMA ExtraNat ==
  ASSUME NEW s \in Seq(Loads)
  PROVE  ExtraOf(s) \in Nat
<1> DEFINE f == [i \in DOMAIN s |-> s[i].extra]
<1>1. \A i \in DOMAIN s : s[i] \in Loads
  OBVIOUS
<1>2. \A i \in DOMAIN s : s[i].extra \in Nat
  BY <1>1 DEF Loads
<1>3. f \in Seq(Nat)
  BY <1>2
<1> QED BY <1>3, SumOfSeq DEF ExtraOf

\* What is kept of window w, over the accesses s: their metrics, or all that
\* is needed to compute them.
MetricsAre(w, s) ==
  IF w.metrics = NoMetrics
  THEN w.constantLds = 0 /\ w.trace = s /\ w.fpMap.load = LoadCounts(s)
  ELSE w.metrics = [fp |-> Cardinality(AddrsOf(s)), size |-> Len(s) + ExtraOf(s)]

\* The same window in the tree.
SameTree(v, w) ==
  /\ v.first = w.first /\ v.leaf = w.leaf /\ v.sampleHead = w.sampleHead
  /\ v.left = w.left /\ v.right = w.right

LEMMA WindowFields ==
  ASSUME NEW w \in HeapWindow
  PROVE  /\ w.first \in Nat /\ w.lvl \in Nat /\ w.trace \in Seq(Loads) /\ w.leaf \in Seq(Loads)
         /\ w.fpMap \in [load : [Addrs -> Nat], const : [Addrs -> Nat]]
         /\ w.metrics \in [fp : Nat, size : Nat] \cup {NoMetrics}
         /\ w.constantLds \in Nat /\ w.sampleHead \in BOOLEAN
         /\ w.left \in Nat /\ w.right \in Nat /\ w.parent \in Nat
BY DEF HeapWindow

LEMMA SizedWindow ==
  ASSUME NEW w \in HeapWindow
  PROVE  /\ CalcConstantLds(w) \in HeapWindow /\ Sized(w) \in HeapWindow
         /\ \E c, d \in Nat : /\ CalcConstantLds(w) = [w EXCEPT !.constantLds = c]
                              /\ Sized(w) = [w EXCEPT !.constantLds = d]
         /\ w.constantLds = 0 => Sized(w).constantLds = ExtraOf(w.trace)
<1> DEFINE c == w.constantLds + ExtraOf(w.trace)
<1>1. ExtraOf(w.trace) \in Nat /\ w.constantLds \in Nat
  BY WindowFields, ExtraNat
<1>2. c \in Nat
  BY <1>1
<1>3. CalcConstantLds(w) = [w EXCEPT !.constantLds = c]
  BY DEF CalcConstantLds
<1>4. ASSUME NEW d \in Nat
      PROVE  /\ [w EXCEPT !.constantLds = d] \in HeapWindow
             /\ [w EXCEPT !.constantLds = d].constantLds = d
  BY DEF HeapWindow
<1>5. w = [w EXCEPT !.constantLds = w.constantLds]
  BY DEF HeapWindow
<1>6. Sized(w) = [w EXCEPT !.constantLds = IF w.constantLds = 0 THEN c ELSE w.constantLds]
  <2>1. CASE w.constantLds = 0
    BY <1>3, <2>1 DEF Sized
  <2>2. CASE w.constantLds # 0
    BY <1>5, <2>2 DEF Sized
  <2> QED BY <2>1, <2>2
<1>7. w.constantLds = 0 => Sized(w).constantLds = ExtraOf(w.trace)
  <2> SUFFICES ASSUME w.constantLds = 0 PROVE Sized(w).constantLds = ExtraOf(w.trace)
    OBVIOUS
  <2>1. Sized(w).constantLds = c
    BY <1>2, <1>4, <1>6
  <2> QED BY <1>1, <2>1
<1> HIDE DEF c
<1>8. (IF w.constantLds = 0 THEN c ELSE w.constantLds) \in Nat
  BY <1>1, <1>2
<1> QED BY <1>2, <1>3, <1>4, <1>6, <1>7, <1>8

LEMMA MetricsOf ==
  ASSUME NEW w \in HeapWindow, NEW s \in Seq(Loads), MetricsAre(w, s), w.metrics = NoMetrics
  PROVE  /\ CalcFPMetrics(w) \in HeapWindow
         /\ \E c \in Nat :
              CalcFPMetrics(w) =
                [w EXCEPT !.constantLds = c,
                          !.metrics = [fp   |-> Cardinality(AddrsOf(s)),
                                       size |-> Len(s) + ExtraOf(s)]]
         /\ [fp |-> Cardinality(AddrsOf(s)), size |-> Len(s) + ExtraOf(s)] # NoMetrics
         /\ [fp |-> Cardinality(AddrsOf(s)), size |-> Len(s) + ExtraOf(s)] \in [fp : Nat, size : Nat]
<1> DEFINE m == [fp |-> Cardinality(AddrsOf(s)), size |-> Len(s) + ExtraOf(s)]
<1>1. w.constantLds = 0 /\ w.trace = s /\ w.fpMap.load = LoadCounts(s)
  BY DEF MetricsAre
<1>2. FPOf(w) = Cardinality(AddrsOf(s))
  BY <1>1, CountsFootprint DEF FPOf
<1>3. SizeOf(w) = Len(s) + ExtraOf(s)
  BY <1>1, SizedWindow DEF SizeOf
<1>4. Cardinality(AddrsOf(s)) \in Nat /\ Len(s) \in Nat /\ ExtraOf(s) \in Nat
  BY CountsFootprint, ExtraNat
<1>5. m \in [fp : Nat, size : Nat] /\ m.fp = Cardinality(AddrsOf(s))
  BY <1>4
<1>6. m # NoMetrics
  <2>1. NoMetrics.fp = -1
    BY DEF NoMetrics
  <2> HIDE DEF m
  <2> QED BY <1>4, <1>5, <2>1
<1>7. PICK d \in Nat : Sized(w) = [w EXCEPT !.constantLds = d]
  BY SizedWindow
<1>8. CalcFPMetrics(w) = [[w EXCEPT !.constantLds = d] EXCEPT !.metrics = m]
  BY <1>2, <1>3, <1>7 DEF CalcFPMetrics
<1> HIDE DEF m
<1>9. [[w EXCEPT !.constantLds = d] EXCEPT !.metrics = m]
        = [w EXCEPT !.constantLds = d, !.metrics = m]
  OBVIOUS
<1>10. [w EXCEPT !.constantLds = d, !.metrics = m] \in HeapWindow
  BY <1>5 DEF HeapWindow
<1> QED BY <1>5, <1>6, <1>8, <1>9, <1>10 DEF m

LEMMA AdoptedWindow ==
  ASSUME NEW w \in HeapWindow, NEW s \in Seq(Loads), MetricsAre(w, s), w.metrics = NoMetrics,
         NEW p \in Nat, NEW v, v = [Adopted(w) EXCEPT !.parent = p]
  PROVE  /\ v \in HeapWindow /\ SameTree(v, w) /\ MetricsAre(v, s)
         /\ v.trace = IF w.sampleHead THEN s ELSE << >>
<1>1. w.sampleHead \in BOOLEAN /\ w.trace = s
  BY WindowFields DEF MetricsAre
<1>2. CASE w.sampleHead
  <2>1. v = [w EXCEPT !.parent = p]
    BY <1>2 DEF Adopted
  <2>2. /\ v \in HeapWindow /\ SameTree(v, w) /\ v.trace = s /\ v.metrics = w.metrics
        /\ v.constantLds = w.constantLds /\ v.fpMap = w.fpMap
    BY <1>1, <2>1 DEF HeapWindow, SameTree
  <2> QED BY <1>2, <2>2 DEF MetricsAre
<1>3. CASE ~w.sampleHead
  <2> DEFINE m == [fp |-> Cardinality(AddrsOf(s)), size |-> Len(s) + ExtraOf(s)]
  <2>1. PICK c \in Nat : CalcFPMetrics(w) = [w EXCEPT !.constantLds = c, !.metrics = m]
    BY MetricsOf
  <2>2. m # NoMetrics /\ m \in [fp : Nat, size : Nat]
    BY MetricsOf
  <2>3. v = [[[w EXCEPT !.constantLds = c, !.metrics = m]
               EXCEPT !.trace = << >>, !.fpMap = NoCounts] EXCEPT !.parent = p]
    BY <1>3, <2>1 DEF Adopted
  <2>4. NoCounts \in [load : [Addrs -> Nat], const : [Addrs -> Nat]]
    BY DEF NoCounts
  <2> HIDE DEF m
  <2>5. << >> \in Seq(Loads)
    OBVIOUS
  <2> DEFINE x == [w EXCEPT !.constantLds = c, !.metrics = m]
             y == [x EXCEPT !.trace = << >>, !.fpMap = NoCounts]
  <2>6. v \in HeapWindow /\ SameTree(v, w) /\ v.trace = << >> /\ v.metrics = m
    <3>1. x \in HeapWindow /\ SameTree(x, w) /\ x.metrics = m
      BY <2>2 DEF HeapWindow, SameTree
    <3>2. v = [y EXCEPT !.parent = p]
      BY <2>3
    <3> HIDE DEF x
    <3>3. y \in HeapWindow /\ SameTree(y, w) /\ y.trace = << >> /\ y.metrics = m
      BY <2>4, <2>5, <3>1 DEF HeapWindow, SameTree
    <3> HIDE DEF y
    <3> QED BY <3>2, <3>3 DEF HeapWindow, SameTree
  <2>7. MetricsAre(v, s)
    BY <2>2, <2>6 DEF MetricsAre, m
  <2> QED BY <1>3, <2>6, <2>7
<1> QED BY <1>1, <1>2, <1>3

LEMMA MeasuredWindow ==
  ASSUME NEW w \in HeapWindow, NEW s \in Seq(Loads), MetricsAre(w, s),
         NEW l \in Nat, NEW v, v = [Measured(w) EXCEPT !.lvl = l]
  PROVE  /\ v \in HeapWindow /\ SameTree(v, w) /\ MetricsAre(v, s)
         /\ v.trace = w.trace /\ v.metrics # NoMetrics
<1> DEFINE x == IF w.metrics = NoMetrics THEN CalcFPMetrics(w) ELSE w
           m == [fp |-> Cardinality(AddrsOf(s)), size |-> Len(s) + ExtraOf(s)]
<1>1. /\ x \in HeapWindow /\ SameTree(x, w) /\ x.trace = w.trace
      /\ x.metrics = m /\ m # NoMetrics
  <2>1. CASE w.metrics = NoMetrics
    <3>1. PICK c \in Nat : CalcFPMetrics(w) = [w EXCEPT !.constantLds = c, !.metrics = m]
      BY <2>1, MetricsOf
    <3>2. m # NoMetrics /\ m \in [fp : Nat, size : Nat] /\ CalcFPMetrics(w) \in HeapWindow
      BY <2>1, MetricsOf
    <3>3. x = [w EXCEPT !.constantLds = c, !.metrics = m]
      BY <2>1, <3>1
    <3>4. x \in HeapWindow
      BY <2>1, <3>2
    <3> HIDE DEF m, x
    <3> QED BY <3>2, <3>3, <3>4 DEF HeapWindow, SameTree
  <2>2. CASE w.metrics # NoMetrics
    BY <2>2 DEF MetricsAre, SameTree
  <2> QED BY <2>1, <2>2
<1>2. v = [Sized(CalcConstantLds(x)) EXCEPT !.lvl = l]
  BY DEF Measured
<1> HIDE DEF x, m
<1>3. PICK c \in Nat : CalcConstantLds(x) = [x EXCEPT !.constantLds = c]
  BY <1>1, SizedWindow
<1> DEFINE y == CalcConstantLds(x)
<1>4. y \in HeapWindow
  BY <1>1, SizedWindow
<1>5. y = [x EXCEPT !.constantLds = c]
  BY <1>3
<1>6. v = [Sized(y) EXCEPT !.lvl = l]
  BY <1>2
<1> HIDE DEF y
<1>7. PICK d \in Nat : Sized(y) = [y EXCEPT !.constantLds = d]
  BY <1>4, SizedWindow
<1>8. v = [[[x EXCEPT !.constantLds = c] EXCEPT !.constantLds = d] EXCEPT !.lvl = l]
  BY <1>5, <1>6, <1>7
<1>9. v \in HeapWindow /\ SameTree(v, x) /\ v.trace = x.trace /\ v.metrics = x.metrics
  BY ZenonT(60), <1>1, <1>8 DEF HeapWindow, SameTree
<1>10. MetricsAre(v, s)
  BY <1>1, <1>9 DEF MetricsAre, m
<1>11. v.metrics # NoMetrics
  BY <1>1, <1>9 DEF m
<1> QED BY <1>1, <1>9, <1>10, <1>11 DEF SameTree

LEMMA FirstOfWindow ==
  ASSUME NEW e \in Loads, NEW v, v = NewWindow(e)
  PROVE  /\ v \in HeapWindow /\ v.first = e.at /\ v.leaf = <<e>> /\ v.trace = <<e>>
         /\ ~v.sampleHead /\ v.left = NULL /\ v.right = NULL
         /\ v.metrics = NoMetrics /\ MetricsAre(v, <<e>>)
<1>1. e.at \in Nat /\ e.addr \in Addrs /\ e.extra \in Nat
  BY DEF Loads
<1>2. <<e>> \in Seq(Loads) /\ NULL \in Nat
  BY DEF NULL
<1> DEFINE f == [NoCounts.load EXCEPT ![e.addr] = 1]
           g == [NoCounts.const EXCEPT ![e.addr] = e.extra]
<1>3. f \in [Addrs -> Nat] /\ g \in [Addrs -> Nat]
  BY <1>1 DEF NoCounts
<1>4. f = LoadCounts(<<e>>)
  <2>1. <<>> \in Seq(Loads)
    OBVIOUS
  <2> QED BY <2>1, CountsAppend
<1>5. v = [first |-> e.at, lvl |-> 0, trace |-> <<e>>, leaf |-> <<e>>,
           fpMap |-> [load |-> f, const |-> g],
           metrics |-> NoMetrics, constantLds |-> 0, sampleHead |-> FALSE,
           left |-> NULL, right |-> NULL, parent |-> NULL]
  BY DEF NewWindow
<1> HIDE DEF f, g
<1>6. [load |-> f, const |-> g] \in [load : [Addrs -> Nat], const : [Addrs -> Nat]]
  BY <1>3
<1>7. v \in HeapWindow
  BY <1>1, <1>2, <1>5, <1>6 DEF HeapWindow
<1>8. MetricsAre(v, <<e>>)
  BY <1>4, <1>5 DEF MetricsAre
<1> QED BY <1>5, <1>7, <1>8

Counts == [load : [Addrs -> Nat], const : [Addrs -> Nat]]

LEMMA CountsFields ==
  ASSUME NEW c \in Counts
  PROVE  /\ c.load \in [Addrs -> Nat] /\ c.const \in [Addrs -> Nat]
         /\ \A f, g \in [Addrs -> Nat] : /\ [load |-> f, const |-> g] \in Counts
                                         /\ Plus(f, g) \in [Addrs -> Nat]
<1>1. \A f, g \in [Addrs -> Nat] : Plus(f, g) \in [Addrs -> Nat]
  <2> SUFFICES ASSUME NEW f \in [Addrs -> Nat], NEW g \in [Addrs -> Nat]
               PROVE  Plus(f, g) \in [Addrs -> Nat]
    OBVIOUS
  <2>1. \A a \in Addrs : f[a] + g[a] \in Nat
    OBVIOUS
  <2> QED BY <2>1 DEF Plus
<1>2. c.load \in [Addrs -> Nat] /\ c.const \in [Addrs -> Nat]
  BY DEF Counts
<1>3. \A f, g \in [Addrs -> Nat] : [load |-> f, const |-> g] \in Counts
  BY DEF Counts
<1> QED BY <1>1, <1>2, <1>3

LEMMA CountsRecord ==
  ASSUME NEW A, NEW c \in [load : A, const : A], NEW f \in A, NEW g \in A
  PROVE  /\ [c EXCEPT !.load = f, !.const = g] \in [load : A, const : A]
         /\ [c EXCEPT !.load = f, !.const = g].load = f
OBVIOUS

LEMMA AddedAccess ==
  ASSUME NEW w \in HeapWindow, NEW s \in Seq(Loads), MetricsAre(w, s), w.metrics = NoMetrics,
         NEW e \in Loads, NEW v, v = AddAccess(w, e)
  PROVE  /\ v \in HeapWindow /\ v.first = w.first /\ v.leaf = Append(w.leaf, e)
         /\ v.trace = Append(s, e) /\ v.sampleHead = w.sampleHead
         /\ v.left = w.left /\ v.right = w.right
         /\ v.metrics = NoMetrics /\ MetricsAre(v, Append(s, e))
<1>1. e.addr \in Addrs /\ e.extra \in Nat
  BY DEF Loads
<1>2. /\ w.fpMap \in [load : [Addrs -> Nat], const : [Addrs -> Nat]]
      /\ w.leaf \in Seq(Loads) /\ w.trace = s /\ w.constantLds = 0
      /\ w.fpMap.load = LoadCounts(s)
  BY WindowFields DEF MetricsAre
<1> DEFINE f == [w.fpMap.load EXCEPT ![e.addr] = @ + 1]
           g == [w.fpMap.const EXCEPT ![e.addr] = @ + e.extra]
           c == w.fpMap
           m == [c EXCEPT !.load = f, !.const = g]
<1>c. c \in Counts
  BY <1>2 DEF Counts
<1>d. c.load \in [Addrs -> Nat] /\ c.const \in [Addrs -> Nat]
  BY <1>c, CountsFields
<1>3. f \in [Addrs -> Nat] /\ g \in [Addrs -> Nat]
  <2> HIDE DEF c
  <2>1. c.load[e.addr] + 1 \in Nat /\ c.const[e.addr] + e.extra \in Nat
    BY <1>1, <1>d
  <2>2. /\ [c.load EXCEPT ![e.addr] = c.load[e.addr] + 1] \in [Addrs -> Nat]
        /\ [c.const EXCEPT ![e.addr] = c.const[e.addr] + e.extra] \in [Addrs -> Nat]
    BY <1>1, <1>d, <2>1
  <2> QED BY <2>2 DEF c
<1>4. f = LoadCounts(Append(s, e))
  <2>1. LoadCounts(Append(s, e)) = [LoadCounts(s) EXCEPT ![e.addr] = @ + 1]
    BY CountsAppend
  <2> QED BY <1>2, <2>1
<1>5. v = [w EXCEPT !.trace = Append(w.trace, e), !.leaf = Append(w.leaf, e), !.fpMap = m]
  <2>1. [w.fpMap EXCEPT !.load[e.addr] = @ + 1, !.const[e.addr] = @ + e.extra] = m
    OBVIOUS
  <2>2. v = [w EXCEPT !.trace = Append(w.trace, e), !.leaf = Append(w.leaf, e),
                      !.fpMap = [w.fpMap EXCEPT !.load[e.addr] = @ + 1,
                                                !.const[e.addr] = @ + e.extra]]
    BY DEF AddAccess, HeapWindow
  <2> QED BY <2>1, <2>2
<1>6. Append(w.trace, e) \in Seq(Loads) /\ Append(w.leaf, e) \in Seq(Loads)
  BY <1>2
<1>7. m \in [load : [Addrs -> Nat], const : [Addrs -> Nat]] /\ m.load = f
  <2> HIDE DEF f, g, c
  <2> QED BY <1>3, <1>c, CountsRecord DEF Counts
<1> HIDE DEF f, g, m
<1>8. /\ v \in HeapWindow /\ v.first = w.first /\ v.leaf = Append(w.leaf, e)
      /\ v.trace = Append(s, e) /\ v.sampleHead = w.sampleHead
      /\ v.left = w.left /\ v.right = w.right /\ v.metrics = w.metrics
      /\ v.constantLds = 0 /\ v.fpMap = m
  BY <1>2, <1>5, <1>6, <1>7 DEF HeapWindow
<1> QED BY <1>4, <1>7, <1>8 DEF MetricsAre

LEMMA SingleWindow ==
  ASSUME NEW x \in HeapWindow, NEW s \in Seq(Loads), x.trace = s,
         NEW l \in Nat, NEW k \in Nat, NEW v, v = WithLeft(k, l, x)
  PROVE  /\ v \in HeapWindow /\ v.first = x.first /\ v.leaf = << >> /\ v.trace = s
         /\ ~v.sampleHead /\ v.left = l /\ v.right = NULL
         /\ v.metrics = NoMetrics /\ MetricsAre(v, s)
<1>1. x.first \in Nat
  BY WindowFields
<1> DEFINE m == [load |-> LoadCounts(s), const |-> NoCounts.const]
<1>2. m \in [load : [Addrs -> Nat], const : [Addrs -> Nat]] /\ m.load = LoadCounts(s)
  BY CountsType DEF NoCounts
<1>3. v = [first |-> x.first, lvl |-> k, trace |-> s, leaf |-> << >>,
           fpMap |-> m, metrics |-> NoMetrics, constantLds |-> 0, sampleHead |-> FALSE,
           left |-> l, right |-> NULL, parent |-> NULL]
  BY DEF WithLeft
<1>4. NULL \in Nat /\ << >> \in Seq(Loads)
  BY DEF NULL
<1> HIDE DEF m
<1>5. v \in HeapWindow
  BY <1>1, <1>2, <1>3, <1>4 DEF HeapWindow
<1>6. MetricsAre(v, s)
  BY <1>2, <1>3 DEF MetricsAre
<1> QED BY <1>3, <1>5, <1>6

LEMMA PairedWindow ==
  ASSUME NEW u \in HeapWindow, NEW s \in Seq(Loads), MetricsAre(u, s), u.metrics = NoMetrics,
         NEW y \in HeapWindow, NEW t \in Seq(Loads), MetricsAre(y, t), y.metrics = NoMetrics,
         NEW r \in Nat, NEW v, v = AddRight(u, r, y)
  PROVE  /\ v \in HeapWindow /\ v.first = u.first /\ v.leaf = u.leaf
         /\ v.sampleHead = u.sampleHead /\ v.left = u.left /\ v.right = r
         /\ v.metrics = NoMetrics /\ MetricsAre(v, s \o t)
<1> DEFINE c == s \o t
<1>1. /\ y.trace = t /\ y.fpMap.load = LoadCounts(t)
      /\ y.fpMap \in [load : [Addrs -> Nat], const : [Addrs -> Nat]]
  BY WindowFields DEF MetricsAre
<1>2. u.trace = s
  BY DEF MetricsAre
<1>3. /\ u.fpMap \in [load : [Addrs -> Nat], const : [Addrs -> Nat]]
      /\ u.fpMap.load = LoadCounts(s) /\ u.constantLds = 0
  BY WindowFields DEF MetricsAre
<1> DEFINE f == Plus(u.fpMap.load, y.fpMap.load)
           g == Plus(u.fpMap.const, y.fpMap.const)
           d == u.fpMap
           m == [d EXCEPT !.load = f, !.const = g]
<1>c. d \in Counts /\ y.fpMap \in Counts
  BY <1>1, <1>3 DEF Counts
<1>4. f \in [Addrs -> Nat] /\ g \in [Addrs -> Nat]
  BY <1>c, CountsFields
<1>5. f = LoadCounts(c)
  BY <1>1, <1>3, CountsConcat
<1>6. v = [u EXCEPT !.right = r, !.trace = c, !.fpMap = m]
  <2>1. [u.fpMap EXCEPT !.load = Plus(@, y.fpMap.load), !.const = Plus(@, y.fpMap.const)] = m
    OBVIOUS
  <2>2. v = [u EXCEPT !.right = r, !.trace = u.trace \o y.trace,
                      !.fpMap = [u.fpMap EXCEPT !.load = Plus(@, y.fpMap.load),
                                                !.const = Plus(@, y.fpMap.const)]]
    BY DEF AddRight, HeapWindow
  <2> QED BY <1>1, <1>2, <2>1, <2>2
<1>7. m \in [load : [Addrs -> Nat], const : [Addrs -> Nat]] /\ m.load = f
  <2> HIDE DEF f, g, d
  <2> QED BY <1>4, <1>c, CountsRecord DEF Counts
<1>8. c \in Seq(Loads)
  OBVIOUS
<1> HIDE DEF f, g, m, c
<1>9. /\ v \in HeapWindow /\ v.first = u.first /\ v.leaf = u.leaf /\ v.trace = c
      /\ v.sampleHead = u.sampleHead /\ v.left = u.left /\ v.right = r
      /\ v.metrics = u.metrics /\ v.constantLds = u.constantLds /\ v.fpMap = m
  BY ZenonT(60), <1>6, <1>7, <1>8 DEF HeapWindow
<1>10. MetricsAre(v, c)
  BY <1>3, <1>5, <1>7, <1>9 DEF MetricsAre
<1> QED BY <1>3, <1>9, <1>10 DEF c

-----------------------------------------------------------------------------
(* Heaps whose windows are pieces of a trace, and rows of them.            *)

ChildIn(h, i) == \E j \in DOMAIN h : i \in {h[j].left, h[j].right}

\* The accesses u are those of the trace s from position f on.
CoversFrom(u, f, s) ==
  /\ u # << >>
  /\ \A k \in DOMAIN u : f + k - 1 \in DOMAIN s /\ u[k] = s[f + k - 1]

Kept(h, i) ==
  h[i].trace = IF h[i].sampleHead \/ ~ChildIn(h, i) THEN UnderIn(h)[i] ELSE << >>

\* Every window of the heap stands for the accesses under it, a piece of s.
Heap(h, s) ==
  /\ h \in Seq(HeapWindow)
  /\ Descending(h)
  /\ \A i \in DOMAIN h : /\ CoversFrom(UnderIn(h)[i], h[i].first, s)
                         /\ Kept(h, i)
                         /\ MetricsAre(h[i], UnderIn(h)[i])

EndAfter(h, i) == h[i].first + Len(UnderIn(h)[i])

\* A row of windows without parents, one behind the other, from position p of
\* the trace to before q.
Tiles(h, row, p, q) ==
  /\ row \in Seq(DOMAIN h) /\ row # << >>
  /\ \A k \in DOMAIN row : ~ChildIn(h, row[k]) /\ h[row[k]].metrics = NoMetrics
  /\ \A j, k \in DOMAIN row : row[j] = row[k] => j = k
  /\ h[row[1]].first = p
  /\ \A k \in DOMAIN row :
       EndAfter(h, row[k]) = IF k = Len(row) THEN q ELSE h[row[k + 1]].first

\* The windows of h are still there in g; only those in R are changed.
Extends(h, g, R) ==
  /\ Len(h) <= Len(g)
  /\ \A i \in DOMAIN h : SameTree(g[i], h[i]) /\ UnderIn(g)[i] = UnderIn(h)[i]
  /\ \A i \in DOMAIN h \ R : g[i] = h[i] /\ (ChildIn(g, i) => ChildIn(h, i))

LEMMA ConcatCovers ==
  ASSUME NEW s \in Seq(Loads), NEW u \in Seq(Loads), NEW v \in Seq(Loads), NEW f \in Nat,
         CoversFrom(u, f, s), CoversFrom(v, f + Len(u), s)
  PROVE  CoversFrom(u \o v, f, s) /\ Len(u \o v) = Len(u) + Len(v)
<1> DEFINE w == u \o v
           n == Len(u)
<1>1. /\ n \in Nat /\ DOMAIN u = 1 .. n /\ DOMAIN v = 1 .. Len(v) /\ Len(v) \in Nat
      /\ DOMAIN w = 1 .. n + Len(v) /\ Len(w) = n + Len(v)
      /\ \A i \in 1 .. n : w[i] = u[i]
      /\ \A i \in 1 .. Len(v) : w[n + i] = v[i]
  OBVIOUS
<1> HIDE DEF w, n
<1>2. n # 0
  <2>1. u # << >>
    BY DEF CoversFrom
  <2> QED BY <2>1 DEF n
<1>3. w # << >>
  <2>1. Len(w) # 0
    BY <1>1, <1>2
  <2> QED BY <2>1
<1>4. ASSUME NEW k \in DOMAIN w PROVE f + k - 1 \in DOMAIN s /\ w[k] = s[f + k - 1]
  <2>1. CASE k \in 1 .. n
    BY <1>1, <2>1 DEF CoversFrom
  <2>2. CASE k \notin 1 .. n
    <3> DEFINE i == k - n
    <3>1. i \in 1 .. Len(v) /\ k = n + i /\ (f + n) + i - 1 = f + k - 1
      BY <1>1, <2>2
    <3> HIDE DEF i
    <3>2. (f + n) + i - 1 \in DOMAIN s /\ v[i] = s[(f + n) + i - 1]
      BY <1>1, <3>1 DEF CoversFrom, n
    <3> QED BY <1>1, <3>1, <3>2
  <2> QED BY <2>1, <2>2
<1> QED BY <1>1, <1>3, <1>4 DEF CoversFrom, w, n

LEMMA RowHalves ==
  ASSUME NEW S, NEW row \in Seq(S), row # << >>
  PROVE  /\ Len(row) \in Nat /\ DOMAIN row = 1 .. Len(row)
         /\ Width(row) \in Nat /\ Width(row) >= 1
         /\ 2 * Width(row) = Len(row) \/ 2 * Width(row) = Len(row) + 1
         /\ \A j \in 1 .. Width(row) : /\ 2 * j - 1 \in DOMAIN row
                                       /\ 2 * j <= Len(row) => 2 * j \in DOMAIN row
                                       /\ ~(2 * j <= Len(row)) => j = Width(row) /\ 2 * j - 1 = Len(row)
                                       /\ j # Width(row) => 2 * j \in DOMAIN row /\ 2 * j + 1 \in DOMAIN row
         /\ Len(row) > 1 => Width(row) < Len(row)
         /\ Len(row) <= 1 => Len(row) = 1
<1> DEFINE m == Len(row)
           w == (m + 1) \div 2
<1>1. m \in Nat /\ m >= 1 /\ DOMAIN row = 1 .. m
  OBVIOUS
<1> HIDE DEF m
<1>2. w \in Nat /\ (2 * w = m \/ 2 * w = m + 1)
  BY <1>1
<1>3. Width(row) = w
  BY DEF Width, m
<1> HIDE DEF w
<1>4. w >= 1 /\ (m > 1 => w < m) /\ (m <= 1 => m = 1)
  BY <1>1, <1>2
<1>5. ASSUME NEW j \in 1 .. w
      PROVE  /\ 2 * j - 1 \in 1 .. m
             /\ 2 * j <= m => 2 * j \in 1 .. m
             /\ ~(2 * j <= m) => j = w /\ 2 * j - 1 = m
             /\ j # w => 2 * j \in 1 .. m /\ 2 * j + 1 \in 1 .. m
  BY <1>1, <1>2
<1>6. /\ m \in Nat /\ DOMAIN row = 1 .. m /\ w \in Nat /\ w >= 1
      /\ 2 * w = m \/ 2 * w = m + 1
      /\ \A j \in 1 .. w : /\ 2 * j - 1 \in DOMAIN row
                           /\ 2 * j <= m => 2 * j \in DOMAIN row
                           /\ ~(2 * j <= m) => j = w /\ 2 * j - 1 = m
                           /\ j # w => 2 * j \in DOMAIN row /\ 2 * j + 1 \in DOMAIN row
      /\ m > 1 => w < m
      /\ m <= 1 => m = 1
  BY <1>1, <1>2, <1>4, <1>5
<1> QED BY <1>3, <1>6 DEF m

\* The window over the pair j of a row, or over its last window.
Joined(h, row, j) ==
  IF 2 * j <= Len(row) THEN Pair(h, row[2 * j - 1], row[2 * j])
                       ELSE Single(h, row[2 * j - 1])

\* The accesses under it.
JoinedUnder(h, row, j) ==
  UnderIn(h)[row[2 * j - 1]]
    \o (IF 2 * j <= Len(row) THEN UnderIn(h)[row[2 * j]] ELSE << >>)

LEMMA JoinedWindow ==
  ASSUME NEW s \in Seq(Loads), NEW h, Heap(h, s), NEW row, NEW p, NEW q, Tiles(h, row, p, q),
         NEW j \in 1 .. Width(row), NEW v, v = Joined(h, row, j)
  PROVE  /\ v \in HeapWindow /\ v.first = h[row[2 * j - 1]].first /\ v.leaf = << >>
         /\ v.trace = JoinedUnder(h, row, j) /\ JoinedUnder(h, row, j) \in Seq(Loads)
         /\ ~v.sampleHead /\ v.left = row[2 * j - 1]
         /\ v.right = IF 2 * j <= Len(row) THEN row[2 * j] ELSE NULL
         /\ v.metrics = NoMetrics /\ MetricsAre(v, JoinedUnder(h, row, j))
         /\ CoversFrom(JoinedUnder(h, row, j), v.first, s)
         /\ v.first + Len(JoinedUnder(h, row, j)) =
              IF j = Width(row) THEN q ELSE h[row[2 * j + 1]].first
<1> DEFINE l == row[2 * j - 1]
           r == row[2 * j]
           u == UnderIn(h)
<1>1. h \in Seq(HeapWindow) /\ Descending(h) /\ row \in Seq(DOMAIN h) /\ row # << >>
  BY DEF Heap, Tiles
<1>2. \A i \in DOMAIN h : u[i] \in Seq(Loads)
  BY <1>1, UnderEquations
<1>3. /\ 2 * j - 1 \in DOMAIN row /\ (2 * j <= Len(row) => 2 * j \in DOMAIN row)
      /\ (~(2 * j <= Len(row)) => j = Width(row) /\ 2 * j - 1 = Len(row))
      /\ (j # Width(row) => 2 * j \in DOMAIN row /\ 2 * j + 1 \in DOMAIN row)
      /\ Width(row) \in Nat /\ Len(row) \in Nat /\ DOMAIN row = 1 .. Len(row)
      /\ (2 * Width(row) = Len(row) \/ 2 * Width(row) = Len(row) + 1)
  BY <1>1, RowHalves
<1>4. \A k \in DOMAIN row :
        /\ row[k] \in DOMAIN h /\ row[k] \in Nat
        /\ h[row[k]] \in HeapWindow /\ h[row[k]].metrics = NoMetrics
        /\ MetricsAre(h[row[k]], u[row[k]]) /\ u[row[k]] \in Seq(Loads)
        /\ CoversFrom(u[row[k]], h[row[k]].first, s) /\ h[row[k]].first \in Nat
        /\ h[row[k]].lvl \in Nat
        /\ EndAfter(h, row[k]) = IF k = Len(row) THEN q ELSE h[row[k + 1]].first
  <2> SUFFICES ASSUME NEW k \in DOMAIN row
        PROVE  /\ row[k] \in DOMAIN h /\ row[k] \in Nat
               /\ h[row[k]] \in HeapWindow /\ h[row[k]].metrics = NoMetrics
               /\ MetricsAre(h[row[k]], u[row[k]]) /\ u[row[k]] \in Seq(Loads)
               /\ CoversFrom(u[row[k]], h[row[k]].first, s) /\ h[row[k]].first \in Nat
               /\ h[row[k]].lvl \in Nat
               /\ EndAfter(h, row[k]) = IF k = Len(row) THEN q ELSE h[row[k + 1]].first
    OBVIOUS
  <2>1. row[k] \in DOMAIN h
    BY <1>1
  <2>2. row[k] \in Nat /\ h[row[k]] \in HeapWindow /\ h[row[k]].first \in Nat
    BY <1>1, <2>1, HeapFacts
  <2>3. h[row[k]].lvl \in Nat
    BY <2>2, WindowFields
  <2>4. /\ h[row[k]].metrics = NoMetrics
        /\ EndAfter(h, row[k]) = IF k = Len(row) THEN q ELSE h[row[k + 1]].first
    BY DEF Tiles
  <2>5. MetricsAre(h[row[k]], u[row[k]]) /\ CoversFrom(u[row[k]], h[row[k]].first, s)
    BY <2>1 DEF Heap
  <2> QED BY <1>2, <2>1, <2>2, <2>3, <2>4, <2>5
<1> HIDE DEF u
<1>5. l \in Nat /\ h[l].trace = u[l]
  BY <1>3, <1>4 DEF MetricsAre
<1>6. CASE 2 * j <= Len(row)
  <2>1. JoinedUnder(h, row, j) = u[l] \o u[r]
    BY <1>6 DEF JoinedUnder, u
  <2>2. 2 * j \in DOMAIN row /\ 2 * j - 1 \in DOMAIN row
    BY <1>3, <1>6
  <2> DEFINE k == MaxLvl(h[l], h[r]) + 1
  <2>3. k \in Nat
    BY <1>4, <2>2 DEF MaxLvl
  <2>4. v = AddRight(WithLeft(k, l, h[l]), r, h[r])
    BY <1>6 DEF Joined, Pair
  <2> HIDE DEF k
  <2>5. /\ h[l] \in HeapWindow /\ u[l] \in Seq(Loads) /\ MetricsAre(h[l], u[l])
        /\ h[l].metrics = NoMetrics /\ l \in Nat
        /\ h[r] \in HeapWindow /\ u[r] \in Seq(Loads) /\ MetricsAre(h[r], u[r])
        /\ h[r].metrics = NoMetrics /\ r \in Nat
    BY <1>4, <2>2
  <2>6. /\ v \in HeapWindow /\ v.first = h[l].first /\ v.leaf = << >> /\ v.trace = u[l] \o u[r]
        /\ ~v.sampleHead /\ v.left = l /\ v.right = r
        /\ v.metrics = NoMetrics /\ MetricsAre(v, u[l] \o u[r])
    <3> DEFINE x == h[l]
               y == h[r]
               a == u[l]
               b == u[r]
    <3>1. /\ x \in HeapWindow /\ a \in Seq(Loads) /\ MetricsAre(x, a)
          /\ x.metrics = NoMetrics /\ l \in Nat
          /\ y \in HeapWindow /\ b \in Seq(Loads) /\ MetricsAre(y, b)
          /\ y.metrics = NoMetrics /\ r \in Nat /\ v = AddRight(WithLeft(k, l, x), r, y)
      BY <2>4, <2>5
    <3> HIDE DEF x, y, a, b, l, r
    <3> DEFINE w == WithLeft(k, l, x)
    <3>2. /\ w \in HeapWindow /\ w.first = x.first /\ w.leaf = << >>
          /\ ~w.sampleHead /\ w.left = l /\ w.metrics = NoMetrics /\ MetricsAre(w, a)
      <4>1. x.trace = a
        BY <3>1 DEF MetricsAre
      <4> QED BY <2>3, <3>1, <4>1, SingleWindow
    <3>3. v = AddRight(w, r, y)
      BY <3>1
    <3> HIDE DEF w
    <3> DEFINE c == a \o b
    <3>4. /\ v \in HeapWindow /\ v.first = w.first /\ v.leaf = w.leaf /\ v.trace = c
          /\ v.sampleHead = w.sampleHead /\ v.left = w.left /\ v.right = r
          /\ v.metrics = NoMetrics /\ MetricsAre(v, c)
      <4>1. /\ v \in HeapWindow /\ v.first = w.first /\ v.leaf = w.leaf
            /\ v.sampleHead = w.sampleHead /\ v.left = w.left /\ v.right = r
            /\ v.metrics = NoMetrics /\ MetricsAre(v, c)
        BY <3>1, <3>2, <3>3, PairedWindow
      <4> QED BY <4>1 DEF MetricsAre
    <3>5. /\ v \in HeapWindow /\ v.first = x.first /\ v.leaf = << >> /\ v.trace = a \o b
          /\ ~v.sampleHead /\ v.left = l /\ v.right = r
          /\ v.metrics = NoMetrics /\ MetricsAre(v, a \o b)
      BY <3>2, <3>4
    <3> QED BY <3>5 DEF x, y, a, b, l, r
  <2>7. EndAfter(h, l) = h[r].first /\ EndAfter(h, l) = h[l].first + Len(u[l])
    <3>1. 2 * j - 1 # Len(row) /\ (2 * j - 1) + 1 = 2 * j
      BY <1>3, <1>6
    <3>2. EndAfter(h, l) = h[r].first
      BY <1>4, <2>2, <3>1
    <3> QED BY <3>2 DEF EndAfter, u
  <2>8. CoversFrom(u[l] \o u[r], h[l].first, s) /\ Len(u[l] \o u[r]) = Len(u[l]) + Len(u[r])
    <3>1. h[l].first \in Nat /\ CoversFrom(u[l], h[l].first, s) /\ CoversFrom(u[r], h[r].first, s)
      BY <1>4, <2>2
    <3> DEFINE f == h[l].first
               a == u[l]
               b == u[r]
    <3>2. /\ f \in Nat /\ a \in Seq(Loads) /\ b \in Seq(Loads)
          /\ CoversFrom(a, f, s) /\ CoversFrom(b, f + Len(a), s)
      BY <2>5, <2>7, <3>1
    <3> HIDE DEF f, a, b, l, r
    <3>3. CoversFrom(a \o b, f, s) /\ Len(a \o b) = Len(a) + Len(b)
      BY <3>2, ConcatCovers
    <3> QED BY <3>3 DEF f, a, b, l, r
  <2>9. h[l].first + Len(u[l] \o u[r]) = EndAfter(h, r)
    <3>1. h[l].first \in Nat /\ Len(u[l]) \in Nat /\ Len(u[r]) \in Nat
      BY <1>4, <2>2, <2>5
    <3>2. EndAfter(h, r) = h[r].first + Len(u[r])
      BY DEF EndAfter, u
    <3> HIDE DEF l, r
    <3> DEFINE a == h[l].first
               b == Len(u[l])
               c == Len(u[r])
               d == Len(u[l] \o u[r])
               e == h[r].first
    <3>3. a \in Nat /\ b \in Nat /\ c \in Nat /\ d = b + c /\ e = a + b
      BY <2>7, <2>8, <3>1
    <3>4. EndAfter(h, r) = e + c
      BY <3>2
    <3> HIDE DEF a, b, c, d, e
    <3>5. a + d = e + c
      BY <3>3
    <3> QED BY <3>4, <3>5 DEF a, d
  <2>10. EndAfter(h, r) = IF j = Width(row) THEN q ELSE h[row[2 * j + 1]].first
    <3>1. 2 * j = Len(row) <=> j = Width(row)
      <4> DEFINE m == Len(row)
                 w == Width(row)
      <4>1. m \in Nat /\ w \in Nat /\ j \in 1 .. w /\ 2 * j <= m /\ (2 * w = m \/ 2 * w = m + 1)
        BY <1>3, <1>6
      <4> HIDE DEF m, w
      <4>2. 2 * j = m <=> j = w
        BY <4>1
      <4> QED BY <4>2 DEF m, w
    <3> QED BY <1>4, <2>2, <3>1
  <2>11. u[l] \o u[r] \in Seq(Loads)
    BY <2>5
  <2> DEFINE b == u[l] \o u[r]
             f == h[row[2 * j - 1]].first
             e == IF j = Width(row) THEN q ELSE h[row[2 * j + 1]].first
  <2>12. /\ JoinedUnder(h, row, j) = b /\ b \in Seq(Loads)
         /\ v \in HeapWindow /\ v.first = f /\ v.leaf = << >> /\ v.trace = b
         /\ ~v.sampleHead /\ v.left = row[2 * j - 1] /\ v.right = row[2 * j]
         /\ v.metrics = NoMetrics /\ MetricsAre(v, b)
         /\ CoversFrom(b, f, s) /\ f + Len(b) = e
    BY <2>1, <2>6, <2>8, <2>9, <2>10, <2>11
  <2> HIDE DEF b, f, e
  <2> QED BY <1>6, <2>12 DEF f, e
<1>7. CASE ~(2 * j <= Len(row))
  <2>1. JoinedUnder(h, row, j) = u[l]
    <3>1. u[l] \in Seq(Loads)
      BY <1>3, <1>4
    <3>2. u[l] \o << >> = u[l]
      BY <3>1
    <3> QED BY <1>7, <3>2 DEF JoinedUnder, u
  <2> DEFINE k == h[l].lvl + 1
  <2>2. k \in Nat /\ h[l] \in HeapWindow /\ u[l] \in Seq(Loads)
    <3>1. h[l].lvl \in Nat /\ h[l] \in HeapWindow /\ u[l] \in Seq(Loads)
      BY <1>3, <1>4
    <3> QED BY <3>1
  <2>3. v = WithLeft(k, l, h[l])
    BY <1>7 DEF Joined, Single
  <2> HIDE DEF k
  <2>4. /\ v \in HeapWindow /\ v.first = h[l].first /\ v.leaf = << >> /\ v.trace = u[l]
        /\ ~v.sampleHead /\ v.left = l /\ v.right = NULL
        /\ v.metrics = NoMetrics /\ MetricsAre(v, u[l])
    <3> HIDE DEF l
    <3> QED BY <1>5, <2>2, <2>3, SingleWindow
  <2>5. CoversFrom(u[l], v.first, s)
    BY <1>3, <1>4, <2>4
  <2>6. v.first + Len(u[l]) = IF j = Width(row) THEN q ELSE h[row[2 * j + 1]].first
    <3>1. j = Width(row) /\ 2 * j - 1 = Len(row)
      BY <1>3, <1>7
    <3>2. EndAfter(h, l) = q
      BY <1>3, <1>4, <3>1
    <3> QED BY <2>4, <3>1, <3>2 DEF EndAfter, u
  <2> QED BY <1>7, <2>1, <2>2, <2>4, <2>5, <2>6
<1> QED BY <1>6, <1>7

-----------------------------------------------------------------------------
(* One call of buildTree.                                                  *)

LEMMA TilesFacts ==
  ASSUME NEW s \in Seq(Loads), NEW h, Heap(h, s), NEW row, NEW p, NEW q, Tiles(h, row, p, q)
  PROVE  /\ h \in Seq(HeapWindow) /\ Len(h) \in Nat /\ DOMAIN h = 1 .. Len(h)
         /\ row \in Seq(DOMAIN h) /\ Len(row) \in Nat /\ DOMAIN row = 1 .. Len(row)
         /\ ToSet(row) = {row[k] : k \in DOMAIN row} /\ ToSet(row) \subseteq DOMAIN h
         /\ \A i \in DOMAIN h : UnderIn(h)[i] \in Seq(Loads)
         /\ \A i \in ToSet(row) :
              /\ ~ChildIn(h, i) /\ h[i].metrics = NoMetrics
              /\ h[i] \in HeapWindow /\ MetricsAre(h[i], UnderIn(h)[i])
<1>1. h \in Seq(HeapWindow) /\ Descending(h) /\ row \in Seq(DOMAIN h)
  BY DEF Heap, Tiles
<1>2. /\ Len(h) \in Nat /\ DOMAIN h = 1 .. Len(h)
      /\ Len(row) \in Nat /\ DOMAIN row = 1 .. Len(row)
  BY <1>1
<1>3. ToSet(row) = {row[k] : k \in DOMAIN row}
  BY <1>2 DEF ToSet
<1>4. \A i \in DOMAIN h : UnderIn(h)[i] \in Seq(Loads)
  BY <1>1, UnderEquations
<1>5. ASSUME NEW i \in ToSet(row)
      PROVE  /\ i \in DOMAIN h /\ ~ChildIn(h, i) /\ h[i].metrics = NoMetrics
             /\ h[i] \in HeapWindow /\ MetricsAre(h[i], UnderIn(h)[i])
  <2>1. PICK k \in DOMAIN row : i = row[k]
    BY <1>3
  <2>2. i \in DOMAIN h
    BY <1>1, <2>1
  <2>3. ~ChildIn(h, i) /\ h[i].metrics = NoMetrics
    BY <2>1 DEF Tiles
  <2>4. h[i] \in HeapWindow /\ MetricsAre(h[i], UnderIn(h)[i])
    BY <1>1, <2>2 DEF Heap
  <2> QED BY <2>2, <2>3, <2>4
<1> QED BY <1>1, <1>2, <1>3, <1>4, <1>5

LEMMA BuiltHeap ==
  ASSUME NEW s \in Seq(Loads), NEW h, Heap(h, s), NEW row, NEW p, NEW q, Tiles(h, row, p, q),
         NEW g, g = BuildRow(h, row).heap
  PROVE  /\ g \in Seq(HeapWindow) /\ Len(g) = Len(h) + Width(row) /\ Width(row) \in Nat
         /\ \A i \in DOMAIN h \ ToSet(row) : g[i] = h[i]
         /\ \A i \in ToSet(row) :
              /\ SameTree(g[i], h[i]) /\ MetricsAre(g[i], UnderIn(h)[i])
              /\ g[i].trace = IF h[i].sampleHead THEN UnderIn(h)[i] ELSE << >>
         /\ \A j \in 1 .. Width(row) : g[Len(h) + j] = Joined(h, row, j)
<1>1. /\ h \in Seq(HeapWindow) /\ Len(h) \in Nat /\ DOMAIN h = 1 .. Len(h)
      /\ row \in Seq(DOMAIN h) /\ row # << >> /\ Len(row) \in Nat /\ DOMAIN row = 1 .. Len(row)
      /\ ToSet(row) = {row[k] : k \in DOMAIN row} /\ ToSet(row) \subseteq DOMAIN h
      /\ \A i \in DOMAIN h : UnderIn(h)[i] \in Seq(Loads)
      /\ \A i \in ToSet(row) :
           /\ ~ChildIn(h, i) /\ h[i].metrics = NoMetrics
           /\ h[i] \in HeapWindow /\ MetricsAre(h[i], UnderIn(h)[i])
  <2>1. row # << >>
    BY DEF Tiles
  <2> QED BY <2>1, TilesFacts
<1>2. Width(row) \in Nat
  BY <1>1, RowHalves
<1> DEFINE A == [i \in DOMAIN h |->
                   IF i \in ToSet(row)
                   THEN [Adopted(h[i]) EXCEPT !.parent = ParentIn(h, row, i)]
                   ELSE h[i]]
           B == [j \in 1 .. Width(row) |-> Joined(h, row, j)]
<1>3. ASSUME NEW i \in ToSet(row)
      PROVE  /\ A[i] \in HeapWindow
             /\ SameTree(A[i], h[i]) /\ MetricsAre(A[i], UnderIn(h)[i])
             /\ A[i].trace = IF h[i].sampleHead THEN UnderIn(h)[i] ELSE << >>
  <2>1. ParentIn(h, row, i) \in Nat
    <3> DEFINE j == CHOOSE k \in DOMAIN row : row[k] = i
    <3>1. j \in DOMAIN row
      BY <1>1
    <3>2. j \in Nat
      BY <1>1, <3>1
    <3>3. h[i].parent \in Nat
      BY <1>1, WindowFields
    <3>4. ParentIn(h, row, i) = IF j = Len(row) /\ j % 2 = 1 THEN h[i].parent
                                                          ELSE Len(h) + (j + 1) \div 2
      BY DEF ParentIn
    <3> HIDE DEF j
    <3>5. (j + 1) \div 2 \in Nat
      BY <3>2
    <3> QED BY <1>1, <3>3, <3>4, <3>5
  <2> DEFINE v == A[i]
             par == ParentIn(h, row, i)
             w == h[i]
             u == UnderIn(h)[i]
  <2>2. v = [Adopted(w) EXCEPT !.parent = par]
    BY <1>1
  <2>3. w \in HeapWindow /\ u \in Seq(Loads) /\ MetricsAre(w, u) /\ w.metrics = NoMetrics
    BY <1>1
  <2> HIDE DEF v, par, w, u
  <2>4. par \in Nat
    BY <2>1 DEF par
  <2>5. /\ v \in HeapWindow /\ SameTree(v, w) /\ MetricsAre(v, u)
        /\ v.trace = IF w.sampleHead THEN u ELSE << >>
    BY <2>2, <2>3, <2>4, AdoptedWindow
  <2> QED BY <2>5 DEF v, w, u
<1>4. ASSUME NEW i \in DOMAIN h \ ToSet(row) PROVE A[i] = h[i] /\ A[i] \in HeapWindow
  BY <1>1
<1>5. \A j \in 1 .. Width(row) : B[j] = Joined(h, row, j) /\ B[j] \in HeapWindow
  <2>1. ASSUME NEW j \in 1 .. Width(row) PROVE Joined(h, row, j) \in HeapWindow
    <3> DEFINE v == Joined(h, row, j)
    <3>1. v = Joined(h, row, j)
      OBVIOUS
    <3> HIDE DEF v
    <3>2. v \in HeapWindow
      BY <3>1, JoinedWindow
    <3> QED BY <3>1, <3>2
  <2> QED BY <2>1
<1>6. BuildRow(h, row).heap = A \o B
  BY DEF BuildRow, Joined
<1>7. DOMAIN A = 1 .. Len(h) /\ DOMAIN B = 1 .. Width(row)
  BY <1>1
<1>8. A = [i \in 1 .. Len(h) |-> A[i]] /\ B = [i \in 1 .. Width(row) |-> B[i]]
  BY <1>7
<1> HIDE DEF A, B
<1>9. \A i \in 1 .. Len(h) : A[i] \in HeapWindow
  BY <1>1, <1>3, <1>4
<1>10. A \in Seq(HeapWindow) /\ Len(A) = Len(h)
  BY <1>1, <1>8, <1>9
<1>11. B \in Seq(HeapWindow) /\ Len(B) = Width(row)
  BY <1>2, <1>5, <1>8
<1>12. /\ A \o B \in Seq(HeapWindow) /\ Len(A \o B) = Len(h) + Width(row)
       /\ \A i \in 1 .. Len(h) : (A \o B)[i] = A[i]
       /\ \A j \in 1 .. Width(row) : (A \o B)[Len(h) + j] = B[j]
  <2>1. /\ A \o B \in Seq(HeapWindow) /\ Len(A \o B) = Len(A) + Len(B)
        /\ \A i \in 1 .. Len(A) : (A \o B)[i] = A[i]
        /\ \A j \in 1 .. Len(B) : (A \o B)[Len(A) + j] = B[j]
    BY <1>10, <1>11
  <2> QED BY <1>10, <1>11, <2>1
<1>13. g = A \o B
  BY <1>6
<1> DEFINE c == A \o B
<1>14. /\ c \in Seq(HeapWindow) /\ Len(c) = Len(h) + Width(row)
       /\ \A i \in 1 .. Len(h) : c[i] = A[i]
       /\ \A j \in 1 .. Width(row) : c[Len(h) + j] = B[j]
       /\ g = c
  BY <1>12, <1>13
<1> HIDE DEF c
<1>15. /\ g \in Seq(HeapWindow) /\ Len(g) = Len(h) + Width(row)
       /\ \A i \in 1 .. Len(h) : g[i] = A[i]
       /\ \A j \in 1 .. Width(row) : g[Len(h) + j] = B[j]
  BY <1>14
<1>16. \A i \in ToSet(row) : g[i] = A[i]
  BY <1>1, <1>15
<1> QED BY <1>1, <1>2, <1>3, <1>4, <1>5, <1>15, <1>16

\* The children of the windows of a heap that a row of parents was put on.
LEMMA BuiltChildren ==
  ASSUME NEW s \in Seq(Loads), NEW h, Heap(h, s), NEW row, NEW p, NEW q, Tiles(h, row, p, q),
         NEW g, g = BuildRow(h, row).heap
  PROVE  /\ Descending(g)
         /\ \A i \in DOMAIN h : UnderIn(g)[i] = UnderIn(h)[i] /\ SameTree(g[i], h[i])
         /\ \A j \in 1 .. Width(row) : UnderIn(g)[Len(h) + j] = JoinedUnder(h, row, j)
         /\ \A i \in DOMAIN h : ChildIn(g, i) <=> ChildIn(h, i) \/ i \in ToSet(row)
         /\ \A j \in 1 .. Width(row) : ~ChildIn(g, Len(h) + j)
<1>1. /\ h \in Seq(HeapWindow) /\ Len(h) \in Nat /\ DOMAIN h = 1 .. Len(h)
      /\ row \in Seq(DOMAIN h) /\ DOMAIN row = 1 .. Len(row)
      /\ ToSet(row) = {row[k] : k \in DOMAIN row} /\ ToSet(row) \subseteq DOMAIN h
      /\ \A i \in DOMAIN h : UnderIn(h)[i] \in Seq(Loads)
  BY TilesFacts
<1>2. /\ g \in Seq(HeapWindow) /\ Len(g) = Len(h) + Width(row) /\ Width(row) \in Nat
      /\ \A i \in DOMAIN h \ ToSet(row) : g[i] = h[i]
      /\ \A i \in ToSet(row) : SameTree(g[i], h[i])
      /\ \A j \in 1 .. Width(row) : g[Len(h) + j] = Joined(h, row, j)
  BY BuiltHeap
<1>3. DOMAIN g = 1 .. Len(h) + Width(row)
  BY <1>1, <1>2
<1>4. \A i \in DOMAIN h : SameTree(g[i], h[i])
  BY <1>2 DEF SameTree
<1>5. ASSUME NEW j \in 1 .. Width(row)
      PROVE  /\ 2 * j - 1 \in DOMAIN row /\ (2 * j <= Len(row) => 2 * j \in DOMAIN row)
             /\ g[Len(h) + j].left = row[2 * j - 1] /\ row[2 * j - 1] \in DOMAIN h
             /\ g[Len(h) + j].right = IF 2 * j <= Len(row) THEN row[2 * j] ELSE NULL
             /\ 2 * j <= Len(row) => row[2 * j] \in DOMAIN h
  <2> DEFINE v == Joined(h, row, j)
  <2>1. v = Joined(h, row, j) /\ g[Len(h) + j] = v
    BY <1>2
  <2> HIDE DEF v
  <2>2. v.left = row[2 * j - 1] /\ v.right = IF 2 * j <= Len(row) THEN row[2 * j] ELSE NULL
    BY <2>1, JoinedWindow
  <2>3. row # << >>
    BY DEF Tiles
  <2>4. 2 * j - 1 \in DOMAIN row /\ (2 * j <= Len(row) => 2 * j \in DOMAIN row)
    BY <1>1, <2>3, RowHalves
  <2>5. \A k \in DOMAIN row : row[k] \in DOMAIN h
    BY <1>1
  <2> QED BY <2>1, <2>2, <2>4, <2>5
<1>6. \A i \in DOMAIN g : i \in DOMAIN h \/ \E j \in 1 .. Width(row) : i = Len(h) + j
  <2> DEFINE n == Len(h)
             w == Width(row)
  <2>1. n \in Nat /\ w \in Nat /\ DOMAIN h = 1 .. n /\ DOMAIN g = 1 .. n + w
    BY <1>1, <1>2, <1>3
  <2> HIDE DEF n, w
  <2>2. ASSUME NEW i \in 1 .. n + w, i \notin 1 .. n PROVE \E j \in 1 .. w : i = n + j
    <3>1. i - n \in 1 .. w /\ i = n + (i - n)
      BY <2>1, <2>2
    <3> QED BY <3>1
  <2>3. \A i \in DOMAIN g : i \in DOMAIN h \/ \E j \in 1 .. w : i = n + j
    BY <2>1, <2>2
  <2> QED BY <2>3 DEF n, w
<1>7. Descending(g)
  <2>1. ASSUME NEW i \in DOMAIN h PROVE g[i].left < i /\ g[i].right < i
    <3>1. h[i].left < i /\ h[i].right < i
      BY DEF Heap, Descending
    <3> QED BY <1>4, <3>1 DEF SameTree
  <2>2. ASSUME NEW j \in 1 .. Width(row)
        PROVE  g[Len(h) + j].left < Len(h) + j /\ g[Len(h) + j].right < Len(h) + j
    <3>1. \A i \in DOMAIN h : i < Len(h) + j
      BY <1>1, <1>2
    <3>2. NULL < Len(h) + j
      BY <1>1, <1>2 DEF NULL
    <3> QED BY <1>5, <3>1, <3>2
  <2> QED BY <1>6, <2>1, <2>2 DEF Descending
<1>8. \A i \in DOMAIN h : UnderIn(g)[i] = UnderIn(h)[i]
  <2> DEFINE n == Len(h)
  <2>1. n \in Nat /\ n <= Len(h) /\ n <= Len(g) /\ DOMAIN h = 1 .. n
    BY <1>1, <1>2
  <2>2. \A i \in 1 .. n : /\ g[i].left = h[i].left /\ g[i].right = h[i].right
                          /\ g[i].leaf = h[i].leaf
    BY <1>4, <2>1 DEF SameTree
  <2>3. Descending(h)
    BY DEF Heap
  <2> HIDE DEF n
  <2>4. \A i \in 1 .. n : UnderIn(g)[i] = UnderIn(h)[i]
    BY <1>1, <1>2, <1>7, <2>1, <2>2, <2>3, UnderSame
  <2> QED BY <2>1, <2>4
<1>9. ASSUME NEW j \in 1 .. Width(row)
      PROVE  UnderIn(g)[Len(h) + j] = JoinedUnder(h, row, j)
  <2> DEFINE i == Len(h) + j
             l == row[2 * j - 1]
  <2>1. i \in DOMAIN g
    BY <1>1, <1>2, <1>3
  <2>2. UnderIn(g)[i] = UnderFrom(UnderIn(g), g, i)
    BY <1>2, <1>7, <2>1, UnderEquations
  <2>3. g[i].left = l /\ l # NULL /\ UnderIn(g)[l] = UnderIn(h)[l]
    BY <1>1, <1>5, <1>8 DEF NULL
  <2>4. CASE 2 * j <= Len(row)
    <3> DEFINE r == row[2 * j]
    <3>1. g[i].right = r /\ r # NULL /\ UnderIn(g)[r] = UnderIn(h)[r]
      BY SMTT(30), <1>1, <1>5, <1>8, <2>4 DEF NULL
    <3>2. JoinedUnder(h, row, j) = UnderIn(h)[l] \o UnderIn(h)[r]
      BY <2>4 DEF JoinedUnder
    <3> HIDE DEF i, l, r
    <3> QED BY <2>2, <2>3, <3>1, <3>2 DEF UnderFrom, i
  <2>5. CASE ~(2 * j <= Len(row))
    <3>1. g[i].right = NULL
      BY <1>5, <2>5
    <3>2. JoinedUnder(h, row, j) = UnderIn(h)[l] \o << >>
      BY <2>5 DEF JoinedUnder
    <3> HIDE DEF i, l
    <3> QED BY <2>2, <2>3, <3>1, <3>2 DEF UnderFrom, i
  <2> QED BY <2>4, <2>5
<1>10. ASSUME NEW i \in DOMAIN h PROVE ChildIn(g, i) <=> ChildIn(h, i) \/ i \in ToSet(row)
  <2>1. ASSUME NEW k \in DOMAIN g, i \in {g[k].left, g[k].right}
        PROVE  ChildIn(h, i) \/ i \in ToSet(row)
    <3>1. CASE k \in DOMAIN h
      <4>1. i \in {h[k].left, h[k].right}
        BY <1>4, <2>1, <3>1 DEF SameTree
      <4> QED BY <3>1, <4>1 DEF ChildIn
    <3>2. CASE k \notin DOMAIN h
      <4>1. PICK j \in 1 .. Width(row) : k = Len(h) + j
        BY <1>6, <3>2
      <4>2. i # NULL
        BY <1>1 DEF NULL
      <4>3. i = row[2 * j - 1] \/ (2 * j <= Len(row) /\ i = row[2 * j])
        BY <1>5, <2>1, <4>1, <4>2
      <4> QED BY <1>1, <1>5, <4>3
    <3> QED BY <3>1, <3>2
  <2>2. ASSUME ChildIn(h, i) PROVE ChildIn(g, i)
    <3>1. PICK k \in DOMAIN h : i \in {h[k].left, h[k].right}
      BY <2>2 DEF ChildIn
    <3>2. k \in DOMAIN g /\ i \in {g[k].left, g[k].right}
      <4>1. k \in DOMAIN g
        BY <1>1, <1>2, <1>3
      <4> QED BY <1>4, <3>1, <4>1 DEF SameTree
    <3> QED BY <3>2 DEF ChildIn
  <2>3. ASSUME i \in ToSet(row) PROVE ChildIn(g, i)
    <3>1. PICK k \in DOMAIN row : i = row[k]
      BY <1>1, <2>3
    <3>2. \E j \in 1 .. Width(row) : k = 2 * j - 1 \/ (k = 2 * j /\ 2 * j <= Len(row))
      <4> DEFINE w == Width(row)
                 m == Len(row)
      <4>1. w \in Nat /\ m \in Nat /\ (2 * w = m \/ 2 * w = m + 1) /\ k \in 1 .. m
        <5>1. row # << >>
          BY DEF Tiles
        <5> QED BY <1>1, <5>1, RowHalves
      <4> HIDE DEF w, m
      <4>2. \E j \in 1 .. w : k = 2 * j - 1 \/ (k = 2 * j /\ 2 * j <= m)
        <5> DEFINE j == (k + 1) \div 2
        <5>1. j \in Nat /\ (2 * j = k \/ 2 * j = k + 1)
          BY <4>1
        <5> HIDE DEF j
        <5>2. j \in 1 .. w /\ (k = 2 * j - 1 \/ (k = 2 * j /\ 2 * j <= m))
          BY <4>1, <5>1
        <5> QED BY <5>2
      <4> QED BY <4>2 DEF w, m
    <3>3. PICK j \in 1 .. Width(row) : k = 2 * j - 1 \/ (k = 2 * j /\ 2 * j <= Len(row))
      BY <3>2
    <3>4. i \in {g[Len(h) + j].left, g[Len(h) + j].right}
      BY <1>5, <3>1, <3>3
    <3>5. Len(h) + j \in DOMAIN g
      BY <1>1, <1>2, <1>3
    <3> QED BY <3>4, <3>5 DEF ChildIn
  <2> QED BY <2>1, <2>2, <2>3 DEF ChildIn
<1>11. ASSUME NEW j \in 1 .. Width(row) PROVE ~ChildIn(g, Len(h) + j)
  <2> SUFFICES ASSUME NEW k \in DOMAIN g, Len(h) + j \in {g[k].left, g[k].right} PROVE FALSE
    BY DEF ChildIn
  <2>1. Len(h) + j \notin DOMAIN h /\ Len(h) + j # NULL
    BY <1>1, <1>2 DEF NULL
  <2>2. CASE k \in DOMAIN h
    <3>1. k <= Len(h) /\ g[k].left < k /\ g[k].right < k
      BY <1>1, <1>7, <2>2 DEF Descending
    <3>2. g[k].left \in Nat /\ g[k].right \in Nat
      BY <1>2, HeapFacts
    <3> QED BY <1>1, <1>2, <2>2, <3>1, <3>2
  <2>3. CASE k \notin DOMAIN h
    <3>1. PICK i \in 1 .. Width(row) : k = Len(h) + i
      BY <1>6, <2>3
    <3> QED BY <1>5, <2>1, <3>1
  <2> QED BY <2>2, <2>3
<1> QED BY <1>4, <1>7, <1>8, <1>9, <1>10, <1>11

\* Putting parents on a row keeps the windows what they are, and the parents
\* are a row over the same accesses.
LEMMA BuildRowHeap ==
  ASSUME NEW s \in Seq(Loads), NEW h, Heap(h, s), NEW row, NEW p, NEW q, Tiles(h, row, p, q),
         NEW g, g = BuildRow(h, row).heap
  PROVE  Heap(g, s) /\ Extends(h, g, ToSet(row))
<1>1. /\ h \in Seq(HeapWindow) /\ Len(h) \in Nat /\ DOMAIN h = 1 .. Len(h)
      /\ ToSet(row) \subseteq DOMAIN h
      /\ \A i \in ToSet(row) : ~ChildIn(h, i)
  BY TilesFacts
<1>2. /\ g \in Seq(HeapWindow) /\ Len(g) = Len(h) + Width(row) /\ Width(row) \in Nat
      /\ \A i \in DOMAIN h \ ToSet(row) : g[i] = h[i]
      /\ \A i \in ToSet(row) :
           /\ MetricsAre(g[i], UnderIn(h)[i])
           /\ g[i].trace = IF h[i].sampleHead THEN UnderIn(h)[i] ELSE << >>
      /\ \A j \in 1 .. Width(row) : g[Len(h) + j] = Joined(h, row, j)
  BY BuiltHeap
<1>3. /\ Descending(g)
      /\ \A i \in DOMAIN h : UnderIn(g)[i] = UnderIn(h)[i] /\ SameTree(g[i], h[i])
      /\ \A j \in 1 .. Width(row) : UnderIn(g)[Len(h) + j] = JoinedUnder(h, row, j)
      /\ \A i \in DOMAIN h : ChildIn(g, i) <=> ChildIn(h, i) \/ i \in ToSet(row)
      /\ \A j \in 1 .. Width(row) : ~ChildIn(g, Len(h) + j)
  BY BuiltChildren
<1>4. DOMAIN g = 1 .. Len(h) + Width(row)
  BY <1>1, <1>2
<1>5. ASSUME NEW i \in DOMAIN h
      PROVE  /\ CoversFrom(UnderIn(g)[i], g[i].first, s) /\ Kept(g, i)
             /\ MetricsAre(g[i], UnderIn(g)[i])
  <2>1. CoversFrom(UnderIn(h)[i], h[i].first, s) /\ Kept(h, i) /\ MetricsAre(h[i], UnderIn(h)[i])
    BY DEF Heap
  <2>2. CoversFrom(UnderIn(g)[i], g[i].first, s)
    BY <1>3, <2>1 DEF SameTree
  <2>3. CASE i \in ToSet(row)
    <3>1. g[i].sampleHead = h[i].sampleHead
      BY <1>3 DEF SameTree
    <3>2. Kept(g, i)
      BY <1>2, <1>3, <2>3, <3>1 DEF Kept
    <3>3. MetricsAre(g[i], UnderIn(g)[i])
      BY <1>2, <1>3, <2>3
    <3> QED BY <2>2, <3>2, <3>3
  <2>4. CASE i \notin ToSet(row)
    <3>1. g[i] = h[i] /\ UnderIn(g)[i] = UnderIn(h)[i] /\ (ChildIn(g, i) <=> ChildIn(h, i))
      BY <1>2, <1>3, <2>4
    <3>2. Kept(g, i)
      BY <2>1, <3>1 DEF Kept
    <3>3. MetricsAre(g[i], UnderIn(g)[i])
      BY <2>1, <3>1
    <3> QED BY <2>2, <3>2, <3>3
  <2> QED BY <2>3, <2>4
<1>6. ASSUME NEW j \in 1 .. Width(row)
      PROVE  /\ CoversFrom(UnderIn(g)[Len(h) + j], g[Len(h) + j].first, s) /\ Kept(g, Len(h) + j)
             /\ MetricsAre(g[Len(h) + j], UnderIn(g)[Len(h) + j])
  <2> DEFINE v == Joined(h, row, j)
             i == Len(h) + j
  <2>1. v = Joined(h, row, j) /\ g[i] = v /\ UnderIn(g)[i] = JoinedUnder(h, row, j)
        /\ ~ChildIn(g, i)
    BY <1>2, <1>3
  <2> HIDE DEF v, i
  <2>2. /\ v.trace = JoinedUnder(h, row, j)
        /\ MetricsAre(v, JoinedUnder(h, row, j))
        /\ CoversFrom(JoinedUnder(h, row, j), v.first, s)
    BY <2>1, JoinedWindow
  <2>3. Kept(g, i)
    BY <2>1, <2>2 DEF Kept
  <2> QED BY <2>1, <2>2, <2>3 DEF i
<1>7. \A i \in DOMAIN g : i \in DOMAIN h \/ \E j \in 1 .. Width(row) : i = Len(h) + j
  <2> DEFINE n == Len(h)
             w == Width(row)
  <2>1. n \in Nat /\ w \in Nat /\ DOMAIN h = 1 .. n /\ DOMAIN g = 1 .. n + w
    BY <1>1, <1>2, <1>4
  <2> HIDE DEF n, w
  <2>2. ASSUME NEW i \in 1 .. n + w, i \notin 1 .. n PROVE \E j \in 1 .. w : i = n + j
    <3>1. i - n \in 1 .. w /\ i = n + (i - n)
      BY <2>1, <2>2
    <3> QED BY <3>1
  <2>3. \A i \in DOMAIN g : i \in DOMAIN h \/ \E j \in 1 .. w : i = n + j
    BY <2>1, <2>2
  <2> QED BY <2>3 DEF n, w
<1>8. Heap(g, s)
  <2>1. ASSUME NEW i \in DOMAIN g
        PROVE  /\ CoversFrom(UnderIn(g)[i], g[i].first, s) /\ Kept(g, i)
               /\ MetricsAre(g[i], UnderIn(g)[i])
    BY <1>5, <1>6, <1>7
  <2> QED BY <1>2, <1>3, <2>1 DEF Heap
<1>9. Extends(h, g, ToSet(row))
  <2>1. Len(h) <= Len(g)
    BY <1>1, <1>2
  <2> QED BY <1>2, <1>3, <2>1 DEF Extends
<1> QED BY <1>8, <1>9

LEMMA BuildRowTiles ==
  ASSUME NEW s \in Seq(Loads), NEW h, Heap(h, s), NEW row, NEW p, NEW q, Tiles(h, row, p, q),
         NEW g, g = BuildRow(h, row).heap, NEW new, new = BuildRow(h, row).row
  PROVE  /\ Tiles(g, new, p, q) /\ Len(new) = Width(row)
         /\ \A i \in ToSet(new) : i > Len(h)
<1>1. /\ h \in Seq(HeapWindow) /\ Len(h) \in Nat /\ DOMAIN h = 1 .. Len(h)
      /\ row \in Seq(DOMAIN h) /\ Len(row) \in Nat /\ DOMAIN row = 1 .. Len(row)
  BY TilesFacts
<1>2. /\ g \in Seq(HeapWindow) /\ Len(g) = Len(h) + Width(row) /\ Width(row) \in Nat
      /\ \A j \in 1 .. Width(row) : g[Len(h) + j] = Joined(h, row, j)
  BY BuiltHeap
<1>3. /\ \A i \in DOMAIN h : UnderIn(g)[i] = UnderIn(h)[i] /\ SameTree(g[i], h[i])
      /\ \A j \in 1 .. Width(row) : UnderIn(g)[Len(h) + j] = JoinedUnder(h, row, j)
      /\ \A j \in 1 .. Width(row) : ~ChildIn(g, Len(h) + j)
  BY BuiltChildren
<1> DEFINE n == Len(h)
           w == Width(row)
<1>4. row # << >> /\ w >= 1
  <2>1. row # << >>
    BY DEF Tiles
  <2> QED BY <1>1, <2>1, RowHalves
<1>5. new = [j \in 1 .. w |-> n + j]
  BY DEF BuildRow
<1>6. n \in Nat /\ w \in Nat /\ w >= 1 /\ DOMAIN g = 1 .. n + w
  BY <1>1, <1>2, <1>4
<1> HIDE DEF n, w
<1>7. /\ DOMAIN new = 1 .. w /\ Len(new) = w /\ new # << >>
      /\ \A j \in 1 .. w : new[j] = n + j
  <2>1. new \in Seq(Nat) /\ DOMAIN new = 1 .. w /\ \A j \in 1 .. w : new[j] = n + j
    BY <1>5, <1>6
  <2>2. Len(new) = w
    BY <1>6, <2>1
  <2>3. new # << >>
    BY <1>6, <2>2
  <2> QED BY <2>1, <2>2, <2>3
<1>8. new \in Seq(DOMAIN g)
  <2>1. \A j \in 1 .. w : n + j \in DOMAIN g
    BY <1>6
  <2> QED BY <1>5, <1>6, <2>1
<1>9. ASSUME NEW j \in 1 .. w
      PROVE  /\ ~ChildIn(g, new[j]) /\ g[new[j]].metrics = NoMetrics
             /\ g[new[j]].first = h[row[2 * j - 1]].first
             /\ EndAfter(g, new[j]) = IF j = w THEN q ELSE h[row[2 * j + 1]].first
  <2> DEFINE v == Joined(h, row, j)
             i == n + j
  <2>1. v = Joined(h, row, j) /\ g[i] = v /\ UnderIn(g)[i] = JoinedUnder(h, row, j)
        /\ ~ChildIn(g, i)
    BY <1>2, <1>3 DEF n, w
  <2>2. new[j] = i
    BY <1>7
  <2> HIDE DEF v, i
  <2>3. /\ v.first = h[row[2 * j - 1]].first /\ v.metrics = NoMetrics
        /\ v.first + Len(JoinedUnder(h, row, j)) = IF j = w THEN q ELSE h[row[2 * j + 1]].first
    BY <2>1, JoinedWindow DEF w
  <2> QED BY <2>1, <2>2, <2>3 DEF EndAfter
<1>10. g[new[1]].first = p
  <2>1. g[new[1]].first = h[row[2 * 1 - 1]].first
    BY <1>6, <1>9
  <2>2. h[row[1]].first = p
    BY DEF Tiles
  <2> QED BY <2>1, <2>2
<1>11. ASSUME NEW j \in 1 .. w
       PROVE  EndAfter(g, new[j]) = IF j = Len(new) THEN q ELSE g[new[j + 1]].first
  <2>1. CASE j = w
    BY <1>7, <1>9, <2>1
  <2>2. CASE j # w
    <3>1. j + 1 \in 1 .. w /\ 2 * (j + 1) - 1 = 2 * j + 1
      BY <1>6, <2>2
    <3>2. g[new[j + 1]].first = h[row[2 * (j + 1) - 1]].first
      BY <1>9, <3>1
    <3> QED BY <1>7, <1>9, <2>2, <3>1, <3>2
  <2> QED BY <2>1, <2>2
<1>12. \A i, j \in 1 .. w : new[i] = new[j] => i = j
  BY <1>6, <1>7
<1>13. \A i \in ToSet(new) : i > Len(h)
  <2>1. ToSet(new) = {new[j] : j \in 1 .. w}
    BY <1>7 DEF ToSet
  <2>2. \A j \in 1 .. w : n + j > n
    BY <1>6
  <2> QED BY <1>7, <2>1, <2>2 DEF n
<1>14. Tiles(g, new, p, q)
  <2>1. \A j \in 1 .. w : ~ChildIn(g, new[j]) /\ g[new[j]].metrics = NoMetrics
    BY <1>9
  <2>2. \A j \in 1 .. w :
          EndAfter(g, new[j]) = IF j = Len(new) THEN q ELSE g[new[j + 1]].first
    BY <1>11
  <2>3. DOMAIN new = 1 .. w /\ new # << >>
    BY <1>7
  <2> QED BY ONLY <1>8, <1>10, <1>12, <2>1, <2>2, <2>3 DEF Tiles
<1> QED BY <1>7, <1>13, <1>14 DEF w

-----------------------------------------------------------------------------
(* All calls of buildTree on a row.                                        *)

LEMMA ExtendsOn ==
  ASSUME NEW h, NEW g, NEW f, NEW R, NEW Q,
         Len(h) \in Nat, Len(g) \in Nat, Len(f) \in Nat,
         DOMAIN h = 1 .. Len(h), DOMAIN g = 1 .. Len(g),
         Extends(h, g, R), Extends(g, f, Q), Q \cap DOMAIN h \subseteq R
  PROVE  Extends(h, f, R)
<1>1. \A i \in DOMAIN h : i \in DOMAIN g
  BY DEF Extends
<1>2. ASSUME NEW i \in DOMAIN h
      PROVE  SameTree(f[i], h[i]) /\ UnderIn(f)[i] = UnderIn(h)[i]
  BY <1>1 DEF Extends, SameTree
<1>3. ASSUME NEW i \in DOMAIN h \ R
      PROVE  f[i] = h[i] /\ (ChildIn(f, i) => ChildIn(h, i))
  BY <1>1 DEF Extends
<1>4. Len(h) <= Len(f)
  BY DEF Extends
<1> QED BY <1>2, <1>3, <1>4 DEF Extends

\* Call n, given the calls before it.
CallFrom(c, h, row, n) ==
  IF n = 0 THEN [heap |-> h, row |-> row]
  ELSE IF Len(c[n - 1].row) <= 1 THEN c[n - 1]
  ELSE BuildRow(c[n - 1].heap, c[n - 1].row)

IsCalls(c, h, row) ==
  c = [n \in 0 .. Len(row) |->
         IF n = 0 THEN [heap |-> h, row |-> row]
         ELSE IF Len(c[n - 1].row) <= 1 THEN c[n - 1]
         ELSE BuildRow(c[n - 1].heap, c[n - 1].row)]

CallsOf(h, row) == CHOOSE c : IsCalls(c, h, row)

LEMMA TreeIsChoice ==
  ASSUME NEW h, NEW row
  PROVE  BuildTree(h, row) = [heap |-> CallsOf(h, row)[Len(row)].heap,
                              root |-> CallsOf(h, row)[Len(row)].row[1]]
BY DEF BuildTree, CallsOf, IsCalls

LEMMA CallsEquations ==
  ASSUME NEW h, NEW row, Len(row) \in Nat
  PROVE  \A n \in 0 .. Len(row) : CallsOf(h, row)[n] = CallFrom(CallsOf(h, row), h, row, n)
<1> DEFINE Holds(c, m) == \A n \in 0 .. m : c[n] = CallFrom(c, h, row, n)
           P == {m \in Nat : \E c : Holds(c, m)}
<1>1. 0 \in P
  <2> DEFINE c == [n \in {0} |-> [heap |-> h, row |-> row]]
  <2>1. Holds(c, 0)
    BY DEF CallFrom
  <2> QED BY <2>1
<1>2. ASSUME NEW m \in Nat, m \in P PROVE m + 1 \in P
  <2>1. PICK c : Holds(c, m)
    BY <1>2
  <2> DEFINE d == [n \in 0 .. m + 1 |-> IF n = m + 1 THEN CallFrom(c, h, row, m + 1) ELSE c[n]]
  <2>2. /\ \A n \in 0 .. m : d[n] = c[n]
        /\ d[m + 1] = CallFrom(c, h, row, m + 1)
    OBVIOUS
  <2> HIDE DEF d
  <2>3. ASSUME NEW n \in 0 .. m + 1 PROVE CallFrom(d, h, row, n) = CallFrom(c, h, row, n)
    <3>1. n = 0 \/ d[n - 1] = c[n - 1]
      BY <2>2
    <3> QED BY <3>1 DEF CallFrom
  <2>4. ASSUME NEW n \in 0 .. m + 1 PROVE d[n] = CallFrom(d, h, row, n)
    <3>1. CASE n = m + 1
      BY <2>2, <2>3, <3>1
    <3>2. CASE n # m + 1
      <4>1. n \in 0 .. m
        BY <3>2
      <4>2. d[n] = c[n] /\ c[n] = CallFrom(c, h, row, n)
        BY <2>1, <2>2, <4>1
      <4> QED BY <2>3, <4>2
    <3> QED BY <3>1, <3>2
  <2>5. Holds(d, m + 1)
    BY <2>4
  <2> HIDE DEF Holds
  <2> QED BY <2>5
<1>3. Len(row) \in P
  <2> HIDE DEF P
  <2> QED BY <1>1, <1>2, NatSetInduction
<1>4. PICK c : Holds(c, Len(row))
  BY <1>3
<1> DEFINE d == [n \in 0 .. Len(row) |-> c[n]]
<1>5. \A n \in 0 .. Len(row) : d[n] = c[n]
  OBVIOUS
<1>6. d = [n \in 0 .. Len(row) |-> d[n]]
  OBVIOUS
<1> HIDE DEF d
<1>7. ASSUME NEW n \in 0 .. Len(row) PROVE d[n] = CallFrom(d, h, row, n)
  <2>1. n = 0 \/ d[n - 1] = c[n - 1]
    BY <1>5
  <2>2. CallFrom(d, h, row, n) = CallFrom(c, h, row, n)
    BY <2>1 DEF CallFrom
  <2> QED BY <1>4, <1>5, <2>2
<1>8. IsCalls(d, h, row)
  BY <1>6, <1>7 DEF IsCalls, CallFrom
<1>9. IsCalls(CallsOf(h, row), h, row)
  BY <1>8 DEF CallsOf
<1> DEFINE e == CallsOf(h, row)
<1> HIDE DEF e
<1>10. IsCalls(e, h, row)
  BY <1>9 DEF e
<1>11. \A n \in 0 .. Len(row) : e[n] = CallFrom(e, h, row, n)
  BY <1>10 DEF IsCalls, CallFrom
<1> QED BY <1>11 DEF e

\* What is true of the heap and the row after n calls.
AfterCalls(x, n, h, row, p, q, s) ==
  /\ Heap(x.heap, s) /\ Tiles(x.heap, x.row, p, q)
  /\ Extends(h, x.heap, ToSet(row))
  /\ \A i \in ToSet(x.row) : i \in ToSet(row) \/ i > Len(h)
  /\ Len(x.row) = 1 \/ Len(x.row) + n <= Len(row)

LEMMA OneCall ==
  ASSUME NEW s \in Seq(Loads), NEW h, Heap(h, s), NEW row, NEW p, NEW q, Tiles(h, row, p, q),
         NEW n \in Nat, NEW x, AfterCalls(x, n, h, row, p, q, s),
         NEW y, y = IF Len(x.row) <= 1 THEN x ELSE BuildRow(x.heap, x.row)
  PROVE  AfterCalls(y, n + 1, h, row, p, q, s)
<1> DEFINE a == x.heap
           r == x.row
<1>1. Heap(a, s) /\ Tiles(a, r, p, q) /\ Extends(h, a, ToSet(row))
  BY DEF AfterCalls
<1>2. /\ Len(a) \in Nat /\ DOMAIN a = 1 .. Len(a) /\ r \in Seq(DOMAIN a) /\ Len(r) \in Nat
      /\ r # << >>
  <2> HIDE DEF a, r
  <2>1. r # << >>
    BY <1>1 DEF Tiles
  <2> QED BY <1>1, <2>1, TilesFacts
<1>3. Len(h) \in Nat /\ DOMAIN h = 1 .. Len(h)
  BY TilesFacts
<1>4. Len(row) \in Nat
  BY TilesFacts
<1>5. CASE Len(r) <= 1
  <2>1. y = x
    BY <1>5
  <2>2. Len(r) = 1
    <3>1. Len(r) # 0 /\ Len(r) \in Nat
      BY <1>2
    <3> DEFINE k == Len(r)
    <3>2. k \in Nat /\ k # 0 /\ k <= 1
      BY <1>5, <3>1
    <3> HIDE DEF k
    <3>3. k = 1
      BY <3>2
    <3> QED BY <3>3 DEF k
  <2> QED BY <2>1, <2>2 DEF AfterCalls
<1>6. CASE ~(Len(r) <= 1)
  <2> DEFINE g == BuildRow(a, r).heap
             new == BuildRow(a, r).row
  <2>1. y = BuildRow(a, r)
    BY <1>6
  <2>2. y.heap = g /\ y.row = new
    BY <2>1
  <2>3. Heap(g, s) /\ Extends(a, g, ToSet(r))
    <3> HIDE DEF a, r
    <3> QED BY <1>1, BuildRowHeap
  <2>4. /\ Tiles(g, new, p, q) /\ Len(new) = Width(r)
        /\ \A i \in ToSet(new) : i > Len(a)
    <3> HIDE DEF a, r
    <3> QED BY <1>1, BuildRowTiles
  <2>5. Width(r) \in Nat /\ Width(r) < Len(r)
    <3> HIDE DEF a, r
    <3> QED BY <1>2, <1>6, RowHalves
  <2> HIDE DEF g, new
  <2>6. Len(g) \in Nat /\ ToSet(new) \subseteq DOMAIN g /\ DOMAIN g = 1 .. Len(g)
    BY <2>3, <2>4, TilesFacts
  <2>7. \A i \in ToSet(r) : i \in ToSet(row) \/ i > Len(h)
    BY DEF AfterCalls
  <2>8. ToSet(r) \cap DOMAIN h \subseteq ToSet(row)
    BY <1>3, <2>7
  <2>9. Extends(h, g, ToSet(row))
    <3> HIDE DEF a, r
    <3> QED BY <1>1, <1>2, <1>3, <2>3, <2>6, <2>8, ExtendsOn
  <2>10. Len(h) <= Len(a)
    BY <1>1 DEF Extends
  <2>11. \A i \in ToSet(new) : i > Len(h)
    BY <1>2, <1>3, <2>4, <2>6, <2>10
  <2>12. Len(new) + (n + 1) <= Len(row)
    <3>1. Len(r) = 1 \/ Len(r) + n <= Len(row)
      BY DEF AfterCalls
    <3> DEFINE k == Len(r)
               m == Len(row)
               l == Len(new)
    <3>2. k \in Nat /\ ~(k <= 1) /\ m \in Nat /\ l \in Nat /\ l < k /\ (k = 1 \/ k + n <= m)
      BY <1>2, <1>4, <1>6, <2>4, <2>5, <3>1
    <3> HIDE DEF k, m, l
    <3>3. l + (n + 1) <= m
      BY <3>2
    <3> QED BY <3>3 DEF l, m
  <2> QED BY <2>2, <2>3, <2>4, <2>9, <2>11, <2>12 DEF AfterCalls
<1> QED BY <1>5, <1>6

\* The tree over a row has all its accesses under one window, and keeps the
\* windows what they are.
LEMMA BuiltTree ==
  ASSUME NEW s \in Seq(Loads), NEW h, Heap(h, s), NEW row, NEW p, NEW q, Tiles(h, row, p, q),
         NEW t, t = BuildTree(h, row)
  PROVE  /\ Heap(t.heap, s) /\ Tiles(t.heap, <<t.root>>, p, q)
         /\ Extends(h, t.heap, ToSet(row))
         /\ t.root \in ToSet(row) \/ t.root > Len(h)
<1> DEFINE c == CallsOf(h, row)
           m == Len(row)
           P == {n \in Nat : n <= m => AfterCalls(c[n], n, h, row, p, q, s)}
<1>1. m \in Nat /\ Len(h) \in Nat /\ DOMAIN h = 1 .. Len(h) /\ ToSet(row) = {row[k] : k \in DOMAIN row}
  BY TilesFacts
<1>2. \A n \in 0 .. m : c[n] = CallFrom(c, h, row, n)
  BY <1>1, CallsEquations
<1> HIDE DEF c, m
<1>3. 0 \in P
  <2>1. c[0] = [heap |-> h, row |-> row]
    BY <1>1, <1>2 DEF CallFrom
  <2>2. Extends(h, h, ToSet(row))
    BY <1>1 DEF Extends, SameTree
  <2>3. AfterCalls(c[0], 0, h, row, p, q, s)
    BY <1>1, <2>1, <2>2 DEF AfterCalls, m
  <2> QED BY <2>3
<1>4. ASSUME NEW n \in Nat, n \in P PROVE n + 1 \in P
  <2> SUFFICES ASSUME n + 1 <= m PROVE AfterCalls(c[n + 1], n + 1, h, row, p, q, s)
    OBVIOUS
  <2>1. AfterCalls(c[n], n, h, row, p, q, s)
    BY <1>1, <1>4
  <2> DEFINE x == c[n]
             y == c[n + 1]
  <2>2. y = IF Len(x.row) <= 1 THEN x ELSE BuildRow(x.heap, x.row)
    <3>1. n + 1 \in 0 .. m /\ (n + 1) - 1 = n /\ n + 1 # 0
      BY <1>1
    <3> QED BY <1>2, <3>1 DEF CallFrom
  <2> HIDE DEF x, y
  <2>3. AfterCalls(y, n + 1, h, row, p, q, s)
    BY <2>1, <2>2, OneCall DEF x
  <2> QED BY <2>3 DEF y
<1>5. m \in P
  <2> HIDE DEF P
  <2> QED BY <1>1, <1>3, <1>4, NatSetInduction
<1> DEFINE x == c[m]
<1>6. AfterCalls(x, m, h, row, p, q, s)
  BY <1>1, <1>5
<1>7. t = [heap |-> x.heap, root |-> x.row[1]]
  BY TreeIsChoice DEF c, m
<1> HIDE DEF x
<1>8. Heap(x.heap, s) /\ Tiles(x.heap, x.row, p, q)
  BY <1>6 DEF AfterCalls
<1>9. /\ x.row \in Seq(DOMAIN x.heap) /\ x.row # << >> /\ Len(x.row) \in Nat
      /\ DOMAIN x.row = 1 .. Len(x.row)
  <2>1. x.row # << >>
    BY <1>8 DEF Tiles
  <2> QED BY <1>8, <2>1, TilesFacts
<1>10. Len(x.row) = 1
  <2>1. Len(x.row) # 0
    BY <1>9
  <2>2. Len(x.row) = 1 \/ Len(x.row) + m <= m
    BY <1>6 DEF AfterCalls, m
  <2> QED BY <1>1, <1>9, <2>1, <2>2
<1>11. x.row = <<t.root>>
  BY <1>7, <1>9, <1>10
<1>12. t.root \in ToSet(x.row)
  BY <1>11 DEF ToSet
<1>13. t.heap = x.heap
  BY <1>7
<1> QED BY <1>6, <1>11, <1>12, <1>13 DEF AfterCalls

-----------------------------------------------------------------------------
(* Changes of one window.                                                  *)

LEMMA CoversMore ==
  ASSUME NEW s \in Seq(Loads), NEW e \in Loads, NEW u, NEW f, CoversFrom(u, f, s)
  PROVE  CoversFrom(u, f, Append(s, e))
<1>1. \A k \in DOMAIN s : k \in DOMAIN Append(s, e) /\ Append(s, e)[k] = s[k]
  OBVIOUS
<1> QED BY <1>1 DEF CoversFrom

LEMMA HeapMore ==
  ASSUME NEW s \in Seq(Loads), NEW e \in Loads, NEW h, Heap(h, s)
  PROVE  Heap(h, Append(s, e))
<1>1. \A i \in DOMAIN h : CoversFrom(UnderIn(h)[i], h[i].first, Append(s, e))
  BY CoversMore DEF Heap
<1> QED BY <1>1 DEF Heap

LEMMA HeapSize ==
  ASSUME NEW s \in Seq(Loads), NEW h, Heap(h, s)
  PROVE  /\ h \in Seq(HeapWindow) /\ Len(h) \in Nat /\ DOMAIN h = 1 .. Len(h)
         /\ \A i \in DOMAIN h : UnderIn(h)[i] \in Seq(Loads)
<1>1. h \in Seq(HeapWindow) /\ Descending(h)
  BY DEF Heap
<1>2. Len(h) \in Nat /\ DOMAIN h = 1 .. Len(h)
  BY <1>1
<1> QED BY <1>1, <1>2, UnderEquations

\* Window v can take the place of window w of the heap.
Fits(v, h, w) ==
  /\ v \in HeapWindow
  /\ v.left = h[w].left /\ v.right = h[w].right
  /\ v.leaf = h[w].leaf /\ v.first = h[w].first
  /\ MetricsAre(v, UnderIn(h)[w])
  /\ v.trace = IF v.sampleHead \/ ~ChildIn(h, w) THEN UnderIn(h)[w] ELSE << >>

PutIn(h, w, v) == [h EXCEPT ![w] = v]

\* A window that takes the place of another one in the tree.
LEMMA WindowReplaced ==
  ASSUME NEW s \in Seq(Loads), NEW h, Heap(h, s), NEW w \in DOMAIN h,
         NEW v, Fits(v, h, w), NEW g, g = PutIn(h, w, v)
  PROVE  /\ Heap(g, s) /\ Len(g) = Len(h) /\ DOMAIN g = DOMAIN h
         /\ g[w] = v /\ \A i \in DOMAIN h : i # w => g[i] = h[i]
         /\ \A i \in DOMAIN h : /\ UnderIn(g)[i] = UnderIn(h)[i]
                                /\ g[i].first = h[i].first
                                /\ ChildIn(g, i) <=> ChildIn(h, i)
<1>1. h \in Seq(HeapWindow) /\ Len(h) \in Nat /\ DOMAIN h = 1 .. Len(h)
  BY HeapSize
<1>0. g = [h EXCEPT ![w] = v]
  BY DEF PutIn
<1>f. /\ v \in HeapWindow
      /\ v.left = h[w].left /\ v.right = h[w].right
      /\ v.leaf = h[w].leaf /\ v.first = h[w].first
      /\ MetricsAre(v, UnderIn(h)[w])
      /\ v.trace = IF v.sampleHead \/ ~ChildIn(h, w) THEN UnderIn(h)[w] ELSE << >>
  BY DEF Fits
<1>2. /\ DOMAIN g = DOMAIN h /\ g[w] = v /\ \A i \in DOMAIN h : i # w => g[i] = h[i]
  BY <1>0
<1>3. g \in Seq(HeapWindow) /\ Len(g) = Len(h)
  BY <1>0, <1>1, <1>f
<1>4. \A i \in DOMAIN h : /\ g[i].left = h[i].left /\ g[i].right = h[i].right
                          /\ g[i].leaf = h[i].leaf /\ g[i].first = h[i].first
  BY <1>2, <1>f
<1>5. Descending(h) /\ Descending(g)
  BY <1>2, <1>4 DEF Heap, Descending
<1>6. \A i \in DOMAIN h : UnderIn(g)[i] = UnderIn(h)[i]
  <2> DEFINE n == Len(h)
  <2>1. n \in Nat /\ n <= Len(h) /\ n <= Len(g) /\ DOMAIN h = 1 .. n
    BY <1>1, <1>3
  <2>2. \A i \in 1 .. n : /\ g[i].left = h[i].left /\ g[i].right = h[i].right
                          /\ g[i].leaf = h[i].leaf
    BY <1>4, <2>1
  <2> HIDE DEF n
  <2>3. \A i \in 1 .. n : UnderIn(g)[i] = UnderIn(h)[i]
    BY <1>1, <1>3, <1>5, <2>1, <2>2, UnderSame
  <2> QED BY <2>1, <2>3
<1>7. \A i \in DOMAIN h : ChildIn(g, i) <=> ChildIn(h, i)
  BY <1>2, <1>4 DEF ChildIn
<1>8. ASSUME NEW i \in DOMAIN g
      PROVE  /\ CoversFrom(UnderIn(g)[i], g[i].first, s) /\ Kept(g, i)
             /\ MetricsAre(g[i], UnderIn(g)[i])
  <2>1. CoversFrom(UnderIn(h)[i], h[i].first, s) /\ Kept(h, i) /\ MetricsAre(h[i], UnderIn(h)[i])
    BY <1>2 DEF Heap
  <2>2. CoversFrom(UnderIn(g)[i], g[i].first, s)
    BY <1>2, <1>4, <1>6, <2>1
  <2>3. CASE i = w
    <3>1. g[i] = v /\ UnderIn(g)[i] = UnderIn(h)[w] /\ (ChildIn(g, i) <=> ChildIn(h, w))
      BY <1>2, <1>6, <1>7, <2>3
    <3> QED BY <1>f, <2>2, <3>1 DEF Kept
  <2>4. CASE i # w
    <3>1. g[i] = h[i] /\ UnderIn(g)[i] = UnderIn(h)[i] /\ (ChildIn(g, i) <=> ChildIn(h, i))
      BY <1>2, <1>6, <1>7, <2>4
    <3> QED BY <2>1, <2>2, <3>1 DEF Kept
  <2> QED BY <2>3, <2>4
<1>9. Heap(g, s)
  BY <1>3, <1>5, <1>8 DEF Heap
<1> QED BY <1>2, <1>3, <1>4, <1>6, <1>7, <1>9

Marked(x) == [x EXCEPT !.sampleHead = TRUE]

\* setSampleHead on a window without a parent.
LEMMA WindowMarked ==
  ASSUME NEW s \in Seq(Loads), NEW h, Heap(h, s), NEW w \in DOMAIN h, ~ChildIn(h, w),
         NEW g, g = PutIn(h, w, Marked(h[w]))
  PROVE  /\ Heap(g, s) /\ Len(g) = Len(h) /\ DOMAIN g = DOMAIN h
         /\ g[w].metrics = h[w].metrics /\ \A i \in DOMAIN h : i # w => g[i] = h[i]
         /\ \A i \in DOMAIN h : /\ UnderIn(g)[i] = UnderIn(h)[i]
                                /\ g[i].first = h[i].first
                                /\ ChildIn(g, i) <=> ChildIn(h, i)
<1> DEFINE v == Marked(h[w])
           x == h[w]
<1>1. x \in HeapWindow /\ MetricsAre(x, UnderIn(h)[w])
  BY HeapSize, HeapFacts DEF Heap
<1>2. g = PutIn(h, w, v) /\ v = [x EXCEPT !.sampleHead = TRUE]
  BY DEF Marked
<1> HIDE DEF v, x
<1>3. /\ v \in HeapWindow /\ v.left = x.left /\ v.right = x.right
      /\ v.leaf = x.leaf /\ v.first = x.first /\ v.metrics = x.metrics
      /\ v.trace = x.trace /\ v.sampleHead
      /\ v.constantLds = x.constantLds /\ v.fpMap = x.fpMap
  BY <1>1, <1>2 DEF HeapWindow
<1>4. MetricsAre(v, UnderIn(h)[w])
  BY <1>1, <1>3 DEF MetricsAre
<1>5. v.trace = IF v.sampleHead \/ ~ChildIn(h, w) THEN UnderIn(h)[w] ELSE << >>
  <2>1. Kept(h, w)
    BY DEF Heap
  <2> QED BY <1>3, <2>1 DEF Kept, x
<1>6. /\ v.left = h[w].left /\ v.right = h[w].right
      /\ v.leaf = h[w].leaf /\ v.first = h[w].first /\ v.metrics = h[w].metrics
  BY <1>3 DEF x
<1> HIDE DEF x
<1>7. /\ Heap(g, s) /\ Len(g) = Len(h) /\ DOMAIN g = DOMAIN h
      /\ g[w] = v /\ \A i \in DOMAIN h : i # w => g[i] = h[i]
      /\ \A i \in DOMAIN h : /\ UnderIn(g)[i] = UnderIn(h)[i]
                             /\ g[i].first = h[i].first
                             /\ ChildIn(g, i) <=> ChildIn(h, i)
  <2>1. g = PutIn(h, w, v)
    BY <1>2
  <2>2. Fits(v, h, w)
    BY <1>3, <1>4, <1>5, <1>6 DEF Fits
  <2> QED BY <2>1, <2>2, WindowReplaced
<1> QED BY <1>6, <1>7

Added(h, e) == Append(h, NewWindow(e))

\* setID and addAccess: a new window.
LEMMA WindowAdded ==
  ASSUME NEW s \in Seq(Loads), NEW h, Heap(h, s), NEW e \in Loads,
         e.at \in DOMAIN s, s[e.at] = e, NEW g, g = Added(h, e)
  PROVE  /\ Heap(g, s) /\ Len(g) = Len(h) + 1
         /\ \A i \in DOMAIN h : /\ g[i] = h[i] /\ UnderIn(g)[i] = UnderIn(h)[i]
                                /\ ChildIn(g, i) <=> ChildIn(h, i)
         /\ ~ChildIn(g, Len(g)) /\ UnderIn(g)[Len(g)] = <<e>>
         /\ g[Len(g)].left = NULL /\ g[Len(g)].metrics = NoMetrics
         /\ g[Len(g)].first = e.at
<1> DEFINE v == NewWindow(e)
<1>1. h \in Seq(HeapWindow) /\ Len(h) \in Nat /\ DOMAIN h = 1 .. Len(h)
  BY HeapSize
<1>2. v = NewWindow(e) /\ g = Append(h, v)
  BY DEF Added
<1> HIDE DEF v
<1>3. /\ v \in HeapWindow /\ v.first = e.at /\ v.leaf = <<e>> /\ v.trace = <<e>>
      /\ v.left = NULL /\ v.right = NULL
      /\ v.metrics = NoMetrics /\ MetricsAre(v, <<e>>)
  BY <1>2, FirstOfWindow
<1> DEFINE n == Len(h)
<1>4. /\ g \in Seq(HeapWindow) /\ Len(g) = n + 1 /\ DOMAIN g = 1 .. n + 1 /\ n \in Nat
      /\ g[n + 1] = v /\ \A i \in DOMAIN h : g[i] = h[i] /\ i \in DOMAIN g
      /\ DOMAIN h = 1 .. n
  BY <1>1, <1>2, <1>3
<1> HIDE DEF n
<1>5. Descending(h) /\ Descending(g)
  <2>1. Descending(h)
    BY DEF Heap
  <2>2. ASSUME NEW i \in DOMAIN g PROVE g[i].left < i /\ g[i].right < i
    <3>1. CASE i \in DOMAIN h
      BY <1>4, <2>1, <3>1 DEF Descending
    <3>2. CASE i = n + 1
      BY <1>3, <1>4, <3>2 DEF NULL
    <3> QED BY <1>4, <3>1, <3>2
  <2> QED BY <2>1, <2>2 DEF Descending
<1>6. \A i \in DOMAIN h : UnderIn(g)[i] = UnderIn(h)[i]
  <2>1. n <= Len(h) /\ n <= Len(g)
    BY <1>1, <1>4 DEF n
  <2>2. \A i \in 1 .. n : /\ g[i].left = h[i].left /\ g[i].right = h[i].right
                          /\ g[i].leaf = h[i].leaf
    BY <1>4
  <2>3. h \in Seq(HeapWindow) /\ g \in Seq(HeapWindow) /\ n \in Nat
    BY <1>1, <1>4
  <2>4. \A i \in 1 .. n : UnderIn(g)[i] = UnderIn(h)[i]
    BY <1>5, <2>1, <2>2, <2>3, UnderSame
  <2> QED BY <1>4, <2>4
<1>7. UnderIn(g)[n + 1] = <<e>>
  <2>1. g \in Seq(HeapWindow) /\ n + 1 \in DOMAIN g
    BY <1>4
  <2>2. UnderIn(g)[n + 1] = UnderFrom(UnderIn(g), g, n + 1)
    BY <1>5, <2>1, UnderEquations
  <2> QED BY <1>3, <1>4, <2>2 DEF UnderFrom
<1>8. \A i \in DOMAIN h : ChildIn(g, i) <=> ChildIn(h, i)
  <2>1. \A i \in DOMAIN h : i # NULL
    BY <1>4 DEF NULL
  <2>2. \A j \in DOMAIN g : j \in DOMAIN h \/ j = n + 1
    BY <1>4
  <2> QED BY <1>3, <1>4, <2>1, <2>2 DEF ChildIn
<1>9. ~ChildIn(g, n + 1)
  <2> SUFFICES ASSUME NEW j \in DOMAIN g, n + 1 \in {g[j].left, g[j].right} PROVE FALSE
    BY DEF ChildIn
  <2>1. g[j].left \in Nat /\ g[j].right \in Nat /\ j \in Nat /\ j <= n + 1
    BY <1>4, HeapFacts
  <2>2. g[j].left < j /\ g[j].right < j
    BY <1>5 DEF Descending
  <2> QED BY <1>4, <2>1, <2>2
<1>10. CoversFrom(<<e>>, e.at, s)
  <2>1. e.at \in Nat
    BY DEF Loads
  <2>2. <<e>> # << >> /\ DOMAIN <<e>> = {1} /\ <<e>>[1] = e /\ e.at + 1 - 1 = e.at
    BY <2>1
  <2> QED BY <2>2 DEF CoversFrom
<1>11. ASSUME NEW i \in DOMAIN g
       PROVE  /\ CoversFrom(UnderIn(g)[i], g[i].first, s) /\ Kept(g, i)
              /\ MetricsAre(g[i], UnderIn(g)[i])
  <2>1. CASE i \in DOMAIN h
    <3>1. CoversFrom(UnderIn(h)[i], h[i].first, s) /\ Kept(h, i) /\ MetricsAre(h[i], UnderIn(h)[i])
      BY <2>1 DEF Heap
    <3>2. g[i] = h[i] /\ UnderIn(g)[i] = UnderIn(h)[i] /\ (ChildIn(g, i) <=> ChildIn(h, i))
      BY <1>4, <1>6, <1>8, <2>1
    <3> QED BY <3>1, <3>2 DEF Kept
  <2>2. CASE i = n + 1
    BY <1>3, <1>4, <1>7, <1>9, <1>10, <2>2 DEF Kept
  <2> QED BY <1>4, <2>1, <2>2
<1>12. Heap(g, s)
  BY <1>4, <1>5, <1>11 DEF Heap
<1> QED BY <1>3, <1>4, <1>6, <1>7, <1>8, <1>9, <1>12 DEF n

\* addAccess on the last window of the heap, with the next access of the trace.
LEMMA WindowExtended ==
  ASSUME NEW s \in Seq(Loads), NEW h, Heap(h, s), NEW e \in Loads, NEW w \in DOMAIN h,
         w = Len(h), ~ChildIn(h, w), h[w].left = NULL, h[w].metrics = NoMetrics,
         EndAfter(h, w) = Len(s) + 1,
         NEW g, g = PutIn(h, w, AddAccess(h[w], e))
  PROVE  /\ Heap(g, Append(s, e)) /\ Len(g) = Len(h)
         /\ \A i \in DOMAIN h : /\ i # w => g[i] = h[i] /\ UnderIn(g)[i] = UnderIn(h)[i]
                                /\ ChildIn(g, i) <=> ChildIn(h, i)
         /\ g[w].left = NULL /\ g[w].metrics = NoMetrics /\ g[w].first = h[w].first
         /\ UnderIn(g)[w] = Append(UnderIn(h)[w], e)
         /\ EndAfter(g, w) = Len(s) + 2
<1> DEFINE v == AddAccess(h[w], e)
           u == UnderIn(h)[w]
           t == Append(s, e)
<1>1. h \in Seq(HeapWindow) /\ Len(h) \in Nat /\ DOMAIN h = 1 .. Len(h) /\ u \in Seq(Loads)
  BY HeapSize
<1>2. v = AddAccess(h[w], e) /\ g = [h EXCEPT ![w] = v]
  BY DEF PutIn
<1>3. /\ h[w] \in HeapWindow /\ h[w].first \in Nat /\ MetricsAre(h[w], u)
      /\ CoversFrom(u, h[w].first, s)
  BY <1>1, HeapFacts DEF Heap
<1> HIDE DEF v, u
<1>4. /\ v \in HeapWindow /\ v.first = h[w].first /\ v.leaf = Append(h[w].leaf, e)
      /\ v.trace = Append(u, e) /\ v.sampleHead = h[w].sampleHead
      /\ v.left = h[w].left /\ v.right = h[w].right
      /\ v.metrics = NoMetrics /\ MetricsAre(v, Append(u, e))
  BY SMTT(30), <1>1, <1>2, <1>3, AddedAccess
<1>5. /\ DOMAIN g = DOMAIN h /\ g[w] = v /\ \A i \in DOMAIN h : i # w => g[i] = h[i]
      /\ g \in Seq(HeapWindow) /\ Len(g) = Len(h)
  BY <1>1, <1>2, <1>4
<1>6. \A i \in DOMAIN h : g[i].left = h[i].left /\ g[i].right = h[i].right /\ g[i].first = h[i].first
  BY <1>4, <1>5
<1>7. Descending(h) /\ Descending(g)
  BY <1>5, <1>6 DEF Heap, Descending
<1>8. \A i \in DOMAIN h : ChildIn(g, i) <=> ChildIn(h, i)
  BY <1>5, <1>6 DEF ChildIn
<1>9. \A i \in DOMAIN h : i # w => UnderIn(g)[i] = UnderIn(h)[i]
  <2> DEFINE n == Len(h) - 1
  <2>1. n \in Nat /\ n <= Len(h) /\ n <= Len(g) /\ \A i \in DOMAIN h : i # w => i \in 1 .. n
    BY <1>1, <1>5
  <2>2. \A i \in 1 .. n : i \in DOMAIN h /\ i # w
    BY <1>1
  <2> HIDE DEF n
  <2>3. \A i \in 1 .. n : /\ g[i].left = h[i].left /\ g[i].right = h[i].right
                          /\ g[i].leaf = h[i].leaf
    BY <1>5, <2>2
  <2>4. h \in Seq(HeapWindow) /\ g \in Seq(HeapWindow)
    BY <1>1, <1>5
  <2>5. \A i \in 1 .. n : UnderIn(g)[i] = UnderIn(h)[i]
    BY <1>7, <2>1, <2>3, <2>4, UnderSame
  <2> QED BY <2>1, <2>5
<1>10. UnderIn(g)[w] = Append(u, e)
  <2>1. UnderIn(g)[w] = g[w].leaf /\ u = h[w].leaf
    <3>1. /\ UnderIn(g)[w] = UnderFrom(UnderIn(g), g, w)
          /\ u = UnderFrom(UnderIn(h), h, w)
      BY <1>1, <1>5, <1>7, UnderEquations DEF u
    <3> QED BY <1>6, <3>1 DEF UnderFrom
  <2> QED BY <1>4, <1>5, <2>1
<1>11. CoversFrom(Append(u, e), v.first, t)
  <2> DEFINE f == h[w].first
             m == Len(u)
             a == Append(u, e)
  <2>1. f \in Nat /\ m \in Nat /\ f + m = Len(s) + 1 /\ Len(s) \in Nat
    BY <1>1, <1>3 DEF EndAfter, u
  <2>2. /\ DOMAIN a = 1 .. m + 1 /\ a[m + 1] = e /\ a # << >>
        /\ \A k \in 1 .. m : a[k] = u[k] /\ k \in DOMAIN u
    <3> HIDE DEF t
    <3>1. /\ DOMAIN a = 1 .. Len(u) + 1 /\ a[Len(u) + 1] = e /\ Len(a) = Len(u) + 1
          /\ \A k \in 1 .. Len(u) : a[k] = u[k] /\ k \in DOMAIN u
          /\ Len(u) \in Nat
      BY <1>1, AppendElements
    <3>2. a # << >>
      <4> HIDE DEF a
      <4>1. Len(a) # 0
        BY <3>1
      <4> QED BY <4>1
    <3> QED BY <3>1, <3>2
  <2>3. /\ DOMAIN t = 1 .. Len(s) + 1 /\ t[Len(s) + 1] = e
        /\ \A k \in DOMAIN s : k \in DOMAIN t /\ t[k] = s[k]
    OBVIOUS
  <2> HIDE DEF f, m, a, t
  <2>4. ASSUME NEW k \in DOMAIN a PROVE f + k - 1 \in DOMAIN t /\ a[k] = t[f + k - 1]
    <3>1. CASE k = m + 1
      <4>1. f + k - 1 = Len(s) + 1
        BY <2>1, <3>1
      <4> QED BY <2>1, <2>2, <2>3, <3>1, <4>1
    <3>2. CASE k # m + 1
      <4>1. k \in 1 .. m
        BY <2>1, <2>2, <3>2
      <4>2. f + k - 1 \in DOMAIN s /\ u[k] = s[f + k - 1]
        BY <1>3, <2>2, <4>1 DEF CoversFrom, f
      <4> QED BY <2>2, <2>3, <4>1, <4>2
    <3> QED BY <3>1, <3>2
  <2>5. CoversFrom(a, f, t)
    BY <2>2, <2>4 DEF CoversFrom
  <2> QED BY <1>4, <2>5 DEF a, f
<1>12. Heap(h, t)
  BY HeapMore
<1> HIDE DEF t
<1>13. ASSUME NEW i \in DOMAIN g
       PROVE  /\ CoversFrom(UnderIn(g)[i], g[i].first, t) /\ Kept(g, i)
              /\ MetricsAre(g[i], UnderIn(g)[i])
  <2>1. CASE i = w
    <3>1. ~ChildIn(g, i)
      BY <1>8, <2>1
    <3> QED BY <1>4, <1>5, <1>10, <1>11, <2>1, <3>1 DEF Kept
  <2>2. CASE i # w
    <3>1. CoversFrom(UnderIn(h)[i], h[i].first, t) /\ Kept(h, i) /\ MetricsAre(h[i], UnderIn(h)[i])
      BY <1>5, <1>12 DEF Heap
    <3>2. g[i] = h[i] /\ UnderIn(g)[i] = UnderIn(h)[i] /\ (ChildIn(g, i) <=> ChildIn(h, i))
      BY <1>5, <1>8, <1>9, <2>2
    <3> QED BY <3>1, <3>2 DEF Kept
  <2> QED BY <2>1, <2>2
<1>14. Heap(g, t)
  BY <1>5, <1>7, <1>13 DEF Heap
<1>15. EndAfter(g, w) = Len(s) + 2
  <2>1. Len(Append(u, e)) = Len(u) + 1 /\ Len(u) \in Nat
    BY <1>1
  <2>2. h[w].first + Len(u) = Len(s) + 1
    BY DEF EndAfter, u
  <2>3. EndAfter(g, w) = h[w].first + (Len(u) + 1)
    BY <1>4, <1>5, <1>10, <2>1 DEF EndAfter
  <2> DEFINE f == h[w].first
             m == Len(u)
             n == Len(s)
  <2>4. f \in Nat /\ m \in Nat /\ n \in Nat /\ f + m = n + 1
    BY <1>3, <2>1, <2>2
  <2> HIDE DEF f, m, n
  <2>5. f + (m + 1) = n + 2
    BY <2>4
  <2> QED BY <2>3, <2>5 DEF f, m, n
<1>16. g[w].left = NULL /\ g[w].metrics = NoMetrics /\ g[w].first = h[w].first
  BY <1>4, <1>5
<1> QED BY <1>5, <1>8, <1>9, <1>10, <1>14, <1>15, <1>16 DEF t, u

-----------------------------------------------------------------------------
(* Rows that may be empty, and what leaves them as they are.               *)

Tiled(h, row, p, q) == IF row = << >> THEN p = q ELSE Tiles(h, row, p, q)

Top(h, i) == ~ChildIn(h, i) /\ h[i].metrics = NoMetrics

\* Window i is in g the first of the same accesses, and has a parent only if
\* it had one.
SameTop(g, h, i) ==
  /\ g[i].first = h[i].first /\ g[i].metrics = h[i].metrics
  /\ UnderIn(g)[i] = UnderIn(h)[i]
  /\ ChildIn(g, i) => ChildIn(h, i)

LEMMA SameTiles ==
  ASSUME NEW h, NEW g, DOMAIN h \subseteq DOMAIN g, NEW row, NEW p, NEW q, Tiled(h, row, p, q),
         Len(row) \in Nat, DOMAIN row = 1 .. Len(row),
         \A k \in DOMAIN row : SameTop(g, h, row[k])
  PROVE  Tiled(g, row, p, q)
<1>1. CASE row = << >>
  BY <1>1 DEF Tiled
<1>2. CASE row # << >>
  <2>1. Tiles(h, row, p, q)
    BY <1>2 DEF Tiled
  <2>2. row \in Seq(DOMAIN g)
    <3>1. row \in Seq(DOMAIN h)
      BY <2>1 DEF Tiles
    <3> QED BY <3>1
  <2>3. \A k \in DOMAIN row : ~ChildIn(g, row[k]) /\ g[row[k]].metrics = NoMetrics
    BY <2>1 DEF Tiles, SameTop
  <2>4. 1 \in DOMAIN row
    <3>1. Len(row) # 0
      BY <1>2, <2>2
    <3> QED BY <3>1
  <2>5. g[row[1]].first = p
    BY <2>1, <2>4 DEF Tiles, SameTop
  <2>6. ASSUME NEW k \in DOMAIN row
        PROVE  EndAfter(g, row[k]) = IF k = Len(row) THEN q ELSE g[row[k + 1]].first
    <3>1. EndAfter(g, row[k]) = EndAfter(h, row[k])
      BY DEF SameTop, EndAfter
    <3>2. k # Len(row) => k + 1 \in DOMAIN row
      OBVIOUS
    <3>3. k # Len(row) => g[row[k + 1]].first = h[row[k + 1]].first
      BY <3>2 DEF SameTop
    <3> QED BY <2>1, <3>1, <3>3 DEF Tiles
  <2>7. Tiles(g, row, p, q)
    BY <2>1, <2>2, <2>3, <2>5, <2>6 DEF Tiles
  <2> QED BY <1>2, <2>7 DEF Tiled
<1> QED BY <1>1, <1>2

LEMMA AddedTile ==
  ASSUME NEW h, NEW row \in Seq(DOMAIN h), NEW p, NEW q, Tiled(h, row, p, q),
         NEW i \in DOMAIN h, Top(h, i), i \notin ToSet(row),
         h[i].first = q, NEW r, EndAfter(h, i) = r
  PROVE  Tiles(h, Append(row, i), p, r)
<1> DEFINE new == Append(row, i)
           n == Len(row)
<1>1. /\ n \in Nat /\ DOMAIN row = 1 .. n /\ new \in Seq(DOMAIN h) /\ Len(new) = n + 1
      /\ DOMAIN new = 1 .. n + 1 /\ new[n + 1] = i /\ \A k \in 1 .. n : new[k] = row[k]
  OBVIOUS
<1>2. \A k \in 1 .. n : row[k] # i
  BY <1>1 DEF ToSet
<1>e. n = 0 <=> row = << >>
  OBVIOUS
<1> HIDE DEF new, n
<1>3. new # << >>
  BY <1>1 
<1>4. n # 0 => Tiles(h, row, p, q)
  BY <1>e DEF Tiled
<1>5. ASSUME NEW k \in DOMAIN new PROVE ~ChildIn(h, new[k]) /\ h[new[k]].metrics = NoMetrics
  <2>1. CASE k = n + 1
    BY <1>1, <2>1 DEF Top
  <2>2. CASE k # n + 1
    <3>1. k \in 1 .. n /\ n # 0
      BY <1>1, <2>2
    <3> QED BY <1>1, <1>4, <3>1 DEF Tiles
  <2> QED BY <2>1, <2>2
<1>6. \A j, k \in DOMAIN new : new[j] = new[k] => j = k
  <2> SUFFICES ASSUME NEW j \in DOMAIN new, NEW k \in DOMAIN new, new[j] = new[k] PROVE j = k
    OBVIOUS
  <2>1. CASE j \in 1 .. n /\ k \in 1 .. n
    <3>1. row[j] = row[k] /\ n # 0
      BY <1>1, <2>1
    <3> QED BY <1>1, <1>4, <2>1, <3>1 DEF Tiles
  <2>2. CASE ~(j \in 1 .. n /\ k \in 1 .. n)
    BY <1>1, <1>2, <2>2
  <2> QED BY <2>1, <2>2
<1>7. h[new[1]].first = p
  <2>1. CASE n = 0
    BY <1>1, <1>e, <2>1 DEF Tiled
  <2>2. CASE n # 0
    <3>1. new[1] = row[1]
      BY <1>1, <2>2
    <3> QED BY <1>4, <2>2, <3>1 DEF Tiles
  <2> QED BY <2>1, <2>2
<1>8. ASSUME NEW k \in DOMAIN new
      PROVE  EndAfter(h, new[k]) = IF k = n + 1 THEN r ELSE h[new[k + 1]].first
  <2>1. CASE k = n + 1
    BY <1>1, <2>1
  <2>2. CASE k = n
    <3>1. k \in DOMAIN row /\ n # 0 /\ new[k] = row[k] /\ new[k + 1] = i /\ k # n + 1
      BY <1>1, <2>2
    <3> QED BY <1>4, <2>2, <3>1 DEF Tiles, n
  <2>3. CASE k # n + 1 /\ k # n
    <3>1. /\ k \in DOMAIN row /\ n # 0 /\ new[k] = row[k] /\ new[k + 1] = row[k + 1]
          /\ k # n + 1 /\ k # n
      BY <1>1, <2>3
    <3> QED BY <1>4, <3>1 DEF Tiles, n
  <2> QED BY <2>1, <2>2, <2>3
<1>9. Tiles(h, new, p, r)
  BY <1>1, <1>3, <1>5, <1>6, <1>7, <1>8 DEF Tiles
<1> QED BY <1>9 DEF new

\* The last window of a sample is not the one before it.
LEMMA CompletedAll ==
  ASSUME NEW s \in Seq(Loads), Heap(nodes, s), windows \in Seq(DOMAIN nodes),
         window \in DOMAIN nodes, NEW p, Tiled(nodes, windows, p, nodes[window].first)
  PROVE  Completed = Append(windows, window)
<1> SUFFICES ASSUME windows # << >>, SameID(Last(windows), window) PROVE FALSE
  BY DEF Completed
<1> DEFINE n == Len(windows)
           i == windows[n]
<1>1. n \in DOMAIN windows
  OBVIOUS
<1>2. i \in DOMAIN nodes
  BY <1>1
<1>3. EndAfter(nodes, i) = nodes[window].first
  BY <1>1 DEF Tiled, Tiles
<1>4. nodes[i].first = nodes[window].first
  BY DEF SameID, Last
<1> HIDE DEF i
<1>5. nodes[i].first \in Nat /\ UnderIn(nodes)[i] \in Seq(Loads)
  BY <1>2, HeapSize, HeapFacts
<1>6. UnderIn(nodes)[i] # << >>
  BY <1>2 DEF Heap, CoversFrom
<1>7. Len(UnderIn(nodes)[i]) \in Nat /\ Len(UnderIn(nodes)[i]) # 0
  <2> DEFINE u == UnderIn(nodes)[i]
  <2> HIDE DEF u
  <2>1. u \in Seq(Loads) /\ u # << >>
    BY <1>5, <1>6 DEF u
  <2>2. Len(u) \in Nat /\ Len(u) # 0
    BY <2>1
  <2> QED BY <2>2 DEF u
<1> QED BY <1>3, <1>4, <1>5, <1>7 DEF EndAfter

-----------------------------------------------------------------------------
(* The windows while the trace is read.                                    *)

\* Window w is being filled; the windows ws before it in its sample start at
\* position p, and the samples before it end there.
Filling(h, ws, w, fs, p, n) ==
  /\ w = Len(h) /\ w \in DOMAIN h /\ h[w].left = NULL
  /\ Top(h, w) /\ EndAfter(h, w) = n + 1
  /\ Tiled(h, ws, p, h[w].first)
  /\ Tiled(h, fs, 1, p)
  /\ \A i \in ToSet(fs) : i # w /\ i \notin ToSet(ws)
  /\ w \notin ToSet(ws)

LEMMA SeqSize ==
  ASSUME NEW S, NEW row \in Seq(S)
  PROVE  /\ Len(row) \in Nat /\ DOMAIN row = 1 .. Len(row)
         /\ ToSet(row) = {row[k] : k \in DOMAIN row} /\ ToSet(row) \subseteq S
BY DEF ToSet

\* What is left of the windows when the sample is complete: one more tree.
LEMMA SampleClosed ==
  ASSUME NEW s \in Seq(Loads), Heap(nodes, s), forest \in Seq(DOMAIN nodes),
         windows \in Seq(DOMAIN nodes), NEW p,
         Filling(nodes, windows, window, forest, p, Len(s)),
         NEW g, g = SampleTree.heap, NEW r, r = SampleTree.root
  PROVE  /\ Heap(g, s) /\ Len(nodes) <= Len(g) /\ Len(g) \in Nat
         /\ r \in DOMAIN g /\ g[r].first = p /\ EndAfter(g, r) = Len(s) + 1
         /\ \A i \in DOMAIN nodes : UnderIn(g)[i] = UnderIn(nodes)[i]
         /\ \A i \in ToSet(forest) : SameTop(g, nodes, i)
         /\ Append(forest, r) \in Seq(DOMAIN g)
         /\ Tiles(g, Append(forest, r), 1, Len(s) + 1)
<1> DEFINE row == Append(windows, window)
           t == BuildTree(nodes, row)
           q == Len(s) + 1
<1>1. /\ nodes \in Seq(HeapWindow) /\ Len(nodes) \in Nat /\ DOMAIN nodes = 1 .. Len(nodes)
  BY HeapSize
<1>2. Completed = row
  BY CompletedAll DEF Filling
<1>3. Tiles(nodes, row, p, q)
  BY AddedTile DEF Filling
<1>4. /\ Heap(t.heap, s) /\ Tiles(t.heap, <<t.root>>, p, q)
      /\ Extends(nodes, t.heap, ToSet(row))
      /\ t.root \in ToSet(row) \/ t.root > Len(nodes)
  <2> HIDE DEF row, q
  <2> QED BY <1>3, BuiltTree
<1>5. SampleTree = [t EXCEPT !.heap[t.root].sampleHead = TRUE]
  BY <1>2 DEF SampleTree
<1>6. t = [heap |-> t.heap, root |-> t.root]
  BY DEF BuildTree
<1> DEFINE a == t.heap
<1>7. r = t.root /\ g = [a EXCEPT ![r] = [a[r] EXCEPT !.sampleHead = TRUE]]
  BY <1>5, <1>6
<1> HIDE DEF row, q, t
<1>8. Heap(a, s) /\ Tiles(a, <<r>>, p, q) /\ Extends(nodes, a, ToSet(row))
      /\ (r \in ToSet(row) \/ r > Len(nodes))
  BY <1>4, <1>7
<1> HIDE DEF a
<1>9. /\ r \in DOMAIN a /\ ~ChildIn(a, r) /\ a[r].metrics = NoMetrics
      /\ a[r].first = p /\ EndAfter(a, r) = q
  <2>1. DOMAIN <<r>> = {1} /\ <<r>>[1] = r /\ Len(<<r>>) = 1
    OBVIOUS
  <2>2. <<r>> \in Seq(DOMAIN a)
    BY <1>8 DEF Tiles
  <2>3. r \in DOMAIN a
    BY <2>1, <2>2
  <2> QED BY <1>8, <2>1, <2>3 DEF Tiles
<1>10. a \in Seq(HeapWindow) /\ Len(a) \in Nat /\ DOMAIN a = 1 .. Len(a)
  BY <1>8, HeapSize
<1>14. /\ Heap(g, s) /\ Len(g) = Len(a) /\ DOMAIN g = DOMAIN a
       /\ g[r].metrics = a[r].metrics /\ \A i \in DOMAIN a : i # r => g[i] = a[i]
       /\ \A i \in DOMAIN a : /\ UnderIn(g)[i] = UnderIn(a)[i]
                              /\ g[i].first = a[i].first
                              /\ ChildIn(g, i) <=> ChildIn(a, i)
  <2>1. g = PutIn(a, r, Marked(a[r]))
    BY <1>7 DEF PutIn, Marked
  <2>2. Heap(a, s) /\ r \in DOMAIN a /\ ~ChildIn(a, r)
    BY <1>8, <1>9
  <2> QED BY <2>1, <2>2, WindowMarked
<1>15. /\ Len(nodes) <= Len(a)
       /\ \A i \in DOMAIN nodes : i \in DOMAIN a /\ UnderIn(a)[i] = UnderIn(nodes)[i]
       /\ \A i \in DOMAIN nodes \ ToSet(row) :
            a[i] = nodes[i] /\ (ChildIn(a, i) => ChildIn(nodes, i))
  BY <1>1, <1>8, <1>10 DEF Extends
<1>16. ToSet(row) = ToSet(windows) \cup {window}
  <2>1. row \in Seq(DOMAIN nodes) /\ Len(row) = Len(windows) + 1
        /\ row[Len(windows) + 1] = window /\ \A k \in DOMAIN windows : row[k] = windows[k]
        /\ DOMAIN windows = 1 .. Len(windows) /\ Len(windows) \in Nat
        /\ DOMAIN row = 1 .. Len(windows) + 1
    BY DEF row, Filling
  <2>2. ToSet(row) = {row[k] : k \in DOMAIN row} /\ ToSet(windows) = {windows[k] : k \in DOMAIN windows}
    BY DEF ToSet
  <2>3. ToSet(windows) \cup {window} \subseteq ToSet(row)
    <3>1. \A k \in DOMAIN windows : k \in DOMAIN row
      BY <2>1
    <3>2. Len(windows) + 1 \in DOMAIN row
      BY <2>1
    <3> QED BY <2>1, <2>2, <3>1, <3>2
  <2>4. ToSet(row) \subseteq ToSet(windows) \cup {window}
    <3>1. \A k \in DOMAIN row : k \in DOMAIN windows \/ k = Len(windows) + 1
      BY <2>1
    <3> QED BY <2>1, <2>2, <3>1
  <2> QED BY <2>3, <2>4
<1>17. \A i \in ToSet(forest) : i \in DOMAIN nodes /\ i \notin ToSet(row)
  BY <1>16, SeqSize DEF Filling
<1>18. r \notin ToSet(forest)
  BY <1>1, <1>8, <1>17
<1>19. ASSUME NEW i \in ToSet(forest) PROVE SameTop(g, nodes, i)
  <2>1. i \in DOMAIN nodes \ ToSet(row) /\ i # r /\ i \in DOMAIN a
    BY <1>15, <1>17, <1>18
  <2>2. g[i] = nodes[i] /\ UnderIn(g)[i] = UnderIn(nodes)[i] /\ (ChildIn(g, i) => ChildIn(nodes, i))
    BY <1>14, <1>15, <2>1
  <2> QED BY <2>2 DEF SameTop
<1>20. Tiled(g, forest, 1, p) /\ forest \in Seq(DOMAIN g)
  <2>1. DOMAIN nodes \subseteq DOMAIN g
    BY <1>14, <1>15
  <2>2. \A k \in DOMAIN forest : SameTop(g, nodes, forest[k])
    BY <1>19, SeqSize
  <2>3. Tiled(nodes, forest, 1, p)
    BY DEF Filling
  <2>4. Len(forest) \in Nat /\ DOMAIN forest = 1 .. Len(forest)
    BY SeqSize
  <2>5. Tiled(g, forest, 1, p)
    BY <2>1, <2>2, <2>3, <2>4, SameTiles
  <2> QED BY <2>1, <2>5
<1>21. Top(g, r) /\ g[r].first = p /\ EndAfter(g, r) = q /\ r \in DOMAIN g
  BY <1>9, <1>14 DEF Top, EndAfter
<1>22. Tiles(g, Append(forest, r), 1, q)
  BY <1>18, <1>20, <1>21, AddedTile
<1>23. Append(forest, r) \in Seq(DOMAIN g)
  <2> DEFINE S == DOMAIN g
  <2>1. forest \in Seq(S) /\ r \in S
    BY <1>20, <1>21
  <2> HIDE DEF S
  <2>2. Append(forest, r) \in Seq(S)
    BY <2>1
  <2> QED BY <2>2 DEF S
<1>24. Len(nodes) <= Len(g) /\ Len(g) \in Nat
  BY <1>10, <1>14, <1>15
<1> QED BY <1>14, <1>15, <1>19, <1>21, <1>22, <1>23, <1>24 DEF q

-----------------------------------------------------------------------------
(* The invariant of the trees.                                             *)

Open(ph) == ph \in {"reading", "crashed"}

Call(h) == [node : DOMAIN h, lvl : Nat, inSample : BOOLEAN]

Started == IF window = NULL
           THEN nodes = << >> /\ windows = << >> /\ forest = << >> /\ input = << >>
           ELSE \E p \in Nat : Filling(nodes, windows, window, forest, p, Len(input))

Closed == window = NULL /\ windows = << >>

TreeInv ==
  /\ input \in Seq(Access) /\ \A k \in DOMAIN input : input[k].at = k
  /\ Heap(nodes, input)
  /\ windows \in Seq(DOMAIN nodes) /\ forest \in Seq(DOMAIN nodes)
  /\ calls \in Seq(Call(nodes))
  /\ IF Open(phase) THEN Started ELSE Closed
  /\ phase = "forest" => Tiles(nodes, forest, 1, Len(input) + 1)

\* A step leaves the samples that are complete as they are.
SameRoots ==
  \A k \in DOMAIN forest :
    /\ nodes'[forest[k]].first = nodes[forest[k]].first
    /\ UnderIn(nodes')[forest[k]] = UnderIn(nodes)[forest[k]]

LEMMA EmptyHeap == Heap(<< >>, << >>)
<1>1. << >> \in Seq(HeapWindow)
  OBVIOUS
<1>2. DOMAIN << >> = {}
  OBVIOUS
<1> QED BY <1>1, <1>2 DEF Heap, Descending

LEMMA TreeInit == Init => TreeInv
<1> SUFFICES ASSUME Init PROVE TreeInv
  OBVIOUS
<1>1. /\ input = << >> /\ nodes = << >> /\ windows = << >> /\ forest = << >> /\ calls = << >>
      /\ window = NULL /\ phase = "reading"
  BY DEF Init
<1>2. /\ input \in Seq(Access) /\ windows \in Seq(DOMAIN nodes) /\ forest \in Seq(DOMAIN nodes)
      /\ calls \in Seq(Call(nodes)) /\ DOMAIN input = {}
  BY <1>1
<1>3. Heap(nodes, input)
  BY <1>1, EmptyHeap
<1> QED BY <1>1, <1>2, <1>3 DEF TreeInv, Open, Started

\* The access that is read next.
LEMMA NextAccess ==
  ASSUME TreeInv, NEW access \in Access, IsAccess(access)
  PROVE  /\ access \in Loads /\ input \in Seq(Loads) /\ input' = Append(input, access)
         /\ input' \in Seq(Access) /\ input' \in Seq(Loads)
         /\ Len(input) \in Nat /\ Len(input') = Len(input) + 1
         /\ access.at = Len(input) + 1
         /\ access.at \in DOMAIN input' /\ input'[access.at] = access
         /\ \A k \in DOMAIN input' : input'[k].at = k
         /\ Heap(nodes, input) /\ Heap(nodes, input')
         /\ phase = "reading" /\ phase' = phase /\ calls' = calls
<1>1. /\ input \in Seq(Access) /\ \A k \in DOMAIN input : input[k].at = k
      /\ Heap(nodes, input)
  BY DEF TreeInv
<1>2. /\ access.at = Len(input) + 1 /\ input' = Append(input, access)
      /\ phase = "reading" /\ phase' = phase /\ calls' = calls
  BY DEF IsAccess, printVars
<1>3. access \in Loads /\ input \in Seq(Loads)
  BY <1>1, AccessIsLoad
<1>4. /\ Len(input) \in Nat /\ Len(input') = Len(input) + 1 /\ DOMAIN input = 1 .. Len(input)
      /\ DOMAIN input' = 1 .. Len(input) + 1 /\ input'[Len(input) + 1] = access
      /\ \A k \in DOMAIN input : input'[k] = input[k]
      /\ input' \in Seq(Access)
  BY <1>1, <1>2
<1>5. input' \in Seq(Loads)
  BY <1>4, AccessIsLoad
<1>6. \A k \in DOMAIN input' : input'[k].at = k
  <2>1. \A k \in DOMAIN input' : k \in DOMAIN input \/ k = Len(input) + 1
    BY <1>4
  <2> QED BY <1>1, <1>2, <1>4, <2>1
<1>7. Heap(nodes, input')
  BY <1>1, <1>2, <1>3, HeapMore
<1>8. access.at \in DOMAIN input' /\ input'[access.at] = access
  BY <1>2, <1>4
<1> QED BY <1>1, <1>2, <1>3, <1>4, <1>5, <1>6, <1>7, <1>8

LEMMA FirstWindowTree ==
  ASSUME TreeInv, NEW access \in Access, FirstWindow(access)
  PROVE  TreeInv' /\ SameRoots
<1>1. SameSample(access) /\ IsAccess(access)
  BY DEF FirstWindow, SameSample
<1>2. /\ window = NULL /\ nodes' = Append(nodes, NewWindow(access)) /\ window' = Len(nodes) + 1
      /\ windows' = windows /\ forest' = forest
  BY DEF FirstWindow
<1>3. /\ access \in Loads /\ input \in Seq(Loads)
      /\ input' \in Seq(Access) /\ input' \in Seq(Loads)
      /\ Len(input) \in Nat /\ Len(input') = Len(input) + 1
      /\ access.at = Len(input) + 1
      /\ access.at \in DOMAIN input' /\ input'[access.at] = access
      /\ \A k \in DOMAIN input' : input'[k].at = k
      /\ Heap(nodes, input')
      /\ phase = "reading" /\ phase' = phase /\ calls' = calls
  BY <1>1, NextAccess
<1>4. nodes = << >> /\ windows = << >> /\ forest = << >> /\ input = << >>
  BY <1>2, <1>3 DEF TreeInv, Started, Open
<1>5. access.at = 1 /\ Len(input') = 1
  BY <1>3, <1>4
<1> DEFINE g == nodes'
<1>6. /\ Heap(g, input') /\ Len(g) = Len(nodes) + 1
      /\ ~ChildIn(g, Len(g)) /\ UnderIn(g)[Len(g)] = <<access>>
      /\ g[Len(g)].left = NULL /\ g[Len(g)].metrics = NoMetrics
      /\ g[Len(g)].first = access.at
  <2>1. g = Added(nodes, access)
    BY <1>2 DEF Added
  <2> HIDE DEF g
  <2> QED BY <1>3, <2>1, WindowAdded
<1>7. Len(nodes) = 0
  BY <1>4
<1> HIDE DEF g
<1>8. Len(g) = 1 /\ window' = 1 /\ 1 \in DOMAIN g
  <2>1. Len(g) = 1
    BY <1>6, <1>7
  <2>2. DOMAIN g = 1 .. Len(g)
    BY <1>3, <1>6, HeapSize
  <2> QED BY <1>2, <1>7, <2>1, <2>2
<1>9. EndAfter(g, 1) = 2
  <2>1. g[1].first = 1 /\ UnderIn(g)[1] = <<access>>
    BY <1>5, <1>6, <1>8
  <2>2. Len(<<access>>) = 1
    OBVIOUS
  <2> QED BY <2>1, <2>2 DEF EndAfter
<1>10. Filling(g, << >>, 1, << >>, 1, 1)
  <2>1. Top(g, 1) /\ 1 = Len(g) /\ g[1].left = NULL /\ g[1].first = 1
    BY <1>5, <1>6, <1>8 DEF Top
  <2>2. Tiled(g, << >>, 1, 1)
    BY DEF Tiled
  <2>3. ToSet(<< >>) = {}
    BY DEF ToSet
  <2> QED BY <1>8, <1>9, <2>1, <2>2, <2>3 DEF Filling
<1>11. Started'
  <2>1. window' # NULL
    BY <1>8 DEF NULL
  <2>2. Filling(nodes', windows', window', forest', 1, Len(input'))
    BY <1>2, <1>4, <1>5, <1>8, <1>10 DEF g
  <2> QED BY <2>1, <2>2 DEF Started
<1>12. windows' \in Seq(DOMAIN nodes') /\ forest' \in Seq(DOMAIN nodes')
  BY <1>2, <1>4
<1>13. calls' \in Seq(Call(nodes'))
  <2>1. Call(nodes) \subseteq Call(nodes')
    BY <1>4 DEF Call
  <2>2. calls \in Seq(Call(nodes))
    BY DEF TreeInv
  <2> QED BY <1>3, <2>1, <2>2
<1>14. Heap(nodes', input')
  BY <1>6 DEF g
<1>15. Open(phase)' /\ phase' # "forest"
  BY <1>3 DEF Open
<1>16. SameRoots
  BY <1>4 DEF SameRoots
<1> QED BY <1>3, <1>11, <1>12, <1>13, <1>14, <1>15, <1>16 DEF TreeInv

\* Windows may be added to the heap.
LEMMA HeapGrows ==
  ASSUME NEW h, NEW g, DOMAIN h \subseteq DOMAIN g
  PROVE  /\ Seq(DOMAIN h) \subseteq Seq(DOMAIN g)
         /\ Seq(Call(h)) \subseteq Seq(Call(g))
<1>1. Call(h) \subseteq Call(g)
  BY DEF Call
<1>2. \A S, T : S \subseteq T => Seq(S) \subseteq Seq(T)
  OBVIOUS
<1> HIDE DEF Call
<1> QED BY <1>1, <1>2

\* A new window is on top, and all others stay where they are.
LEMMA AddedTops ==
  ASSUME NEW s \in Seq(Loads), NEW h, Heap(h, s), NEW e \in Loads,
         e.at \in DOMAIN s, s[e.at] = e, NEW g, g = Added(h, e)
  PROVE  /\ Heap(g, s) /\ Len(g) = Len(h) + 1 /\ Len(h) \in Nat
         /\ DOMAIN h = 1 .. Len(h) /\ DOMAIN g = 1 .. Len(h) + 1 /\ DOMAIN h \subseteq DOMAIN g
         /\ \A i \in DOMAIN h : /\ SameTop(g, h, i) /\ UnderIn(g)[i] = UnderIn(h)[i]
                                /\ Len(g) # i
         /\ Top(g, Len(g)) /\ UnderIn(g)[Len(g)] = <<e>>
         /\ g[Len(g)].left = NULL /\ g[Len(g)].first = e.at /\ EndAfter(g, Len(g)) = e.at + 1
<1>1. /\ Heap(g, s) /\ Len(g) = Len(h) + 1
      /\ \A i \in DOMAIN h : /\ g[i] = h[i] /\ UnderIn(g)[i] = UnderIn(h)[i]
                             /\ ChildIn(g, i) <=> ChildIn(h, i)
      /\ ~ChildIn(g, Len(g)) /\ UnderIn(g)[Len(g)] = <<e>>
      /\ g[Len(g)].left = NULL /\ g[Len(g)].metrics = NoMetrics
      /\ g[Len(g)].first = e.at
  BY WindowAdded
<1>2. Len(h) \in Nat /\ DOMAIN h = 1 .. Len(h) /\ DOMAIN g = 1 .. Len(g)
  BY <1>1, HeapSize
<1>3. \A i \in DOMAIN h : SameTop(g, h, i)
  BY <1>1 DEF SameTop
<1>4. Top(g, Len(g))
  BY <1>1 DEF Top
<1>5. EndAfter(g, Len(g)) = e.at + 1
  <2>1. Len(<<e>>) = 1
    OBVIOUS
  <2> QED BY <1>1, <2>1 DEF EndAfter
<1>6. DOMAIN h \subseteq DOMAIN g /\ \A i \in DOMAIN h : Len(g) # i
  <2> DEFINE n == Len(h)
             m == Len(g)
  <2>1. n \in Nat /\ m = n + 1 /\ DOMAIN h = 1 .. n /\ DOMAIN g = 1 .. m
    BY <1>1, <1>2
  <2> HIDE DEF n, m
  <2>2. DOMAIN h \subseteq DOMAIN g /\ \A i \in DOMAIN h : m # i
    BY <2>1
  <2> QED BY <2>2 DEF m
<1> QED BY <1>1, <1>2, <1>3, <1>4, <1>5, <1>6

LEMMA NextWindowTree ==
  ASSUME TreeInv, NEW access \in Access, NextWindow(access)
  PROVE  TreeInv' /\ SameRoots
<1>1. SameSample(access) /\ IsAccess(access)
  BY DEF NextWindow, SameSample
<1>2. /\ window # NULL /\ nodes' = Append(nodes, NewWindow(access)) /\ window' = Len(nodes) + 1
      /\ windows' = Append(windows, window) /\ forest' = forest
  BY DEF NextWindow
<1>3. /\ access \in Loads /\ input \in Seq(Loads)
      /\ input' \in Seq(Access) /\ input' \in Seq(Loads)
      /\ Len(input) \in Nat /\ Len(input') = Len(input) + 1
      /\ access.at = Len(input) + 1
      /\ access.at \in DOMAIN input' /\ input'[access.at] = access
      /\ \A k \in DOMAIN input' : input'[k].at = k
      /\ Heap(nodes, input')
      /\ phase = "reading" /\ phase' = phase /\ calls' = calls
  BY <1>1, NextAccess
<1>4. PICK p \in Nat : Filling(nodes, windows, window, forest, p, Len(input))
  BY <1>2, <1>3 DEF TreeInv, Started, Open
<1>5. windows \in Seq(DOMAIN nodes) /\ forest \in Seq(DOMAIN nodes) /\ calls \in Seq(Call(nodes))
  BY DEF TreeInv
<1>6. window \in DOMAIN nodes
  BY <1>4 DEF Filling
<1> DEFINE g == nodes'
           row == windows'
<1>7. g = Added(nodes, access) /\ row = Append(windows, window)
  BY <1>2 DEF Added
<1> HIDE DEF g, row
<1>8. /\ Heap(g, input') /\ Len(g) = Len(nodes) + 1 /\ Len(nodes) \in Nat
      /\ DOMAIN nodes = 1 .. Len(nodes) /\ DOMAIN g = 1 .. Len(nodes) + 1
      /\ DOMAIN nodes \subseteq DOMAIN g
      /\ \A i \in DOMAIN nodes : SameTop(g, nodes, i) /\ Len(g) # i
      /\ Top(g, Len(g)) /\ g[Len(g)].left = NULL /\ g[Len(g)].first = access.at
      /\ EndAfter(g, Len(g)) = access.at + 1
  BY SMTT(30), <1>3, <1>7, AddedTops
<1>9. Tiles(nodes, row, p, access.at)
  <2>1. /\ Tiled(nodes, windows, p, nodes[window].first) /\ Top(nodes, window)
        /\ window \notin ToSet(windows) /\ EndAfter(nodes, window) = access.at
    BY <1>3, <1>4 DEF Filling
  <2> QED BY <1>5, <1>6, <1>7, <2>1, AddedTile
<1>10. row \in Seq(DOMAIN nodes) /\ row # << >>
  BY <1>9 DEF Tiles
<1>11. Tiled(g, row, p, access.at) /\ Tiled(g, forest, 1, p)
  <2>1. Tiled(nodes, row, p, access.at) /\ Tiled(nodes, forest, 1, p)
    BY <1>4, <1>9, <1>10 DEF Filling, Tiled
  <2>2. /\ Len(row) \in Nat /\ DOMAIN row = 1 .. Len(row) /\ \A k \in DOMAIN row : row[k] \in DOMAIN nodes
        /\ Len(forest) \in Nat /\ DOMAIN forest = 1 .. Len(forest)
        /\ \A k \in DOMAIN forest : forest[k] \in DOMAIN nodes
    BY <1>5, <1>10
  <2> QED BY <1>8, <2>1, <2>2, SameTiles
<1>12. ToSet(row) = ToSet(windows) \cup {window} /\ ToSet(row) \subseteq DOMAIN nodes
       /\ ToSet(forest) \subseteq DOMAIN nodes
  <2>1. Elements(row) = Elements(windows) \cup {window}
    BY <1>5, <1>6, <1>7, AppendElements
  <2> QED BY <1>5, <1>10, <2>1, SeqSize DEF Elements, ToSet
<1>13. Filling(g, row, Len(g), forest, p, access.at)
  <2>1. \A i \in ToSet(forest) : i # window /\ i \notin ToSet(windows)
    BY <1>4 DEF Filling
  <2>2. Len(g) \in DOMAIN g
    BY <1>8
  <2> QED BY <1>8, <1>11, <1>12, <2>1, <2>2 DEF Filling
<1>14. Started'
  <2>1. window' = Len(g) /\ window' # NULL
    BY <1>2, <1>8 DEF NULL
  <2>2. Filling(nodes', windows', window', forest', p, Len(input'))
    BY <1>2, <1>3, <1>13, <2>1 DEF g, row
  <2> QED BY <2>1, <2>2 DEF Started
<1>15. /\ windows' \in Seq(DOMAIN nodes') /\ forest' \in Seq(DOMAIN nodes')
       /\ calls' \in Seq(Call(nodes'))
  BY <1>2, <1>3, <1>5, <1>8, <1>10, HeapGrows DEF g, row
<1>16. Heap(nodes', input')
  BY <1>8 DEF g
<1>17. Open(phase)' /\ phase' # "forest"
  BY <1>3 DEF Open
<1>18. SameRoots
  <2>1. \A k \in DOMAIN forest : SameTop(g, nodes, forest[k])
    <3>1. \A k \in DOMAIN forest : forest[k] \in DOMAIN nodes
      BY ONLY <1>5
    <3>2. \A i \in DOMAIN nodes : SameTop(g, nodes, i)
      BY ONLY <1>8
    <3> QED BY ONLY <3>1, <3>2
  <2> QED BY <2>1 DEF SameRoots, SameTop, g
<1> QED BY <1>3, <1>14, <1>15, <1>16, <1>17, <1>18 DEF TreeInv

LEMMA ExtendWindowTree ==
  ASSUME TreeInv, NEW access \in Access, ExtendWindow(access)
  PROVE  TreeInv' /\ SameRoots
<1>1. SameSample(access) /\ IsAccess(access)
  BY DEF ExtendWindow, SameSample
<1>2. /\ window # NULL /\ nodes' = PutIn(nodes, window, AddAccess(nodes[window], access))
      /\ window' = window /\ windows' = windows /\ forest' = forest
  BY DEF ExtendWindow, PutIn
<1>3. /\ access \in Loads /\ input \in Seq(Loads) /\ input' = Append(input, access)
      /\ input' \in Seq(Access)
      /\ Len(input) \in Nat /\ Len(input') = Len(input) + 1
      /\ \A k \in DOMAIN input' : input'[k].at = k
      /\ Heap(nodes, input)
      /\ phase = "reading" /\ phase' = phase /\ calls' = calls
  BY <1>1, NextAccess
<1>4. PICK p \in Nat : Filling(nodes, windows, window, forest, p, Len(input))
  BY <1>2, <1>3 DEF TreeInv, Started, Open
<1>5. windows \in Seq(DOMAIN nodes) /\ forest \in Seq(DOMAIN nodes) /\ calls \in Seq(Call(nodes))
  BY DEF TreeInv
<1>6. /\ window \in DOMAIN nodes /\ window = Len(nodes) /\ ~ChildIn(nodes, window)
      /\ nodes[window].left = NULL /\ nodes[window].metrics = NoMetrics
      /\ EndAfter(nodes, window) = Len(input) + 1
  BY <1>4 DEF Filling, Top
<1> DEFINE g == nodes'
<1>7. g = PutIn(nodes, window, AddAccess(nodes[window], access))
  BY <1>2
<1> HIDE DEF g
<1>8. /\ Heap(g, Append(input, access)) /\ Len(g) = Len(nodes)
      /\ \A i \in DOMAIN nodes : /\ i # window => g[i] = nodes[i] /\ UnderIn(g)[i] = UnderIn(nodes)[i]
                                 /\ ChildIn(g, i) <=> ChildIn(nodes, i)
      /\ g[window].left = NULL /\ g[window].metrics = NoMetrics
      /\ g[window].first = nodes[window].first
      /\ UnderIn(g)[window] = Append(UnderIn(nodes)[window], access)
      /\ EndAfter(g, window) = Len(input) + 2
  BY SMTT(30), <1>3, <1>6, <1>7, WindowExtended
<1>9. Heap(g, input')
  BY <1>3, <1>8
<1>10. DOMAIN g = DOMAIN nodes
  <2>1. DOMAIN g = 1 .. Len(g)
    <3>1. Append(input, access) \in Seq(Loads)
      BY <1>3
    <3> QED BY <1>8, <3>1, HeapSize
  <2>2. DOMAIN nodes = 1 .. Len(nodes)
    BY <1>3, HeapSize
  <2> QED BY <1>8, <2>1, <2>2
<1>11. \A i \in DOMAIN nodes : i # window => SameTop(g, nodes, i)
  BY <1>8 DEF SameTop
<1>12. Tiled(g, windows, p, nodes[window].first) /\ Tiled(g, forest, 1, p)
  <2>1. Tiled(nodes, windows, p, nodes[window].first) /\ Tiled(nodes, forest, 1, p)
    BY <1>4 DEF Filling
  <2>2. /\ \A k \in DOMAIN windows : windows[k] \in DOMAIN nodes /\ windows[k] # window
        /\ \A k \in DOMAIN forest : forest[k] \in DOMAIN nodes /\ forest[k] # window
    <3>1. window \notin ToSet(windows) /\ window \notin ToSet(forest)
      BY <1>4 DEF Filling
    <3> QED BY <1>5, <3>1, SeqSize
  <2>3. /\ Len(windows) \in Nat /\ DOMAIN windows = 1 .. Len(windows)
        /\ Len(forest) \in Nat /\ DOMAIN forest = 1 .. Len(forest)
        /\ DOMAIN nodes \subseteq DOMAIN g
    BY <1>5, <1>10
  <2>4. /\ \A k \in DOMAIN windows : SameTop(g, nodes, windows[k])
        /\ \A k \in DOMAIN forest : SameTop(g, nodes, forest[k])
    BY <1>11, <2>2
  <2> QED BY <2>1, <2>3, <2>4, SameTiles
<1>13. Filling(g, windows, window, forest, p, Len(input) + 1)
  <2>1. Top(g, window)
    BY <1>6, <1>8 DEF Top
  <2>2. EndAfter(g, window) = (Len(input) + 1) + 1
    BY <1>3, <1>8
  <2>3. /\ \A i \in ToSet(forest) : i # window /\ i \notin ToSet(windows)
        /\ window \notin ToSet(windows)
    BY <1>4 DEF Filling
  <2>4. window \in DOMAIN g /\ window = Len(g) /\ g[window].left = NULL
        /\ Tiled(g, windows, p, g[window].first)
    BY <1>6, <1>8, <1>10, <1>12
  <2> QED BY <1>12, <2>1, <2>2, <2>3, <2>4 DEF Filling
<1>14. Started'
  <2>1. Filling(nodes', windows', window', forest', p, Len(input'))
    BY <1>2, <1>3, <1>13 DEF g
  <2> QED BY <1>2, <2>1 DEF Started
<1>15. /\ windows' \in Seq(DOMAIN nodes') /\ forest' \in Seq(DOMAIN nodes')
       /\ calls' \in Seq(Call(nodes'))
  <2>1. DOMAIN nodes \subseteq DOMAIN g
    BY <1>10
  <2>2. Seq(DOMAIN nodes) \subseteq Seq(DOMAIN g) /\ Seq(Call(nodes)) \subseteq Seq(Call(g))
    BY <2>1, HeapGrows
  <2>3. windows \in Seq(DOMAIN g) /\ forest \in Seq(DOMAIN g) /\ calls \in Seq(Call(g))
    BY <1>5, <2>2
  <2> QED BY <1>2, <1>3, <2>3 DEF g
<1>16. Heap(nodes', input')
  BY <1>9 DEF g
<1>17. Open(phase)' /\ phase' # "forest"
  BY <1>3 DEF Open
<1>18. SameRoots
  <2>1. \A k \in DOMAIN forest : forest[k] \in DOMAIN nodes /\ forest[k] # window
    <3>1. window \notin ToSet(forest)
      BY <1>4 DEF Filling
    <3> QED BY <1>5, <3>1, SeqSize
  <2>2. \A k \in DOMAIN forest : SameTop(g, nodes, forest[k])
    BY <1>11, <2>1
  <2> QED BY <2>2 DEF SameRoots, SameTop, g
<1> QED BY <1>3, <1>14, <1>15, <1>16, <1>17, <1>18 DEF TreeInv

LEMMA CloseSampleTree ==
  ASSUME TreeInv, NEW access \in Access, CloseSample(access)
  PROVE  TreeInv' /\ SameRoots
<1>1. NewSample(access) /\ IsAccess(access)
  BY DEF CloseSample
<1> DEFINE h == SampleTree.heap
           r == SampleTree.root
           g == nodes'
<1>2. /\ g = Added(h, access) /\ window' = Len(g)
      /\ windows' = << >> /\ forest' = Append(forest, r)
  BY DEF CloseSample, Added
<1> HIDE DEF h, r, g
<1>3. /\ access \in Loads /\ input \in Seq(Loads) /\ input' = Append(input, access)
      /\ input' \in Seq(Access) /\ input' \in Seq(Loads)
      /\ Len(input) \in Nat /\ Len(input') = Len(input) + 1
      /\ access.at = Len(input) + 1
      /\ access.at \in DOMAIN input' /\ input'[access.at] = access
      /\ \A k \in DOMAIN input' : input'[k].at = k
      /\ Heap(nodes, input)
      /\ phase = "reading" /\ phase' = phase /\ calls' = calls
  BY <1>1, NextAccess
<1>4. PICK p \in Nat : Filling(nodes, windows, window, forest, p, Len(input))
  <2>1. window # NULL
    BY <1>1, <1>3 DEF NewSample, TreeInv, Started, Open
  <2> QED BY <1>3, <2>1 DEF TreeInv, Started, Open
<1>5. windows \in Seq(DOMAIN nodes) /\ forest \in Seq(DOMAIN nodes) /\ calls \in Seq(Call(nodes))
  BY DEF TreeInv
<1>6. /\ Heap(h, input) /\ Len(nodes) <= Len(h) /\ Len(h) \in Nat
      /\ Append(forest, r) \in Seq(DOMAIN h)
      /\ \A i \in ToSet(forest) : SameTop(h, nodes, i)
      /\ Tiles(h, Append(forest, r), 1, Len(input) + 1)
  BY <1>3, <1>4, <1>5, SampleClosed DEF h, r
<1>7. Heap(h, input')
  BY <1>3, <1>6, HeapMore
<1>8. /\ Heap(g, input') /\ Len(g) = Len(h) + 1
      /\ DOMAIN h = 1 .. Len(h) /\ DOMAIN g = 1 .. Len(h) + 1
      /\ DOMAIN h \subseteq DOMAIN g
      /\ \A i \in DOMAIN h : SameTop(g, h, i) /\ Len(g) # i
      /\ Top(g, Len(g)) /\ g[Len(g)].left = NULL /\ g[Len(g)].first = access.at
      /\ EndAfter(g, Len(g)) = access.at + 1
  <2>1. g = Added(h, access)
    BY <1>2
  <2>2. /\ input' \in Seq(Loads) /\ Heap(h, input') /\ access \in Loads
        /\ access.at \in DOMAIN input' /\ input'[access.at] = access
    BY <1>3, <1>7
  <2> QED BY <2>1, <2>2, AddedTops
<1> DEFINE row == Append(forest, r)
<1>9. row \in Seq(DOMAIN h) /\ Tiles(h, row, 1, access.at) /\ row = Append(forest, r)
  BY <1>3, <1>6
<1> HIDE DEF row
<1>10. Tiled(g, row, 1, access.at)
  <2>1. Tiled(h, row, 1, access.at)
    <3>1. row # << >>
      BY <1>9 DEF Tiles
    <3> QED BY <1>9, <3>1 DEF Tiled
  <2>2. /\ Len(row) \in Nat /\ DOMAIN row = 1 .. Len(row) /\ \A k \in DOMAIN row : row[k] \in DOMAIN h
    BY <1>9
  <2> QED BY <1>8, <2>1, <2>2, SameTiles
<1>11. Filling(g, << >>, Len(g), row, access.at, access.at)
  <2>1. ToSet(<< >>) = {}
    BY DEF ToSet
  <2>2. Tiled(g, << >>, access.at, access.at)
    BY DEF Tiled
  <2>3. Len(g) \in DOMAIN g
    BY <1>6, <1>8
  <2>4. \A i \in ToSet(row) : i # Len(g)
    BY <1>8, <1>9, SeqSize
  <2> QED BY <1>8, <1>10, <2>1, <2>2, <2>3, <2>4 DEF Filling
<1>12. Started'
  <2>1. window' # NULL
    BY <1>2, <1>6, <1>8 DEF NULL
  <2>2. Filling(nodes', windows', window', forest', access.at, Len(input'))
    BY <1>2, <1>3, <1>9, <1>11 DEF g
  <2>3. access.at \in Nat
    BY <1>3
  <2> QED BY <2>1, <2>2, <2>3 DEF Started
<1>13. DOMAIN nodes \subseteq DOMAIN g
  <2>1. DOMAIN nodes = 1 .. Len(nodes) /\ Len(nodes) \in Nat
    BY <1>3, HeapSize
  <2> QED BY <1>6, <1>8, <2>1
<1>14. windows' \in Seq(DOMAIN nodes') /\ calls' \in Seq(Call(nodes'))
  <2>1. << >> \in Seq(DOMAIN g)
    OBVIOUS
  <2> QED BY <1>2, <1>3, <1>5, <1>13, <2>1, HeapGrows DEF g
<1>15. forest' \in Seq(DOMAIN nodes')
  BY <1>2, <1>8, <1>9, HeapGrows DEF g
<1>16. Heap(nodes', input')
  BY <1>8 DEF g
<1>17. Open(phase)' /\ phase' # "forest"
  BY <1>3 DEF Open
<1>18. SameRoots
  <2>1. \A k \in DOMAIN forest : forest[k] \in ToSet(forest) /\ forest[k] \in DOMAIN h
    <3>1. DOMAIN nodes \subseteq DOMAIN h
      <4>1. DOMAIN nodes = 1 .. Len(nodes) /\ Len(nodes) \in Nat
        BY <1>3, HeapSize
      <4> QED BY <1>6, <1>8, <4>1
    <3> QED BY <1>5, <3>1, SeqSize
  <2>2. \A k \in DOMAIN forest : SameTop(h, nodes, forest[k]) /\ SameTop(g, h, forest[k])
    BY <1>6, <1>8, <2>1
  <2> QED BY <2>2 DEF SameRoots, SameTop, g
<1> QED BY <1>3, <1>12, <1>14, <1>15, <1>16, <1>17, <1>18 DEF TreeInv

LEMMA EndOfTraceTree ==
  ASSUME TreeInv, EndOfTrace
  PROVE  TreeInv' /\ SameRoots
<1> DEFINE g == SampleTree.heap
           r == SampleTree.root
<1>1. /\ phase = "reading" /\ window # NULL /\ phase' = "forest"
      /\ forest' = Append(forest, r) /\ nodes' = g /\ windows' = << >> /\ window' = NULL
      /\ input' = input /\ calls' = calls
  BY DEF EndOfTrace, printVars
<1> HIDE DEF g, r
<1>2. /\ input \in Seq(Access) /\ \A k \in DOMAIN input : input[k].at = k
      /\ Heap(nodes, input)
      /\ windows \in Seq(DOMAIN nodes) /\ forest \in Seq(DOMAIN nodes)
      /\ calls \in Seq(Call(nodes))
  BY DEF TreeInv
<1>3. input \in Seq(Loads)
  BY <1>2, AccessIsLoad
<1>4. PICK p \in Nat : Filling(nodes, windows, window, forest, p, Len(input))
  BY <1>1 DEF TreeInv, Started, Open
<1>5. /\ Heap(g, input) /\ Len(nodes) <= Len(g) /\ Len(g) \in Nat
      /\ Append(forest, r) \in Seq(DOMAIN g)
      /\ \A i \in ToSet(forest) : SameTop(g, nodes, i)
      /\ Tiles(g, Append(forest, r), 1, Len(input) + 1)
  BY <1>2, <1>3, <1>4, SampleClosed DEF g, r
<1>6. DOMAIN nodes \subseteq DOMAIN g
  <2>1. DOMAIN nodes = 1 .. Len(nodes) /\ Len(nodes) \in Nat /\ DOMAIN g = 1 .. Len(g)
    BY <1>2, <1>3, <1>5, HeapSize
  <2> QED BY <1>5, <2>1
<1>7. calls' \in Seq(Call(nodes')) /\ windows' \in Seq(DOMAIN nodes')
  <2>1. << >> \in Seq(DOMAIN g)
    OBVIOUS
  <2> QED BY <1>1, <1>2, <1>6, <2>1, HeapGrows
<1>8. ~Open(phase)' /\ Closed'
  BY <1>1 DEF Open, Closed
<1>9. /\ input' \in Seq(Access) /\ \A k \in DOMAIN input' : input'[k].at = k
      /\ Heap(nodes', input') /\ forest' \in Seq(DOMAIN nodes')
      /\ Tiles(nodes', forest', 1, Len(input') + 1)
  BY <1>1, <1>2, <1>5
<1>10. SameRoots
  <2>1. \A k \in DOMAIN forest : SameTop(g, nodes, forest[k])
    BY <1>2, <1>5, SeqSize
  <2> QED BY <1>1, <2>1 DEF SameRoots, SameTop
<1> QED BY <1>7, <1>8, <1>9, <1>10 DEF TreeInv

LEMMA BuildForestTree ==
  ASSUME TreeInv, BuildForest
  PROVE  TreeInv' /\ SameRoots
<1> DEFINE t == BuildTree(nodes, forest)
           g == t.heap
           r == t.root
<1>1. /\ phase = "forest" /\ phase' = "printing" /\ nodes' = g
      /\ calls' = <<[node |-> r, lvl |-> 0, inSample |-> FALSE]>>
      /\ input' = input /\ windows' = windows /\ window' = window /\ forest' = forest
  BY DEF BuildForest
<1>2. /\ input \in Seq(Access) /\ \A k \in DOMAIN input : input[k].at = k
      /\ Heap(nodes, input)
      /\ windows \in Seq(DOMAIN nodes) /\ forest \in Seq(DOMAIN nodes)
      /\ Closed /\ Tiles(nodes, forest, 1, Len(input) + 1)
  BY <1>1 DEF TreeInv, Open
<1>3. input \in Seq(Loads)
  BY <1>2, AccessIsLoad
<1>4. /\ Heap(g, input) /\ Tiles(g, <<r>>, 1, Len(input) + 1)
      /\ Extends(nodes, g, ToSet(forest))
  <2> DEFINE q == Len(input) + 1
  <2>1. Tiles(nodes, forest, 1, q)
    BY <1>2
  <2> HIDE DEF q
  <2>2. Heap(g, input) /\ Tiles(g, <<r>>, 1, q) /\ Extends(nodes, g, ToSet(forest))
    BY <1>2, <1>3, <2>1, BuiltTree
  <2> QED BY <2>2 DEF q
<1> HIDE DEF g, r, t
<1>5. DOMAIN nodes \subseteq DOMAIN g
  <2>1. /\ DOMAIN nodes = 1 .. Len(nodes) /\ Len(nodes) \in Nat
        /\ DOMAIN g = 1 .. Len(g) /\ Len(g) \in Nat
    BY <1>2, <1>3, <1>4, HeapSize
  <2>2. Len(nodes) <= Len(g)
    BY <1>4 DEF Extends
  <2> QED BY <2>1, <2>2
<1>6. windows \in Seq(DOMAIN g) /\ forest \in Seq(DOMAIN g)
  <2>1. Seq(DOMAIN nodes) \subseteq Seq(DOMAIN g)
    BY <1>5, HeapGrows
  <2> QED BY <1>2, <2>1
<1>7. calls' \in Seq(Call(g))
  <2>1. r \in DOMAIN g
    <3>1. <<r>> \in Seq(DOMAIN g)
      BY <1>4 DEF Tiles
    <3> QED BY <3>1
  <2>2. [node |-> r, lvl |-> 0, inSample |-> FALSE] \in Call(g)
    BY <2>1 DEF Call
  <2> HIDE DEF Call
  <2> DEFINE c == [node |-> r, lvl |-> 0, inSample |-> FALSE]
  <2>3. c \in Call(g) /\ calls' = <<c>>
    BY <1>1, <2>2
  <2> HIDE DEF c
  <2> QED BY <2>3
<1>8. ~Open(phase)' /\ phase' # "forest" /\ Closed'
  BY <1>1, <1>2 DEF Open, Closed
<1>9. /\ input' \in Seq(Access) /\ \A k \in DOMAIN input' : input'[k].at = k
      /\ Heap(nodes', input') /\ windows' \in Seq(DOMAIN nodes') /\ forest' \in Seq(DOMAIN nodes')
      /\ calls' \in Seq(Call(nodes'))
  BY <1>1, <1>2, <1>4, <1>6, <1>7
<1>10. SameRoots
  <2>1. \A i \in DOMAIN nodes : SameTree(g[i], nodes[i]) /\ UnderIn(g)[i] = UnderIn(nodes)[i]
    BY <1>4 DEF Extends
  <2>2. \A k \in DOMAIN forest : forest[k] \in DOMAIN nodes
    BY <1>2
  <2> QED BY <1>1, <2>1, <2>2 DEF SameRoots, SameTree
<1> QED BY <1>8, <1>9, <1>10 DEF TreeInv

LEMMA PrintNodeTree ==
  ASSUME TreeInv, PrintNode
  PROVE  /\ TreeInv' /\ SameRoots
         /\ DOMAIN nodes' = DOMAIN nodes
         /\ \A i \in DOMAIN nodes : UnderIn(nodes')[i] = UnderIn(nodes)[i]
<1> DEFINE call == Head(calls)
           n == call.node
           w == Measured(nodes[n])
           v == [w EXCEPT !.lvl = call.lvl]
           kids == Children(w)
           next == [k \in DOMAIN kids |->
                      [node |-> kids[k], lvl |-> call.lvl + 1,
                       inSample |-> call.inSample \/ w.sampleHead]]
           g == nodes'
<1>1. /\ phase = "printing" /\ calls # << >> /\ g = PutIn(nodes, n, v)
      /\ calls' = next \o Tail(calls)
      /\ phase' = phase /\ input' = input /\ windows' = windows /\ window' = window
      /\ forest' = forest
  BY DEF PrintNode, PutIn
<1>2. /\ input \in Seq(Access) /\ \A k \in DOMAIN input : input[k].at = k
      /\ Heap(nodes, input)
      /\ windows \in Seq(DOMAIN nodes) /\ forest \in Seq(DOMAIN nodes)
      /\ Closed /\ calls \in Seq(Call(nodes))
  BY <1>1 DEF TreeInv, Open
<1>3. input \in Seq(Loads)
  BY <1>2, AccessIsLoad
<1>4. call \in Call(nodes) /\ Tail(calls) \in Seq(Call(nodes))
  <2> DEFINE S == Call(nodes)
  <2>1. calls \in Seq(S) /\ calls # << >>
    BY <1>1, <1>2
  <2> HIDE DEF S
  <2>2. Head(calls) \in S /\ Tail(calls) \in Seq(S)
    BY <2>1
  <2> QED BY <2>2 DEF S
<1>5. n \in DOMAIN nodes /\ call.lvl \in Nat
  BY <1>4 DEF Call
<1> HIDE DEF g, next, kids, n
<1>6. /\ nodes[n] \in HeapWindow /\ MetricsAre(nodes[n], UnderIn(nodes)[n])
      /\ UnderIn(nodes)[n] \in Seq(Loads) /\ Kept(nodes, n)
      /\ nodes[n].left < n /\ nodes[n].right < n
      /\ nodes[n].left \in Nat /\ nodes[n].right \in Nat
      /\ n \in Nat /\ n <= Len(nodes) /\ Len(nodes) \in Nat /\ DOMAIN nodes = 1 .. Len(nodes)
  <2>1. nodes \in Seq(HeapWindow) /\ UnderIn(nodes)[n] \in Seq(Loads)
    BY <1>2, <1>3, <1>5, HeapSize
  <2>2. MetricsAre(nodes[n], UnderIn(nodes)[n]) /\ Kept(nodes, n) /\ Descending(nodes)
    BY <1>2, <1>5 DEF Heap
  <2> QED BY <1>5, <2>1, <2>2, HeapFacts DEF Descending
<1> HIDE DEF call, v, w
<1>7. /\ v \in HeapWindow /\ SameTree(v, nodes[n]) /\ MetricsAre(v, UnderIn(nodes)[n])
      /\ v.trace = nodes[n].trace
  <2>1. v = [Measured(nodes[n]) EXCEPT !.lvl = call.lvl]
    BY DEF v, w
  <2> QED BY <1>5, <1>6, <2>1, MeasuredWindow
<1>8. Fits(v, nodes, n)
  BY <1>6, <1>7 DEF Fits, Kept, SameTree
<1>9. /\ Heap(g, input) /\ DOMAIN g = DOMAIN nodes
      /\ \A i \in DOMAIN nodes : UnderIn(g)[i] = UnderIn(nodes)[i]
  BY <1>1, <1>2, <1>3, <1>5, <1>8, WindowReplaced
<1>10. w.left = nodes[n].left /\ w.right = nodes[n].right
  <2>1. v.left = w.left /\ v.right = w.right
    BY DEF v
  <2> QED BY <1>7, <2>1 DEF SameTree
<1>11. kids \in Seq(DOMAIN nodes)
  <2>1. \A i \in Nat : i < n /\ i # NULL => i \in DOMAIN nodes
    BY <1>6 DEF NULL
  <2>2. /\ w.left # NULL => w.left \in DOMAIN nodes
        /\ w.right # NULL => w.right \in DOMAIN nodes
    BY <1>6, <1>10, <2>1
  <2> DEFINE S == DOMAIN nodes
             a == IF w.left = NULL THEN << >> ELSE <<w.left>>
             b == IF w.right = NULL THEN << >> ELSE <<w.right>>
  <2>3. kids = a \o b
    BY DEF kids, Children
  <2>4. (w.left # NULL => w.left \in S) /\ (w.right # NULL => w.right \in S)
    BY <2>2
  <2> HIDE DEF S
  <2>5. a \in Seq(S) /\ b \in Seq(S)
    BY <2>4
  <2> HIDE DEF a, b
  <2>6. kids \in Seq(S)
    BY <2>3, <2>5
  <2> QED BY <2>6 DEF S
<1>12. next \in Seq(Call(nodes))
  <2>1. \A k \in DOMAIN kids :
          [node |-> kids[k], lvl |-> call.lvl + 1,
           inSample |-> call.inSample \/ w.sampleHead] \in Call(nodes)
    <3>1. \A k \in DOMAIN kids : kids[k] \in DOMAIN nodes
      BY <1>11
    <3>2. (call.inSample \/ w.sampleHead) \in BOOLEAN
      OBVIOUS
    <3>3. call.lvl + 1 \in Nat
      BY <1>5
    <3> QED BY <3>1, <3>2, <3>3 DEF Call
  <2>2. DOMAIN kids = 1 .. Len(kids) /\ Len(kids) \in Nat
    BY <1>11
  <2> DEFINE S == Call(nodes)
  <2>3. DOMAIN next = 1 .. Len(kids) /\ \A k \in 1 .. Len(kids) : next[k] \in S
    BY <2>1, <2>2 DEF next
  <2>4. next = [k \in 1 .. Len(kids) |-> next[k]]
    BY <2>2 DEF next
  <2> HIDE DEF S
  <2>5. next \in Seq(S)
    BY <2>2, <2>3, <2>4
  <2> QED BY <2>5 DEF S
<1>13. calls' \in Seq(Call(nodes'))
  <2> DEFINE S == Call(nodes)
             rest == Tail(calls)
  <2>1. Call(nodes') = S
    BY <1>9 DEF Call, g
  <2>2. next \in Seq(S) /\ rest \in Seq(S) /\ calls' = next \o rest
    BY <1>1, <1>4, <1>12
  <2> HIDE DEF S, rest
  <2>3. calls' \in Seq(S)
    BY <2>2
  <2> QED BY <2>1, <2>3
<1>14. ~Open(phase)' /\ phase' # "forest" /\ Closed'
  BY <1>1, <1>2 DEF Open, Closed
<1>15. /\ input' \in Seq(Access) /\ \A k \in DOMAIN input' : input'[k].at = k
       /\ Heap(nodes', input')
       /\ windows' \in Seq(DOMAIN nodes') /\ forest' \in Seq(DOMAIN nodes')
  BY <1>1, <1>2, <1>9 DEF g
<1>16. SameRoots
  <2>1. \A i \in DOMAIN nodes : g[i].first = nodes[i].first
    <3>1. \A i \in DOMAIN nodes : g[i] = IF i = n THEN v ELSE nodes[i]
      BY <1>1, <1>6 DEF PutIn
    <3> QED BY <1>7, <3>1 DEF SameTree
  <2>2. \A k \in DOMAIN forest : forest[k] \in DOMAIN nodes
    BY <1>2
  <2> QED BY <1>9, <2>1, <2>2 DEF SameRoots, g
<1> QED BY <1>9, <1>13, <1>14, <1>15, <1>16 DEF TreeInv, g

LEMMA TreeStep ==
  ASSUME TreeInv, [Next]_vars
  PROVE  TreeInv' /\ SameRoots
<1>1. CASE UNCHANGED vars
  BY <1>1 DEF vars, windowVars, countVars, printVars, TreeInv, Started, Closed, Open, SameRoots
<1>2. CASE EmptyTrace
  BY <1>2 DEF EmptyTrace, windowVars, countVars, printVars, TreeInv, Started, Closed, Open, SameRoots
<1>3. CASE Printed
  BY <1>3 DEF Printed, windowVars, countVars, printVars, TreeInv, Started, Closed, Open, SameRoots
<1> QED BY <1>1, <1>2, <1>3, FirstWindowTree, ExtendWindowTree, NextWindowTree,
           CloseSampleTree, EndOfTraceTree, BuildForestTree, PrintNodeTree DEF Next

\* Only the roots of samples and windows without a parent keep their accesses,
\* all those under them and in order, for traces of any length, any number of
\* samples and any size of window (Window.cpp:252-278).
THEOREM TraceAtSampleRootsCorrect == Spec => []TraceAtSampleRoots
<1>1. TreeInv => TraceAtSampleRoots
  <2> SUFFICES ASSUME TreeInv, NEW i \in DOMAIN nodes
               PROVE  nodes[i].trace = IF nodes[i].sampleHead \/ ~IsChild(i) THEN Under[i]
                                                                            ELSE << >>
    BY DEF TraceAtSampleRoots
  <2>1. Kept(nodes, i)
    BY DEF TreeInv, Heap
  <2>2. IsChild(i) <=> ChildIn(nodes, i)
    BY DEF IsChild, ChildIn
  <2> QED BY <2>1, <2>2 DEF Kept, Under
<1> QED BY <1>1, TreeInit, TreeStep, PTL DEF Spec

\* The metrics kept of any window of any trace are the footprint and the loads
\* of all the accesses under it, although they are computed from maps and
\* traces that move up the tree and are then emptied (Window.cpp:82-166,
\* 196-212).
THEOREM MetricsOfWindowCorrect == Spec => []MetricsOfWindow
<1>1. TreeInv => MetricsOfWindow
  <2> SUFFICES ASSUME TreeInv, NEW i \in DOMAIN nodes, nodes[i].metrics # NoMetrics
               PROVE  /\ nodes[i].metrics.fp = Cardinality(AddrsOf(Under[i]))
                      /\ nodes[i].metrics.size = Len(Under[i]) + ExtraOf(Under[i])
    BY DEF MetricsOfWindow
  <2>1. MetricsAre(nodes[i], Under[i])
    BY DEF TreeInv, Heap, Under
  <2> DEFINE c == Cardinality(AddrsOf(Under[i]))
             m == Len(Under[i]) + ExtraOf(Under[i])
  <2>2. nodes[i].metrics = [fp |-> c, size |-> m]
    BY <2>1 DEF MetricsAre
  <2> HIDE DEF c, m
  <2>3. nodes[i].metrics.fp = c /\ nodes[i].metrics.size = m
    BY <2>2
  <2> QED BY <2>3 DEF c, m
<1> QED BY <1>1, TreeInit, TreeStep, PTL DEF Spec

-----------------------------------------------------------------------------
(* The loop implements Samples.                                            *)

\* The positions from p to before q.
Span(p, q) == [k \in 1 .. q - p |-> p + k - 1]

LEMMA SpanFacts ==
  ASSUME NEW p \in Nat, NEW q \in Nat, p <= q
  PROVE  /\ Span(p, q) \in Seq(Nat) /\ Len(Span(p, q)) = q - p
         /\ DOMAIN Span(p, q) = 1 .. q - p
         /\ \A k \in 1 .. q - p : Span(p, q)[k] = p + k - 1
<1>1. q - p \in Nat /\ \A k \in 1 .. q - p : p + k - 1 \in Nat
  OBVIOUS
<1> DEFINE n == q - p
<1>2. n \in Nat /\ Span(p, q) = [k \in 1 .. n |-> p + k - 1] /\ \A k \in 1 .. n : p + k - 1 \in Nat
  BY <1>1 DEF Span
<1> HIDE DEF n
<1>3. /\ Span(p, q) \in Seq(Nat) /\ Len(Span(p, q)) = n
      /\ DOMAIN Span(p, q) = 1 .. n
      /\ \A k \in 1 .. n : Span(p, q)[k] = p + k - 1
  BY <1>2
<1> QED BY <1>3 DEF n

LEMMA SpanAppend ==
  ASSUME NEW p \in Nat, NEW q \in Nat, p <= q
  PROVE  Append(Span(p, q), q) = Span(p, q + 1)
<1> DEFINE s == Span(p, q)
           t == Span(p, q + 1)
           n == q - p
<1>1. /\ s \in Seq(Nat) /\ Len(s) = n /\ \A k \in 1 .. n : s[k] = p + k - 1
  BY SpanFacts
<1>2. /\ t \in Seq(Nat) /\ Len(t) = n + 1 /\ \A k \in 1 .. n + 1 : t[k] = p + k - 1
  <2>1. p <= q + 1 /\ (q + 1) - p = n + 1 /\ q + 1 \in Nat
    OBVIOUS
  <2> HIDE DEF n
  <2> QED BY <2>1, SpanFacts
<1>3. n \in Nat /\ p + (n + 1) - 1 = q
  OBVIOUS
<1> HIDE DEF s, t, n
<1>4. /\ Append(s, q) \in Seq(Nat) /\ Len(Append(s, q)) = n + 1
      /\ \A k \in 1 .. n + 1 : Append(s, q)[k] = t[k]
  <2>1. Append(s, q)[n + 1] = q /\ \A k \in 1 .. n : Append(s, q)[k] = s[k]
    BY <1>1, <1>3
  <2>2. \A k \in 1 .. n + 1 : k = n + 1 \/ k \in 1 .. n
    BY <1>3
  <2>3. \A k \in 1 .. n + 1 : Append(s, q)[k] = t[k]
    BY <1>1, <1>2, <1>3, <2>1, <2>2
  <2> QED BY <1>1, <2>3
<1>5. Append(s, q) = t
  BY <1>2, <1>3, <1>4, SeqEqual
<1> QED BY <1>5 DEF s, t

LEMMA SpanConcat ==
  ASSUME NEW p \in Nat, NEW q \in Nat, NEW r \in Nat, p <= q, q <= r
  PROVE  Span(p, q) \o Span(q, r) = Span(p, r)
<1>0. p <= r /\ r - p = (q - p) + (r - q)
  OBVIOUS
<1> DEFINE s == Span(p, q)
           t == Span(q, r)
           u == Span(p, r)
           m == q - p
           n == r - q
<1>1. s \in Seq(Nat) /\ Len(s) = m /\ \A k \in 1 .. m : s[k] = p + k - 1
  BY SpanFacts
<1>2. t \in Seq(Nat) /\ Len(t) = n /\ \A k \in 1 .. n : t[k] = q + k - 1
  BY SpanFacts
<1>3. u \in Seq(Nat) /\ Len(u) = m + n /\ \A k \in 1 .. m + n : u[k] = p + k - 1
  <2>1. r - p = m + n
    BY <1>0
  <2>2. u \in Seq(Nat) /\ Len(u) = r - p /\ \A k \in 1 .. r - p : u[k] = p + k - 1
    BY <1>0, SpanFacts
  <2> HIDE DEF m, n, u
  <2> QED BY ONLY <2>1, <2>2
<1>4. m \in Nat /\ n \in Nat /\ q = p + m
  OBVIOUS
<1> HIDE DEF s, t, u, m, n
<1>5. s \o t \in Seq(Nat) /\ Len(s \o t) = m + n
      /\ \A k \in 1 .. m + n : (s \o t)[k] = IF k <= m THEN s[k] ELSE t[k - m]
  BY ZenonT(60), <1>1, <1>2, ConcatProperties
<1>6. \A k \in 1 .. m + n : (s \o t)[k] = IF k <= m THEN s[k] ELSE t[k - m]
  BY <1>5
<1>7. \A k \in 1 .. m + n : (s \o t)[k] = u[k]
  <2> SUFFICES ASSUME NEW k \in 1 .. m + n PROVE (s \o t)[k] = u[k]
    OBVIOUS
  <2>1. u[k] = p + k - 1
    BY <1>3
  <2>2. CASE k <= m
    BY <1>1, <1>4, <1>6, <2>1, <2>2
  <2>3. CASE ~(k <= m)
    <3>1. k - m \in 1 .. n /\ q + (k - m) - 1 = p + k - 1
      BY <1>4, <2>3
    <3> QED BY <1>2, <1>6, <2>1, <2>3, <3>1
  <2> QED BY <2>2, <2>3
<1>8. s \o t = u
  BY <1>3, <1>4, <1>5, <1>7, SeqEqual
<1> QED BY <1>8 DEF s, t, u

\* The concatenation of the sequences in seqs, as FlattenSeq computes it.
IsFlat(f, seqs) ==
  f = [i \in 1 .. Len(seqs) |-> IF i = 1 THEN seqs[i] ELSE f[i - 1] \o seqs[i]]

LEMMA FlattenIsChoice ==
  ASSUME NEW seqs, Len(seqs) # 0
  PROVE  FlattenSeq(seqs) = (CHOOSE f : IsFlat(f, seqs))[Len(seqs)]
BY DEF FlattenSeq, IsFlat

\* Spans one behind the other, the i-th one up to before e[i].
AreSpans(seqs, n, p, e) ==
  /\ n \in Nat /\ n # 0 /\ Len(seqs) = n /\ p \in Nat /\ e \in [1 .. n -> Nat]
  /\ seqs[1] = Span(p, e[1]) /\ p <= e[1]
  /\ \A i \in 1 .. n : i # 1 => seqs[i] = Span(e[i - 1], e[i]) /\ e[i - 1] <= e[i]

LEMMA FlattenSpans ==
  ASSUME NEW seqs, NEW n, NEW p, NEW e, AreSpans(seqs, n, p, e)
  PROVE  FlattenSeq(seqs) = Span(p, e[n]) /\ p <= e[n]
<1>0. /\ n \in Nat /\ n # 0 /\ Len(seqs) = n /\ p \in Nat /\ e \in [1 .. n -> Nat]
      /\ seqs[1] = Span(p, e[1]) /\ p <= e[1]
      /\ \A i \in 1 .. n : i # 1 => seqs[i] = Span(e[i - 1], e[i]) /\ e[i - 1] <= e[i]
  BY DEF AreSpans
<1> USE <1>0
<1>1. \A i \in 1 .. n : e[i] \in Nat /\ (i # 1 => i - 1 \in 1 .. n /\ i - 1 \in Nat)
  OBVIOUS
<1>2. \A i \in 1 .. n : p <= e[i]
  <2> DEFINE P == {k \in Nat : k \in 1 .. n => p <= e[k]}
  <2>1. 0 \in P
    OBVIOUS
  <2>2. \A k \in Nat : k \in P => k + 1 \in P
    <3> SUFFICES ASSUME NEW k \in P, k + 1 \in 1 .. n PROVE p <= e[k + 1]
      OBVIOUS
    <3>1. CASE k = 0
      BY <3>1
    <3>2. CASE k # 0
      <4>1. k \in 1 .. n /\ k + 1 # 1 /\ (k + 1) - 1 = k
        BY <3>2
      <4>2. e[k] <= e[k + 1] /\ p <= e[k] /\ e[k] \in Nat /\ e[k + 1] \in Nat
        BY <4>1
      <4> QED BY <4>2
    <3> QED BY <3>1, <3>2
  <2>3. Nat \subseteq P
    <3> HIDE DEF P
    <3> QED BY <2>1, <2>2, NatSetInduction
  <2> QED BY <2>3
<1>3. ASSUME NEW f, IsFlat(f, seqs)
      PROVE  \A i \in 1 .. n : f[i] = Span(p, e[i])
  <2> DEFINE P == {k \in Nat : k \in 1 .. n => f[k] = Span(p, e[k])}
  <2>1. 0 \in P
    OBVIOUS
  <2>2. \A i \in 1 .. n : f[i] = IF i = 1 THEN seqs[i] ELSE f[i - 1] \o seqs[i]
    BY <1>3 DEF IsFlat
  <2>3. \A k \in Nat : k \in P => k + 1 \in P
    <3> SUFFICES ASSUME NEW k \in P, k + 1 \in 1 .. n PROVE f[k + 1] = Span(p, e[k + 1])
      OBVIOUS
    <3>1. CASE k = 0
      BY <2>2, <3>1
    <3>2. CASE k # 0
      <4>1. k \in 1 .. n /\ k + 1 # 1 /\ (k + 1) - 1 = k
        BY <3>2
      <4>2. f[k] = Span(p, e[k]) /\ f[k + 1] = f[k] \o seqs[k + 1]
        BY <2>2, <4>1
      <4>3. seqs[k + 1] = Span(e[k], e[k + 1]) /\ e[k] <= e[k + 1]
        BY <4>1
      <4>4. e[k] \in Nat /\ e[k + 1] \in Nat /\ p <= e[k]
        BY <1>2, <4>1
      <4>5. Span(p, e[k]) \o Span(e[k], e[k + 1]) = Span(p, e[k + 1])
        BY ONLY p \in Nat, <4>3, <4>4, SpanConcat
      <4> QED BY <4>2, <4>3, <4>5
    <3> QED BY <3>1, <3>2
  <2>4. Nat \subseteq P
    <3> HIDE DEF P
    <3> QED BY <2>1, <2>3, NatSetInduction
  <2> QED BY <2>4
<1>4. \E f : IsFlat(f, seqs)
  <2> DEFINE f == [i \in 1 .. n |-> Span(p, e[i])]
  <2>1. \A i \in 1 .. n : f[i] = IF i = 1 THEN seqs[i] ELSE f[i - 1] \o seqs[i]
    <3> SUFFICES ASSUME NEW i \in 1 .. n
                 PROVE  f[i] = IF i = 1 THEN seqs[i] ELSE f[i - 1] \o seqs[i]
      OBVIOUS
    <3>1. CASE i = 1
      BY <3>1
    <3>2. CASE i # 1
      <4>1. f[i] = Span(p, e[i]) /\ f[i - 1] = Span(p, e[i - 1])
        BY <1>1, <3>2
      <4>2. /\ seqs[i] = Span(e[i - 1], e[i]) /\ e[i - 1] <= e[i]
            /\ e[i - 1] \in Nat /\ e[i] \in Nat /\ p <= e[i - 1]
        BY <1>1, <1>2, <3>2
      <4> HIDE DEF f
      <4>3. Span(p, e[i - 1]) \o Span(e[i - 1], e[i]) = Span(p, e[i])
        BY ONLY p \in Nat, <4>2, SpanConcat
      <4> QED BY <3>2, <4>1, <4>2, <4>3
    <3> QED BY <3>1, <3>2
  <2>2. f = [i \in 1 .. n |-> f[i]]
    OBVIOUS
  <2> HIDE DEF f
  <2>3. f = [i \in 1 .. n |-> IF i = 1 THEN seqs[i] ELSE f[i - 1] \o seqs[i]]
    BY <2>1, <2>2
  <2> QED BY <2>3 DEF IsFlat
<1> DEFINE f == CHOOSE f : IsFlat(f, seqs)
<1>5. IsFlat(f, seqs)
  BY <1>4
<1> HIDE DEF f
<1>6. f[n] = Span(p, e[n])
  BY <1>3, <1>5
<1>7. n \in 1 .. n
  OBVIOUS
<1> QED BY <1>2, <1>6, <1>7, FlattenIsChoice DEF f

\* The accesses under a window are one behind the other in the trace.
LEMMA PositionsOf ==
  ASSUME NEW s \in Seq(Loads), \A k \in DOMAIN s : s[k].at = k,
         NEW h, Heap(h, s), NEW i \in DOMAIN h
  PROVE  /\ Positions(UnderIn(h)[i]) = Span(h[i].first, EndAfter(h, i))
         /\ h[i].first \in Nat /\ EndAfter(h, i) \in Nat /\ h[i].first <= EndAfter(h, i)
<1> DEFINE u == UnderIn(h)[i]
           f == h[i].first
           n == Len(u)
<1>1. f \in Nat /\ u \in Seq(Loads)
  BY HeapSize, HeapFacts
<1>2. \A k \in DOMAIN u : f + k - 1 \in DOMAIN s /\ u[k] = s[f + k - 1]
  BY DEF Heap, CoversFrom
<1>3. EndAfter(h, i) = f + n
  BY DEF EndAfter
<1> HIDE DEF u, f
<1>4. n \in Nat /\ DOMAIN u = 1 .. n
  BY <1>1
<1> HIDE DEF n
<1>5. \A k \in 1 .. n : u[k].at = f + k - 1
  BY <1>2, <1>4
<1>6. Positions(u) = [k \in 1 .. n |-> f + k - 1]
  BY <1>4, <1>5 DEF Positions
<1>7. (f + n) - f = n
  BY <1>1, <1>4
<1>8. Span(f, f + n) = [k \in 1 .. n |-> f + k - 1]
  BY <1>7 DEF Span
<1> QED BY <1>1, <1>3, <1>4, <1>6, <1>8 DEF u, f

RunOf(h, row) == FlattenSeq([k \in DOMAIN row |-> Positions(UnderIn(h)[row[k]])])

LEMMA TilesPositions ==
  ASSUME NEW s \in Seq(Loads), \A k \in DOMAIN s : s[k].at = k,
         NEW h, Heap(h, s), NEW row, NEW p, NEW q, Tiles(h, row, p, q)
  PROVE  RunOf(h, row) = Span(p, q) /\ p \in Nat /\ q \in Nat /\ p <= q
<1> DEFINE n == Len(row)
           seqs == [k \in DOMAIN row |-> Positions(UnderIn(h)[row[k]])]
           e == [k \in 1 .. n |-> EndAfter(h, row[k])]
<1>1. row \in Seq(DOMAIN h) /\ row # << >>
  BY DEF Tiles
<1>2. n \in Nat /\ n # 0 /\ DOMAIN row = 1 .. n /\ \A k \in 1 .. n : row[k] \in DOMAIN h
  BY <1>1
<1>3. /\ h[row[1]].first = p
      /\ \A k \in 1 .. n : EndAfter(h, row[k]) = IF k = n THEN q ELSE h[row[k + 1]].first
  BY <1>2 DEF Tiles
<1>4. \A k \in 1 .. n :
        /\ Positions(UnderIn(h)[row[k]]) = Span(h[row[k]].first, EndAfter(h, row[k]))
        /\ h[row[k]].first \in Nat /\ EndAfter(h, row[k]) \in Nat
        /\ h[row[k]].first <= EndAfter(h, row[k])
  BY <1>2, PositionsOf
<1> HIDE DEF n
<1>5. /\ \A k \in 1 .. n : seqs[k] = Span(h[row[k]].first, e[k]) /\ h[row[k]].first <= e[k]
      /\ Len(seqs) = n /\ e \in [1 .. n -> Nat]
  <2>1. \A k \in 1 .. n : seqs[k] = Span(h[row[k]].first, e[k]) /\ h[row[k]].first <= e[k]
    BY <1>2, <1>4
  <2>2. Len(seqs) = n
    BY <1>2
  <2>3. e \in [1 .. n -> Nat]
    BY <1>4
  <2> QED BY <2>1, <2>2, <2>3
<1>6. \A k \in 1 .. n : k # 1 => h[row[k]].first = e[k - 1]
  <2> SUFFICES ASSUME NEW k \in 1 .. n, k # 1 PROVE h[row[k]].first = e[k - 1]
    OBVIOUS
  <2>1. k - 1 \in 1 .. n /\ k - 1 # n /\ (k - 1) + 1 = k
    BY <1>2
  <2> QED BY <1>3, <2>1
<1>7. e[n] = q
  BY <1>2, <1>3
<1>8. 1 \in 1 .. n /\ n \in 1 .. n
  BY <1>2
<1>9. p \in Nat /\ q \in Nat
  BY <1>3, <1>4, <1>5, <1>7, <1>8
<1> HIDE DEF seqs, e
<1>10. seqs[1] = Span(p, e[1]) /\ p <= e[1]
  BY <1>3, <1>5, <1>8
<1>11. \A k \in 1 .. n : k # 1 => seqs[k] = Span(e[k - 1], e[k]) /\ e[k - 1] <= e[k]
  BY <1>5, <1>6
<1>12. FlattenSeq(seqs) = Span(p, e[n]) /\ p <= e[n]
  <2>1. n \in Nat /\ n # 0 /\ Len(seqs) = n /\ p \in Nat /\ e \in [1 .. n -> Nat]
    BY <1>2, <1>5, <1>9
  <2>2. AreSpans(seqs, n, p, e)
    BY ONLY <1>10, <1>11, <2>1 DEF AreSpans
  <2> QED BY <2>2, FlattenSpans
<1> QED BY <1>7, <1>9, <1>12 DEF seqs, RunOf

\* The windows of the sample that is read are the accesses from its start.
LEMMA FillingPositions ==
  ASSUME NEW s \in Seq(Loads), \A k \in DOMAIN s : s[k].at = k,
         NEW h, Heap(h, s), NEW ws \in Seq(DOMAIN h), NEW w, NEW fs, NEW p,
         Filling(h, ws, w, fs, p, Len(s))
  PROVE  RunOf(h, Append(ws, w)) = Span(p, Len(s) + 1) /\ p \in Nat /\ p <= Len(s) + 1
<1> DEFINE row == Append(ws, w)
           q == Len(s) + 1
<1>1. /\ Tiled(h, ws, p, h[w].first) /\ w \in DOMAIN h /\ Top(h, w) /\ w \notin ToSet(ws)
      /\ EndAfter(h, w) = q
  BY DEF Filling
<1>2. Tiles(h, row, p, q)
  BY <1>1, AddedTile
<1> HIDE DEF row, q
<1>3. RunOf(h, row) = Span(p, q) /\ p \in Nat /\ p <= q
  BY <1>2, TilesPositions
<1> QED BY <1>3 DEF row, q

\* A sample starts where the last one before it ends.
StartAfter(h, fs) == IF fs = << >> THEN 1 ELSE EndAfter(h, fs[Len(fs)])

LEMMA StartOfTiled ==
  ASSUME NEW h, NEW S, NEW fs \in Seq(S), NEW p, Tiled(h, fs, 1, p)
  PROVE  p = StartAfter(h, fs)
<1>1. CASE fs = << >>
  BY <1>1 DEF Tiled, StartAfter
<1>2. CASE fs # << >>
  <2>1. Len(fs) \in DOMAIN fs
    BY <1>2
  <2>2. EndAfter(h, fs[Len(fs)]) = p
    BY <1>2, <2>1 DEF Tiled, Tiles
  <2> QED BY <1>2, <2>2 DEF StartAfter
<1> QED BY <1>1, <1>2

\* The state of Samples that a state of the loop stands for.
Ids      == [i \in DOMAIN input |-> input[i].sample]
Complete == [k \in DOMAIN forest |-> Positions(UnderIn(nodes)[forest[k]])]
Current  == IF window = NULL THEN << >> ELSE RunOf(nodes, Append(windows, window))
IsOpen   == phase \in {"reading", "crashed"}

LEMMA MapInit ==
  ASSUME Ids = << >>, Complete = << >>, Current = << >>, IsOpen = TRUE
  PROVE  SamplesInstance!TraceInit
BY DEF SamplesInstance!TraceInit, Ids, Complete, Current, IsOpen, Under, RunOf, PositionsUnder

LEMMA MapExtend ==
  ASSUME NEW id \in SampleIDs, Ids = << >> \/ Ids[Len(Ids)] = id,
         IsOpen, Len(Ids) < MaxAccesses, Ids' = Append(Ids, id), IsOpen' = IsOpen,
         Current' = Append(Current, Len(Ids) + 1), Complete' = Complete
  PROVE  SamplesInstance!TraceNext
BY DEF SamplesInstance!TraceNext, SamplesInstance!Extend, SamplesInstance!CutHere,
       SamplesInstance!IsNext, Ids, Complete, Current, IsOpen, Under, RunOf, PositionsUnder

LEMMA MapCut ==
  ASSUME NEW id \in SampleIDs, Ids # << >>, Ids[Len(Ids)] # id,
         IsOpen, Len(Ids) < MaxAccesses, Ids' = Append(Ids, id), IsOpen' = IsOpen,
         Complete' = Append(Complete, Current), Current' = <<Len(Ids) + 1>>
  PROVE  SamplesInstance!TraceNext
BY DEF SamplesInstance!TraceNext, SamplesInstance!Cut, SamplesInstance!CutHere,
       SamplesInstance!IsNext, Ids, Complete, Current, IsOpen, Under, RunOf, PositionsUnder

LEMMA MapEnd ==
  ASSUME IsOpen, Ids # << >>, IsOpen' = FALSE,
         Complete' = Append(Complete, Current), Current' = << >>, Ids' = Ids
  PROVE  SamplesInstance!TraceNext
BY DEF SamplesInstance!TraceNext, SamplesInstance!End, Ids, Complete, Current, IsOpen,
       Under, RunOf, PositionsUnder

LEMMA MapStutter ==
  ASSUME Ids' = Ids, Complete' = Complete, Current' = Current, IsOpen' = IsOpen
  PROVE  UNCHANGED SamplesInstance!traceVars
BY DEF SamplesInstance!traceVars, Ids, Complete, Current, IsOpen, Under, RunOf, PositionsUnder

\* The sample that is read goes from the end of the last complete one to the
\* last access.
CurrentSpan ==
  /\ Current = Span(StartAfter(nodes, forest), Len(input) + 1)
  /\ StartAfter(nodes, forest) \in Nat
  /\ StartAfter(nodes, forest) <= Len(input) + 1
  /\ Len(input) \in Nat
  /\ window # NULL => input # << >>

LEMMA CurrentIs == TreeInv /\ Open(phase) => CurrentSpan
<1> SUFFICES ASSUME TreeInv, Open(phase) PROVE CurrentSpan
  OBVIOUS
<1>1. /\ input \in Seq(Access) /\ \A k \in DOMAIN input : input[k].at = k
      /\ Heap(nodes, input)
      /\ windows \in Seq(DOMAIN nodes) /\ forest \in Seq(DOMAIN nodes)
  BY DEF TreeInv
<1>2. input \in Seq(Loads) /\ Len(input) \in Nat
  BY <1>1, AccessIsLoad
<1>3. CASE window = NULL
  <2>1. forest = << >> /\ input = << >>
    BY <1>3 DEF TreeInv, Started
  <2>2. Current = << >> /\ StartAfter(nodes, forest) = 1 /\ Len(input) = 0
    BY <1>3, <2>1 DEF Current, StartAfter
  <2>3. Span(1, 0 + 1) = << >>
    BY DEF Span
  <2> QED BY <1>3, <2>2, <2>3 DEF CurrentSpan
<1>4. CASE window # NULL
  <2>1. PICK p \in Nat : Filling(nodes, windows, window, forest, p, Len(input))
    BY <1>4 DEF TreeInv, Started
  <2>2. p = StartAfter(nodes, forest)
    BY <1>1, <2>1, StartOfTiled DEF Filling
  <2>3. RunOf(nodes, Append(windows, window)) = Span(p, Len(input) + 1) /\ p <= Len(input) + 1
    BY <1>1, <1>2, <2>1, FillingPositions
  <2>4. input # << >>
    <3>1. window \in DOMAIN nodes
      BY <2>1 DEF Filling
    <3>2. UnderIn(nodes)[window] # << >> /\ UnderIn(nodes)[window] \in Seq(Loads)
      BY <1>1, <1>2, <3>1, HeapSize DEF Heap, CoversFrom
    <3>3. 1 \in DOMAIN UnderIn(nodes)[window]
      BY <3>2
    <3>4. nodes[window].first + 1 - 1 \in DOMAIN input
      BY <1>1, <3>1, <3>3 DEF Heap, CoversFrom
    <3> QED BY <3>4
  <2>5. Current = Span(p, Len(input) + 1)
    BY <1>4, <2>3 DEF Current
  <2> QED BY <1>2, <2>2, <2>3, <2>4, <2>5 DEF CurrentSpan
<1> QED BY <1>3, <1>4

LEMMA NextCurrentIs ==
  ASSUME TreeInv', Open(phase)'
  PROVE  CurrentSpan'
<1>1. TreeInv' /\ Open(phase)' => CurrentSpan'
  BY CurrentIs, PTL
<1> QED BY <1>1

LEMMA StartKept ==
  ASSUME TreeInv, SameRoots
  PROVE  StartAfter(nodes', forest) = StartAfter(nodes, forest)
<1>1. forest \in Seq(DOMAIN nodes)
  BY DEF TreeInv
<1>2. CASE forest = << >>
  BY <1>2 DEF StartAfter
<1>3. CASE forest # << >>
  <2>1. Len(forest) \in DOMAIN forest
    BY <1>1, <1>3
  <2> QED BY <2>1 DEF SameRoots, StartAfter, EndAfter
<1> QED BY <1>2, <1>3

LEMMA CompleteKept ==
  ASSUME SameRoots, forest' = forest
  PROVE  Complete' = Complete
BY DEF SameRoots, Complete

\* One more sample is complete.
LEMMA SampleCompleted ==
  ASSUME TreeInv, SameRoots, Open(phase), NEW r, forest' = Append(forest, r),
         NEW s \in Seq(Loads), \A k \in DOMAIN s : s[k].at = k, Heap(nodes', s),
         forest' \in Seq(DOMAIN nodes'), Tiles(nodes', forest', 1, Len(input) + 1)
  PROVE  Complete' = Append(Complete, Current)
<1> DEFINE n == Len(forest)
           g == nodes'
           new == forest'
<1>1. forest \in Seq(DOMAIN nodes)
  BY DEF TreeInv
<1>2. /\ n \in Nat /\ DOMAIN forest = 1 .. n /\ DOMAIN new = 1 .. n + 1 /\ Len(new) = n + 1
      /\ new[n + 1] = r /\ \A k \in 1 .. n : new[k] = forest[k]
      /\ (forest = << >> <=> n = 0)
  BY <1>1
<1> HIDE DEF new, g, n
<1>3. r \in DOMAIN g
  BY <1>2 DEF new, g
<1>4. Tiles(g, new, 1, Len(input) + 1)
  BY DEF g, new
<1>5. EndAfter(g, r) = Len(input) + 1
  BY <1>2, <1>4 DEF Tiles
<1>6. g[r].first = StartAfter(g, forest)
  <2>1. CASE n = 0
    BY <1>2, <1>4, <2>1 DEF Tiles, StartAfter
  <2>2. CASE n # 0
    <3>1. n \in 1 .. n + 1 /\ n \in 1 .. n /\ n # n + 1
      BY <1>2, <2>2
    <3>2. EndAfter(g, new[n]) = g[new[n + 1]].first
      BY <1>2, <1>4, <3>1 DEF Tiles
    <3>3. StartAfter(g, forest) = EndAfter(g, forest[n])
      BY <1>2, <2>2 DEF StartAfter, n
    <3> QED BY <1>2, <3>1, <3>2, <3>3
  <2> QED BY <2>1, <2>2
<1>7. StartAfter(g, forest) = StartAfter(nodes, forest)
  BY StartKept DEF g
<1>8. Positions(UnderIn(g)[r]) = Span(g[r].first, EndAfter(g, r))
  BY <1>3, PositionsOf DEF g
<1>9. Current = Span(StartAfter(nodes, forest), Len(input) + 1)
  BY CurrentIs DEF CurrentSpan
<1>10. Positions(UnderIn(g)[r]) = Current
  BY <1>5, <1>6, <1>7, <1>8, <1>9
<1>11. Complete' = [k \in 1 .. n + 1 |-> Positions(UnderIn(g)[new[k]])]
  BY <1>2 DEF Complete, g, new
<1>12. Complete = [k \in 1 .. n |-> Positions(UnderIn(nodes)[forest[k]])]
  BY <1>2 DEF Complete
<1>13. \A k \in 1 .. n : Positions(UnderIn(g)[new[k]]) = Positions(UnderIn(nodes)[forest[k]])
  BY <1>2 DEF SameRoots, g
<1>14. Append(Complete, Current) = [k \in 1 .. n + 1 |-> IF k = n + 1 THEN Current ELSE Complete[k]]
  <2> DEFINE c == Complete
             d == Current
  <2>1. DOMAIN c = 1 .. n /\ n \in Nat /\ c = [k \in 1 .. n |-> c[k]]
    BY <1>2, <1>12
  <2> HIDE DEF c, d
  <2>2. Len(c) = n
    BY <2>1
  <2>3. Append(c, d) = [k \in 1 .. n + 1 |-> IF k = n + 1 THEN d ELSE c[k]]
    BY <2>1, <2>2
  <2> QED BY <2>3 DEF c, d
<1>15. \A k \in 1 .. n + 1 :
         Positions(UnderIn(g)[new[k]]) = IF k = n + 1 THEN Current ELSE Complete[k]
  <2> SUFFICES ASSUME NEW k \in 1 .. n + 1
               PROVE  Positions(UnderIn(g)[new[k]]) = IF k = n + 1 THEN Current ELSE Complete[k]
    OBVIOUS
  <2>1. CASE k = n + 1
    BY <1>2, <1>10, <2>1
  <2>2. CASE k # n + 1
    <3>1. k \in 1 .. n
      BY <1>2, <2>2
    <3>2. Complete[k] = Positions(UnderIn(nodes)[forest[k]])
      BY <1>12, <3>1
    <3> QED BY <1>13, <2>2, <3>1, <3>2
  <2> QED BY <2>1, <2>2
<1> QED BY ONLY <1>11, <1>14, <1>15

\* The access that is read next, as Samples sees it.
LEMMA NextID ==
  ASSUME TreeInv, NEW access \in Access, IsAccess(access)
  PROVE  /\ Ids' = Append(Ids, access.sample) /\ access.sample \in SampleIDs
         /\ Len(Ids) = Len(input) /\ Len(Ids) < MaxAccesses
         /\ Ids = << >> <=> input = << >>
         /\ input # << >> => Ids[Len(Ids)] = Last(input).sample
         /\ IsOpen /\ IsOpen' = IsOpen /\ Open(phase) /\ Open(phase)'
         /\ Len(input) \in Nat /\ Len(input') = Len(input) + 1
<1>1. /\ input \in Seq(Access)
      /\ access.at = Len(input) + 1 /\ input' = Append(input, access)
      /\ phase = "reading" /\ phase' = phase
  BY DEF TreeInv, IsAccess
<1> DEFINE n == Len(input)
<1>2. /\ n \in Nat /\ DOMAIN input = 1 .. n /\ (input = << >> <=> n = 0)
      /\ DOMAIN input' = 1 .. n + 1 /\ Len(input') = n + 1
      /\ input'[n + 1] = access /\ \A k \in 1 .. n : input'[k] = input[k]
  BY <1>1
<1>3. access.at <= MaxAccesses /\ access.sample \in SampleIDs /\ MaxAccesses \in Nat
  BY ParametersAssumption DEF Access, ParametersAssumption
<1>4. Last(input) = input[n]
  BY DEF Last
<1>5. access.at = n + 1
  BY <1>1
<1> HIDE DEF n
<1>6. Ids = [k \in 1 .. n |-> input[k].sample]
  BY <1>2 DEF Ids
<1>7. Ids' = [k \in 1 .. n + 1 |-> input'[k].sample]
  BY <1>2 DEF Ids
<1>8. Len(Ids) = n /\ (Ids = << >> <=> n = 0)
  <2> DEFINE c == Ids
  <2>1. c = [k \in 1 .. n |-> input[k].sample]
    BY <1>6
  <2> HIDE DEF c
  <2>2. Len(c) = n
    BY <1>2, <2>1
  <2>3. c = << >> <=> n = 0
    BY <1>2, <2>1
  <2> QED BY <2>2, <2>3 DEF c
<1>9. Append(Ids, access.sample) =
        [k \in 1 .. n + 1 |-> IF k = n + 1 THEN access.sample ELSE Ids[k]]
  <2> DEFINE c == Ids
             d == access.sample
  <2>1. Len(c) = n /\ DOMAIN c = 1 .. n /\ c = [k \in 1 .. n |-> c[k]]
    BY <1>6, <1>8
  <2> HIDE DEF c, d
  <2>2. Append(c, d) = [k \in 1 .. n + 1 |-> IF k = n + 1 THEN d ELSE c[k]]
    BY <1>2, <2>1
  <2> QED BY <2>2 DEF c, d
<1>10. \A k \in 1 .. n + 1 :
         input'[k].sample = IF k = n + 1 THEN access.sample ELSE Ids[k]
  <2>1. \A k \in 1 .. n + 1 : k = n + 1 \/ k \in 1 .. n
    BY <1>2
  <2> QED BY <1>2, <1>6, <2>1
<1>11. Ids' = Append(Ids, access.sample)
  BY ONLY <1>7, <1>9, <1>10
<1>12. input # << >> => Ids[n] = Last(input).sample
  BY <1>2, <1>4, <1>6
<1>13. n < MaxAccesses
  BY <1>2, <1>3, <1>5
<1>14. IsOpen /\ IsOpen' = IsOpen /\ Open(phase) /\ Open(phase)'
  BY <1>1 DEF IsOpen, Open
<1> QED BY <1>2, <1>3, <1>8, <1>11, <1>12, <1>13, <1>14 DEF n

\* An access of the same sample.
LEMMA SameSampleMaps ==
  ASSUME TreeInv, TreeInv', SameRoots, NEW access \in Access, SameSample(access),
         forest' = forest
  PROVE  SamplesInstance!TraceNext
<1>1. IsAccess(access) /\ ~NewSample(access)
  BY DEF SameSample
<1> DEFINE p == StartAfter(nodes, forest)
           n == Len(input)
           id == access.sample
<1>2. /\ Ids' = Append(Ids, id) /\ id \in SampleIDs
      /\ Len(Ids) = n /\ Len(Ids) < MaxAccesses
      /\ IsOpen /\ IsOpen' = IsOpen /\ Open(phase) /\ Open(phase)'
      /\ n \in Nat /\ Len(input') = n + 1
  BY <1>1, NextID
<1>3. Ids = << >> \/ Ids[Len(Ids)] = id
  BY <1>1, NextID DEF NewSample
<1>4. Current = Span(p, n + 1) /\ p \in Nat /\ p <= n + 1
  BY <1>2, CurrentIs DEF CurrentSpan
<1>5. Current' = Span(p, (n + 1) + 1)
  <2>1. CurrentSpan'
    BY <1>2, NextCurrentIs
  <2>2. Current' = Span(StartAfter(nodes', forest'), Len(input') + 1)
    BY <2>1 DEF CurrentSpan
  <2>3. StartAfter(nodes', forest') = p
    BY StartKept
  <2> QED BY <1>2, <2>2, <2>3
<1> HIDE DEF p, n, id
<1>6. Current' = Append(Current, Len(Ids) + 1)
  <2>1. n + 1 \in Nat
    BY <1>2
  <2>2. Append(Span(p, n + 1), n + 1) = Span(p, (n + 1) + 1)
    BY <1>4, <2>1, SpanAppend
  <2> QED BY <1>2, <1>4, <1>5, <2>2
<1>7. Complete' = Complete
  BY CompleteKept
<1> QED BY ONLY <1>2, <1>3, <1>6, <1>7, MapExtend

LEMMA CloseSampleMaps ==
  ASSUME TreeInv, TreeInv', SameRoots, NEW access \in Access, CloseSample(access)
  PROVE  SamplesInstance!TraceNext
<1> DEFINE h == SampleTree.heap
           r == SampleTree.root
           n == Len(input)
           id == access.sample
<1>1. /\ NewSample(access) /\ IsAccess(access)
      /\ nodes' = Append(h, NewWindow(access)) /\ window' = Len(nodes')
      /\ windows' = << >> /\ forest' = Append(forest, r)
  BY DEF CloseSample
<1> HIDE DEF h, r
<1>2. /\ Ids' = Append(Ids, id) /\ id \in SampleIDs
      /\ Len(Ids) = n /\ Len(Ids) < MaxAccesses
      /\ IsOpen /\ IsOpen' = IsOpen /\ Open(phase) /\ Open(phase)'
      /\ n \in Nat /\ Len(input') = n + 1
  BY <1>1, NextID
<1>3. Ids # << >> /\ Ids[Len(Ids)] # id
  BY <1>1, NextID DEF NewSample
<1>4. /\ input' \in Seq(Access) /\ \A k \in DOMAIN input' : input'[k].at = k
      /\ Heap(nodes', input') /\ forest' \in Seq(DOMAIN nodes')
      /\ windows' \in Seq(DOMAIN nodes')
  BY DEF TreeInv
<1>5. input' \in Seq(Loads)
  BY <1>4, AccessIsLoad
<1>6. access.at = n + 1
  BY <1>1 DEF IsAccess
<1> HIDE DEF n, id
<1>7. window' # NULL
  <2>1. CASE window' = NULL
    <3>1. forest' = << >>
      BY <1>2, <2>1 DEF TreeInv, Started
    <3>2. forest \in Seq(DOMAIN nodes)
      BY DEF TreeInv
    <3>3. Append(forest, r) # << >>
      BY <3>2
    <3> QED BY <1>1, <3>1, <3>3
  <2> QED BY <2>1
<1>8. PICK q \in Nat : Filling(nodes', windows', window', forest', q, Len(input'))
  BY <1>2, <1>7 DEF TreeInv, Started
<1>9. q = n + 1
  <2>1. Tiled(nodes', windows', q, nodes'[window'].first)
    BY <1>8 DEF Filling
  <2>2. nodes'[window'].first = q
    BY <1>1, <2>1 DEF Tiled
  <2>3. nodes'[Len(nodes')] = NewWindow(access)
    <3>1. /\ input \in Seq(Access) /\ Heap(nodes, input)
          /\ windows \in Seq(DOMAIN nodes) /\ forest \in Seq(DOMAIN nodes)
      BY DEF TreeInv
    <3>2. window # NULL
      BY <1>1, <1>2 DEF NewSample, TreeInv, Started
    <3>3. PICK p \in Nat : Filling(nodes, windows, window, forest, p, Len(input))
      BY <1>2, <3>2 DEF TreeInv, Started
    <3>4. input \in Seq(Loads)
      BY <3>1, AccessIsLoad
    <3>5. Heap(h, input)
      BY <3>1, <3>3, <3>4, SampleClosed DEF h, r
    <3>6. Len(h) \in Nat /\ DOMAIN h = 1 .. Len(h)
      BY <3>4, <3>5, HeapSize
    <3> QED BY <1>1, <3>6
  <2>4. NewWindow(access).first = access.at
    BY DEF NewWindow
  <2> QED BY <1>1, <1>6, <2>2, <2>3, <2>4
<1>10. Tiles(nodes', forest', 1, n + 1)
  <2>1. Tiled(nodes', forest', 1, q)
    BY <1>8 DEF Filling
  <2>2. forest' # << >>
    <3>1. forest \in Seq(DOMAIN nodes)
      BY DEF TreeInv
    <3> QED BY <1>1, <3>1
  <2> QED BY <1>9, <2>1, <2>2 DEF Tiled
<1>11. Complete' = Append(Complete, Current)
  BY <1>1, <1>2, <1>4, <1>5, <1>10, SampleCompleted DEF n
<1>12. Current' = <<Len(Ids) + 1>>
  <2>1. CurrentSpan'
    BY <1>2, NextCurrentIs
  <2>2. Current' = Span(StartAfter(nodes', forest'), Len(input') + 1)
    BY <2>1 DEF CurrentSpan
  <2>3. StartAfter(nodes', forest') = n + 1
    BY <1>4, <1>8, <1>9, StartOfTiled DEF Filling
  <2>4. Span(n + 1, (n + 1) + 1) = <<n + 1>>
    <3>1. ((n + 1) + 1) - (n + 1) = 1 /\ (n + 1) + 1 - 1 = n + 1
      BY <1>2
    <3>2. Span(n + 1, (n + 1) + 1) = [k \in 1 .. 1 |-> (n + 1) + k - 1]
      BY <3>1 DEF Span
    <3>3. \A k \in 1 .. 1 : (n + 1) + k - 1 = n + 1
      BY <1>2
    <3> QED BY <3>2, <3>3
  <2> QED BY <1>2, <2>2, <2>3, <2>4
<1> QED BY ONLY <1>2, <1>3, <1>11, <1>12, MapCut

LEMMA EndOfTraceMaps ==
  ASSUME TreeInv, TreeInv', SameRoots, EndOfTrace
  PROVE  SamplesInstance!TraceNext
<1> DEFINE r == SampleTree.root
<1>1. /\ phase = "reading" /\ phase' = "forest" /\ window # NULL /\ window' = NULL
      /\ forest' = Append(forest, r) /\ input' = input
  BY DEF EndOfTrace
<1> HIDE DEF r
<1>2. /\ input \in Seq(Access) /\ \A k \in DOMAIN input : input[k].at = k
      /\ Heap(nodes', input') /\ forest' \in Seq(DOMAIN nodes')
      /\ Tiles(nodes', forest', 1, Len(input') + 1)
  BY <1>1 DEF TreeInv
<1>3. input \in Seq(Loads)
  BY <1>2, AccessIsLoad
<1>4. Open(phase)
  BY <1>1 DEF Open
<1>5. Complete' = Append(Complete, Current)
  BY <1>1, <1>2, <1>3, <1>4, SampleCompleted
<1>6. IsOpen /\ IsOpen' = FALSE
  BY <1>1 DEF IsOpen
<1>7. Current' = << >>
  BY <1>1 DEF Current
<1>8. Ids # << >>
  <2>1. input # << >>
    BY <1>1, <1>4, CurrentIs DEF CurrentSpan
  <2>2. 1 \in DOMAIN input
    BY <1>2, <2>1
  <2>3. 1 \in DOMAIN Ids
    BY <2>2 DEF Ids
  <2> QED BY <2>3
<1>9. Ids' = Ids
  BY <1>1 DEF Ids
<1> QED BY ONLY <1>5, <1>6, <1>7, <1>8, <1>9, MapEnd

\* A step that reads nothing.
LEMMA OtherStepMaps ==
  ASSUME SameRoots, input' = input, forest' = forest, IsOpen' = IsOpen,
         Current' = Current
  PROVE  UNCHANGED SamplesInstance!traceVars
<1>1. Ids' = Ids
  BY DEF Ids
<1>2. Complete' = Complete
  BY CompleteKept
<1> QED BY <1>1, <1>2, MapStutter

LEMMA StepMaps ==
  ASSUME TreeInv, TreeInv', SameRoots, [Next]_vars
  PROVE  [SamplesInstance!TraceNext]_SamplesInstance!traceVars
<1>1. ASSUME NEW access \in Access, FirstWindow(access)
      PROVE  SamplesInstance!TraceNext
  BY <1>1, SameSampleMaps DEF FirstWindow
<1>2. ASSUME NEW access \in Access, ExtendWindow(access)
      PROVE  SamplesInstance!TraceNext
  BY <1>2, SameSampleMaps DEF ExtendWindow
<1>3. ASSUME NEW access \in Access, NextWindow(access)
      PROVE  SamplesInstance!TraceNext
  BY <1>3, SameSampleMaps DEF NextWindow
<1>4. ASSUME NEW access \in Access, CloseSample(access)
      PROVE  SamplesInstance!TraceNext
  BY <1>4, CloseSampleMaps
<1>5. CASE EndOfTrace
  BY <1>5, EndOfTraceMaps
<1>6. CASE EmptyTrace
  <2>1. /\ input' = input /\ forest' = forest /\ nodes' = nodes /\ windows' = windows
        /\ window' = window /\ phase = "reading" /\ phase' = "crashed"
    BY <1>6 DEF EmptyTrace, windowVars
  <2>2. Current' = Current /\ IsOpen' = IsOpen
    BY <2>1 DEF Current, IsOpen
  <2> QED BY <2>1, <2>2, OtherStepMaps
<1>7. CASE BuildForest
  <2>1. /\ input' = input /\ forest' = forest /\ window' = window
        /\ phase = "forest" /\ phase' = "printing"
    BY <1>7 DEF BuildForest
  <2>2. window = NULL
    BY <2>1 DEF TreeInv, Open, Closed
  <2>3. Current' = Current /\ IsOpen' = IsOpen
    BY <2>1, <2>2 DEF Current, IsOpen
  <2> QED BY <2>1, <2>3, OtherStepMaps
<1>8. CASE PrintNode
  <2>1. /\ input' = input /\ forest' = forest /\ window' = window
        /\ phase = "printing" /\ phase' = phase
    BY <1>8 DEF PrintNode
  <2>2. window = NULL
    BY <2>1 DEF TreeInv, Open, Closed
  <2>3. Current' = Current /\ IsOpen' = IsOpen
    BY <2>1, <2>2 DEF Current, IsOpen
  <2> QED BY <2>1, <2>3, OtherStepMaps
<1>9. CASE Printed
  <2>1. /\ input' = input /\ forest' = forest /\ nodes' = nodes /\ windows' = windows
        /\ window' = window /\ phase = "printing" /\ phase' = "done"
    BY <1>9 DEF Printed, windowVars
  <2>2. Current' = Current /\ IsOpen' = IsOpen
    BY <2>1 DEF Current, IsOpen
  <2> QED BY <2>1, <2>2, OtherStepMaps
<1>10. CASE UNCHANGED vars
  <2>1. /\ input' = input /\ forest' = forest /\ nodes' = nodes /\ windows' = windows
        /\ window' = window /\ phase' = phase
    BY <1>10 DEF vars, windowVars
  <2>2. Current' = Current /\ IsOpen' = IsOpen
    BY <2>1 DEF Current, IsOpen
  <2> QED BY <2>1, <2>2, OtherStepMaps
<1> QED BY <1>1, <1>2, <1>3, <1>4, <1>5, <1>6, <1>7, <1>8, <1>9, <1>10 DEF Next

\* The loop does what Samples promises, for every trace: the trees of the
\* forest are the samples, with every access once and in order, and the last
\* sample is not lost (main.cpp:841-1052).  So Partition holds of them.
THEOREM SamplesSpecCorrect == Spec => SamplesSpec
<1>1. Init => SamplesInstance!TraceInit
  <2> SUFFICES ASSUME Init PROVE SamplesInstance!TraceInit
    OBVIOUS
  <2>1. input = << >> /\ forest = << >> /\ window = NULL /\ phase = "reading"
    BY DEF Init
  <2>2. Ids = << >> /\ Complete = << >>
    BY <2>1 DEF Ids, Complete
  <2>3. Current = << >> /\ IsOpen = TRUE
    BY <2>1 DEF Current, IsOpen
  <2> QED BY <2>2, <2>3, MapInit
<1>2. TreeInv /\ [Next]_vars => TreeInv' /\ SameRoots
  BY TreeStep
<1>3. TreeInv /\ TreeInv' /\ SameRoots /\ [Next]_vars
        => [SamplesInstance!TraceNext]_SamplesInstance!traceVars
  BY StepMaps
<1> QED BY <1>1, <1>2, <1>3, TreeInit, PTL
        DEF Spec, SamplesSpec, SamplesInstance!TraceSpec

-----------------------------------------------------------------------------
(* Every window has one parent, except the roots.                          *)

OneParent(h) ==
  /\ \A i, j, k \in DOMAIN h :
       i \in {h[j].left, h[j].right} /\ i \in {h[k].left, h[k].right} => j = k
  /\ \A j \in DOMAIN h : h[j].left \in DOMAIN h => h[j].right # h[j].left

\* The windows of h form trees; their roots are in R.
Trees(h, R) == OneParent(h) /\ \A i \in DOMAIN h : ChildIn(h, i) \/ i \in R

LEMMA TreesMore ==
  ASSUME NEW h, NEW R, NEW Q, Trees(h, R), R \cap DOMAIN h \subseteq Q
  PROVE  Trees(h, Q)
BY DEF Trees

\* Changes that leave the children of every window what they are.
LEMMA TreesSame ==
  ASSUME NEW h, NEW g, DOMAIN g = DOMAIN h, NEW R, Trees(h, R),
         \A i \in DOMAIN h : g[i].left = h[i].left /\ g[i].right = h[i].right
  PROVE  Trees(g, R)
<1>1. OneParent(g)
  BY DEF Trees, OneParent
<1>2. \A i \in DOMAIN h : ChildIn(h, i) => ChildIn(g, i)
  BY DEF ChildIn
<1> QED BY <1>1, <1>2 DEF Trees

LEMMA ToSetAppend ==
  ASSUME NEW S, NEW row \in Seq(S), NEW e
  PROVE  ToSet(Append(row, e)) = ToSet(row) \cup {e}
<1> DEFINE new == Append(row, e)
           n == Len(row)
<1>1. /\ n \in Nat /\ DOMAIN row = 1 .. n /\ DOMAIN new = 1 .. n + 1
      /\ new[n + 1] = e /\ \A k \in 1 .. n : new[k] = row[k]
  OBVIOUS
<1>2. ToSet(new) = {new[k] : k \in DOMAIN new} /\ ToSet(row) = {row[k] : k \in DOMAIN row}
  BY DEF ToSet
<1> HIDE DEF new, n
<1>3. 1 .. n + 1 = (1 .. n) \cup {n + 1}
  BY <1>1
<1>4. ToSet(new) = ToSet(row) \cup {e}
  BY <1>1, <1>2, <1>3
<1> QED BY <1>4 DEF new

\* A new window has no children.
LEMMA TreesAdded ==
  ASSUME NEW h \in Seq(HeapWindow), Descending(h), NEW R, Trees(h, R),
         NEW e, NEW g, g = Added(h, e)
  PROVE  Trees(g, R \cup {Len(g)})
<1> DEFINE n == Len(h)
           v == NewWindow(e)
<1>1. /\ n \in Nat /\ DOMAIN h = 1 .. n /\ DOMAIN g = 1 .. n + 1 /\ Len(g) = n + 1
      /\ g[n + 1] = v /\ \A i \in 1 .. n : g[i] = h[i]
  BY DEF Added
<1>2. v.left = 0 /\ v.right = 0
  BY DEF NewWindow, NULL
<1>3. \A j \in DOMAIN h : h[j].left < j /\ h[j].right < j /\ h[j].left \in Nat /\ h[j].right \in Nat
  BY HeapFacts DEF Descending
<1> HIDE DEF n, v
<1>4. ASSUME NEW j \in DOMAIN g, NEW i \in DOMAIN g, i \in {g[j].left, g[j].right}
      PROVE  j \in DOMAIN h /\ i \in DOMAIN h /\ g[j] = h[j]
  <2>1. j # n + 1
    BY <1>1, <1>2, <1>4
  <2>2. j \in 1 .. n
    BY <1>1, <2>1
  <2>3. g[j] = h[j] /\ i < j
    BY <1>1, <1>3, <1>4, <2>2
  <2> QED BY <1>1, <2>2, <2>3
<1>5. OneParent(g)
  <2>1. ASSUME NEW i \in DOMAIN g, NEW j \in DOMAIN g, NEW k \in DOMAIN g,
               i \in {g[j].left, g[j].right}, i \in {g[k].left, g[k].right}
        PROVE  j = k
    BY <1>4, <2>1 DEF Trees, OneParent
  <2>2. ASSUME NEW j \in DOMAIN g, g[j].left \in DOMAIN g PROVE g[j].right # g[j].left
    BY <1>4, <2>2 DEF Trees, OneParent
  <2> QED BY <2>1, <2>2 DEF OneParent
<1>6. ASSUME NEW i \in DOMAIN g PROVE ChildIn(g, i) \/ i \in R \cup {Len(g)}
  <2>1. CASE i = n + 1
    BY <1>1, <2>1
  <2>2. CASE i # n + 1
    <3>1. i \in DOMAIN h
      BY <1>1, <2>2
    <3>2. ChildIn(h, i) => ChildIn(g, i)
      <4>1. \A j \in DOMAIN h : j \in DOMAIN g /\ g[j] = h[j]
        BY <1>1
      <4> QED BY <4>1 DEF ChildIn
    <3> QED BY <3>1, <3>2 DEF Trees
  <2> QED BY <2>1, <2>2
<1> QED BY <1>5, <1>6 DEF Trees

\* One call of buildTree puts parents on windows that had none.
LEMMA TreesBuilt ==
  ASSUME NEW s \in Seq(Loads), NEW h, Heap(h, s), NEW row, NEW p, NEW q, Tiles(h, row, p, q),
         NEW R, Trees(h, R \cup ToSet(row)),
         NEW g, g = BuildRow(h, row).heap, NEW new, new = BuildRow(h, row).row
  PROVE  Trees(g, R \cup ToSet(new))
<1> DEFINE n == Len(h)
           w == Width(row)
<1>1. /\ h \in Seq(HeapWindow) /\ n \in Nat /\ DOMAIN h = 1 .. n
      /\ row \in Seq(DOMAIN h) /\ DOMAIN row = 1 .. Len(row) /\ Len(row) \in Nat
      /\ ToSet(row) = {row[k] : k \in DOMAIN row}
      /\ \A i \in ToSet(row) : ~ChildIn(h, i)
  BY TilesFacts
<1>2. /\ Len(g) = n + w /\ w \in Nat /\ DOMAIN g = 1 .. n + w
      /\ \A j \in 1 .. w : g[n + j] = Joined(h, row, j)
  <2>1. /\ g \in Seq(HeapWindow) /\ Len(g) = n + w /\ w \in Nat
        /\ \A j \in 1 .. w : g[n + j] = Joined(h, row, j)
    BY BuiltHeap
  <2> QED BY SMTT(30), <2>1
<1>3. /\ \A i \in DOMAIN h : g[i].left = h[i].left /\ g[i].right = h[i].right
      /\ \A i \in DOMAIN h : ChildIn(g, i) <=> ChildIn(h, i) \/ i \in ToSet(row)
  BY BuiltChildren DEF SameTree
<1>4. \A j \in DOMAIN h : h[j].left < j /\ h[j].right < j /\ h[j].left \in Nat /\ h[j].right \in Nat
  <2>1. Descending(h)
    BY DEF Heap
  <2> QED BY <1>1, <2>1, HeapFacts DEF Descending
<1>5. ASSUME NEW j \in 1 .. w
      PROVE  /\ g[n + j].left = row[2 * j - 1] /\ 2 * j - 1 \in DOMAIN row
             /\ g[n + j].right = IF 2 * j <= Len(row) THEN row[2 * j] ELSE 0
             /\ 2 * j <= Len(row) => 2 * j \in DOMAIN row
  <2> DEFINE v == Joined(h, row, j)
  <2>1. v = Joined(h, row, j) /\ g[n + j] = v
    BY <1>2
  <2> HIDE DEF v
  <2>2. v.left = row[2 * j - 1] /\ v.right = IF 2 * j <= Len(row) THEN row[2 * j] ELSE 0
    BY <2>1, JoinedWindow DEF NULL
  <2>3. row # << >>
    BY DEF Tiles
  <2>4. 2 * j - 1 \in DOMAIN row /\ (2 * j <= Len(row) => 2 * j \in DOMAIN row)
    BY <1>1, <2>3, RowHalves
  <2> QED BY <2>1, <2>2, <2>4
<1>6. \A a, b \in DOMAIN row : row[a] = row[b] => a = b
  BY DEF Tiles
<1>7. \A a \in DOMAIN row : row[a] \in DOMAIN h /\ ~ChildIn(h, row[a]) /\ row[a] # 0
  BY <1>1
<1>8. new = [j \in 1 .. w |-> n + j]
  BY DEF BuildRow
<1> HIDE DEF n, w
<1>9. ASSUME NEW i \in DOMAIN g, NEW j \in DOMAIN h, i \in {g[j].left, g[j].right}
      PROVE  i \in DOMAIN h /\ ChildIn(h, i) /\ i \in {h[j].left, h[j].right}
  <2>1. i \in {h[j].left, h[j].right}
    BY <1>3, <1>9
  <2>2. i \in DOMAIN h
    BY <1>1, <1>2, <1>4, <2>1
  <2> QED BY <2>1, <2>2 DEF ChildIn
<1>10. ASSUME NEW i \in DOMAIN g, NEW j \in 1 .. w, i \in {g[n + j].left, g[n + j].right}
       PROVE  \E a \in DOMAIN row : i = row[a] /\ (a = 2 * j - 1 \/ a = 2 * j)
  <2>1. i # 0
    BY <1>1, <1>2
  <2> QED BY <1>5, <1>10, <2>1
<1>11. \A j \in DOMAIN g : j \in DOMAIN h \/ \E k \in 1 .. w : j = n + k
  <2> SUFFICES ASSUME NEW j \in DOMAIN g, j \notin DOMAIN h PROVE \E k \in 1 .. w : j = n + k
    OBVIOUS
  <2>1. j - n \in 1 .. w /\ j = n + (j - n)
    BY <1>1, <1>2
  <2> QED BY <2>1
<1>12. OneParent(g)
  <2>1. ASSUME NEW i \in DOMAIN g, NEW j \in DOMAIN g, NEW k \in DOMAIN g,
               i \in {g[j].left, g[j].right}, i \in {g[k].left, g[k].right}
        PROVE  j = k
    <3>1. CASE j \in DOMAIN h /\ k \in DOMAIN h
      <4>1. i \in DOMAIN h /\ i \in {h[j].left, h[j].right} /\ i \in {h[k].left, h[k].right}
        BY <1>9, <2>1, <3>1
      <4> QED BY <3>1, <4>1 DEF Trees, OneParent
    <3>2. CASE j \in DOMAIN h /\ k \notin DOMAIN h
      BY <1>7, <1>9, <1>10, <1>11, <2>1, <3>2
    <3>3. CASE j \notin DOMAIN h /\ k \in DOMAIN h
      BY <1>7, <1>9, <1>10, <1>11, <2>1, <3>3
    <3>4. CASE j \notin DOMAIN h /\ k \notin DOMAIN h
      <4>1. PICK x \in 1 .. w : j = n + x
        BY <1>11, <3>4
      <4>2. PICK y \in 1 .. w : k = n + y
        BY <1>11, <3>4
      <4>3. PICK a \in DOMAIN row : i = row[a] /\ (a = 2 * x - 1 \/ a = 2 * x)
        BY <1>10, <2>1, <4>1
      <4>4. PICK b \in DOMAIN row : i = row[b] /\ (b = 2 * y - 1 \/ b = 2 * y)
        BY <1>10, <2>1, <4>2
      <4>5. a = b
        BY <1>6, <4>3, <4>4
      <4>6. x \in Nat /\ y \in Nat
        BY <1>2
      <4>7. x = y
        BY <4>3, <4>4, <4>5, <4>6
      <4> QED BY <4>1, <4>2, <4>7
    <3> QED BY <3>1, <3>2, <3>3, <3>4
  <2>2. ASSUME NEW j \in DOMAIN g, g[j].left \in DOMAIN g PROVE g[j].right # g[j].left
    <3>1. CASE j \in DOMAIN h
      <4>1. g[j].left \in DOMAIN h
        BY <1>9, <2>2, <3>1
      <4> QED BY <1>3, <3>1, <4>1 DEF Trees, OneParent
    <3>2. CASE j \notin DOMAIN h
      <4>1. PICK x \in 1 .. w : j = n + x
        BY <1>11, <3>2
      <4>2. 2 * x - 1 # 2 * x
        BY <1>2
      <4> QED BY <1>5, <1>6, <1>7, <4>1, <4>2
    <3> QED BY <3>1, <3>2
  <2> QED BY <2>1, <2>2 DEF OneParent
<1>13. ASSUME NEW i \in DOMAIN g PROVE ChildIn(g, i) \/ i \in R \cup ToSet(new)
  <2>1. CASE i \in DOMAIN h
    BY <1>3, <2>1 DEF Trees
  <2>2. CASE i \notin DOMAIN h
    <3>1. PICK j \in 1 .. w : i = n + j
      BY <1>11, <2>2
    <3>2. j \in DOMAIN new /\ new[j] = i
      BY <1>8, <3>1
    <3> QED BY <3>2 DEF ToSet
  <2> QED BY <2>1, <2>2
<1> QED BY <1>12, <1>13 DEF Trees

\* All calls of buildTree on a row.
LEMMA TreesCalled ==
  ASSUME NEW s \in Seq(Loads), NEW h, Heap(h, s), NEW row, NEW p, NEW q, Tiles(h, row, p, q),
         NEW R, Trees(h, R \cup ToSet(row)), NEW t, t = BuildTree(h, row)
  PROVE  Trees(t.heap, R \cup {t.root})
<1> DEFINE c == CallsOf(h, row)
           m == Len(row)
           Holds(x, n) == AfterCalls(x, n, h, row, p, q, s) /\ Trees(x.heap, R \cup ToSet(x.row))
           P == {n \in Nat : n <= m => Holds(c[n], n)}
<1>1. m \in Nat /\ Len(h) \in Nat /\ DOMAIN h = 1 .. Len(h) /\ ToSet(row) = {row[k] : k \in DOMAIN row}
  BY TilesFacts
<1>2. \A n \in 0 .. m : c[n] = CallFrom(c, h, row, n)
  BY <1>1, CallsEquations
<1> HIDE DEF c, m
<1>3. 0 \in P
  <2>1. c[0] = [heap |-> h, row |-> row]
    BY <1>1, <1>2 DEF CallFrom
  <2>2. Extends(h, h, ToSet(row))
    BY <1>1 DEF Extends, SameTree
  <2>3. AfterCalls(c[0], 0, h, row, p, q, s)
    BY <1>1, <2>1, <2>2 DEF AfterCalls, m
  <2>4. Trees(c[0].heap, R \cup ToSet(c[0].row))
    BY <2>1
  <2> QED BY <2>3, <2>4
<1>4. ASSUME NEW n \in Nat, n \in P PROVE n + 1 \in P
  <2> SUFFICES ASSUME n + 1 <= m PROVE Holds(c[n + 1], n + 1)
    OBVIOUS
  <2>1. Holds(c[n], n)
    BY <1>1, <1>4
  <2> DEFINE x == c[n]
             y == c[n + 1]
  <2>2. y = IF Len(x.row) <= 1 THEN x ELSE BuildRow(x.heap, x.row)
    <3>1. n + 1 \in 0 .. m /\ (n + 1) - 1 = n /\ n + 1 # 0
      BY <1>1
    <3> QED BY <1>2, <3>1 DEF CallFrom
  <2>3. AfterCalls(x, n, h, row, p, q, s) /\ Trees(x.heap, R \cup ToSet(x.row))
    BY <2>1
  <2> HIDE DEF x, y
  <2>4. AfterCalls(y, n + 1, h, row, p, q, s)
    BY <2>2, <2>3, OneCall
  <2>5. Trees(y.heap, R \cup ToSet(y.row))
    <3>1. CASE Len(x.row) <= 1
      BY <2>2, <2>3, <3>1
    <3>2. CASE ~(Len(x.row) <= 1)
      <4> DEFINE a == x.heap
                 r == x.row
                 g == BuildRow(a, r).heap
                 new == BuildRow(a, r).row
      <4>1. Heap(a, s) /\ Tiles(a, r, p, q) /\ Trees(a, R \cup ToSet(r))
        BY <2>3 DEF AfterCalls
      <4>2. y.heap = g /\ y.row = new
        BY <2>2, <3>2
      <4> HIDE DEF a, r
      <4>3. Trees(g, R \cup ToSet(new))
        BY <4>1, TreesBuilt
      <4> QED BY <4>2, <4>3
    <3> QED BY <3>1, <3>2
  <2> QED BY <2>4, <2>5 DEF y
<1>5. m \in P
  <2> HIDE DEF P
  <2> QED BY <1>1, <1>3, <1>4, NatSetInduction
<1> DEFINE x == c[m]
<1>6. AfterCalls(x, m, h, row, p, q, s) /\ Trees(x.heap, R \cup ToSet(x.row))
  BY <1>1, <1>5
<1>7. t = [heap |-> x.heap, root |-> x.row[1]]
  BY TreeIsChoice DEF c, m
<1> HIDE DEF x
<1>8. Heap(x.heap, s) /\ Tiles(x.heap, x.row, p, q)
  BY <1>6 DEF AfterCalls
<1>9. /\ x.row \in Seq(DOMAIN x.heap) /\ x.row # << >> /\ Len(x.row) \in Nat
      /\ DOMAIN x.row = 1 .. Len(x.row)
  <2>1. x.row # << >>
    BY <1>8 DEF Tiles
  <2> QED BY <1>8, <2>1, TilesFacts
<1>10. Len(x.row) = 1
  <2>1. Len(x.row) # 0
    BY <1>9
  <2>2. Len(x.row) = 1 \/ Len(x.row) + m <= m
    BY <1>6 DEF AfterCalls, m
  <2> QED BY <1>1, <1>9, <2>1, <2>2
<1>11. x.row = <<t.root>>
  BY <1>7, <1>9, <1>10
<1>12. ToSet(x.row) = {t.root}
  BY <1>11 DEF ToSet
<1>13. t.heap = x.heap
  BY <1>7
<1> QED BY <1>6, <1>12, <1>13

\* The tree of a sample, in the place of its windows.
LEMMA TreesClosed ==
  ASSUME NEW s \in Seq(Loads), Heap(nodes, s),
         windows \in Seq(DOMAIN nodes), NEW p,
         Filling(nodes, windows, window, forest, p, Len(s)),
         Trees(nodes, ToSet(forest) \cup ToSet(windows) \cup {window})
  PROVE  Trees(SampleTree.heap, ToSet(forest) \cup {SampleTree.root})
<1> DEFINE row == Append(windows, window)
           t == BuildTree(nodes, row)
           q == Len(s) + 1
           R == ToSet(forest)
<1>1. Completed = row
  BY CompletedAll DEF Filling
<1>2. Tiles(nodes, row, p, q)
  BY AddedTile DEF Filling
<1>3. ToSet(row) = ToSet(windows) \cup {window}
  BY ToSetAppend
<1>4. Trees(nodes, R \cup ToSet(row))
  BY <1>3
<1>5. t = BuildTree(nodes, row)
  OBVIOUS
<1> HIDE DEF row, q, t, R
<1>6. Trees(t.heap, R \cup {t.root})
  BY <1>2, <1>4, <1>5, TreesCalled
<1>7. SampleTree = [t EXCEPT !.heap[t.root].sampleHead = TRUE]
  BY <1>1, <1>5 DEF SampleTree
<1>8. t = [heap |-> t.heap, root |-> t.root]
  BY <1>5 DEF BuildTree
<1> DEFINE a == t.heap
           r == t.root
           g == SampleTree.heap
<1>9. SampleTree.root = r /\ g = [a EXCEPT ![r] = [a[r] EXCEPT !.sampleHead = TRUE]]
  BY <1>7, <1>8
<1>10. Heap(a, s)
  BY <1>2, <1>5, BuiltTree
<1> HIDE DEF a, r, g
<1>11. a \in Seq(HeapWindow)
  BY <1>10 DEF Heap
<1>12. DOMAIN g = DOMAIN a /\ \A i \in DOMAIN a : g[i].left = a[i].left /\ g[i].right = a[i].right
  <2>1. \A i \in DOMAIN a : a[i] \in HeapWindow
    BY <1>11
  <2> QED BY <1>9, <2>1 DEF HeapWindow
<1>13. Trees(g, R \cup {r})
  BY <1>6, <1>12, TreesSame DEF a, r
<1> QED BY <1>9, <1>13 DEF g, R

-----------------------------------------------------------------------------
(* The roots while the trees are built.                                    *)

Roots == ToSet(forest) \cup ToSet(windows) \cup {window}

\* Nothing is reported before all trees are built.
RootsInv == /\ Trees(nodes, Roots)
            /\ DOMAIN report = {}

LEMMA FirstWindowRoots ==
  ASSUME TreeInv, RootsInv, NEW access \in Access, FirstWindow(access)
  PROVE  RootsInv'
<1>1. SameSample(access) /\ IsAccess(access)
  BY DEF FirstWindow, SameSample
<1>2. /\ nodes' = Added(nodes, access) /\ window' = Len(nodes) + 1 /\ report' = report
      /\ windows' = windows /\ forest' = forest
  BY <1>1 DEF FirstWindow, Added, IsAccess, printVars
<1>3. nodes \in Seq(HeapWindow) /\ Descending(nodes)
  BY DEF TreeInv, Heap
<1>4. nodes = << >>
  BY <1>1 DEF TreeInv, Started, Open, FirstWindow, IsAccess
<1>5. Trees(nodes, ToSet(forest) \cup ToSet(windows))
  BY <1>4, TreesMore DEF RootsInv
<1> DEFINE g == nodes'
<1>6. g = Added(nodes, access)
  BY <1>2
<1>7. Len(g) = window'
  BY <1>2, <1>3 DEF Added
<1> HIDE DEF g
<1>8. Trees(g, (ToSet(forest) \cup ToSet(windows)) \cup {Len(g)})
  BY <1>3, <1>5, <1>6, TreesAdded
<1> QED BY <1>2, <1>7, <1>8 DEF RootsInv, Roots, g

LEMMA NextWindowRoots ==
  ASSUME TreeInv, RootsInv, NEW access \in Access, NextWindow(access)
  PROVE  RootsInv'
<1>1. SameSample(access) /\ IsAccess(access)
  BY DEF NextWindow, SameSample
<1>2. /\ nodes' = Added(nodes, access) /\ window' = Len(nodes) + 1 /\ report' = report
      /\ windows' = Append(windows, window) /\ forest' = forest
  BY <1>1 DEF NextWindow, Added, IsAccess, printVars
<1>3. nodes \in Seq(HeapWindow) /\ Descending(nodes) /\ windows \in Seq(DOMAIN nodes)
  BY DEF TreeInv, Heap
<1>4. ToSet(windows') = ToSet(windows) \cup {window}
  BY <1>2, <1>3, ToSetAppend
<1> DEFINE g == nodes'
<1>5. g = Added(nodes, access)
  BY <1>2
<1>6. Len(g) = window'
  BY <1>2, <1>3 DEF Added
<1> HIDE DEF g
<1>7. Trees(g, Roots \cup {Len(g)})
  BY <1>3, <1>5, TreesAdded DEF RootsInv
<1>8. Roots \cup {Len(g)} = Roots'
  BY <1>2, <1>4, <1>6 DEF Roots
<1> QED BY <1>2, <1>7, <1>8 DEF RootsInv, g

LEMMA ExtendWindowRoots ==
  ASSUME TreeInv, RootsInv, NEW access \in Access, ExtendWindow(access)
  PROVE  RootsInv'
<1>1. SameSample(access) /\ IsAccess(access)
  BY DEF ExtendWindow, SameSample
<1>2. /\ nodes' = [nodes EXCEPT ![window] = AddAccess(@, access)] /\ report' = report
      /\ windows' = windows /\ window' = window /\ forest' = forest
  BY <1>1 DEF ExtendWindow, IsAccess, printVars
<1>3. nodes \in Seq(HeapWindow)
  BY DEF TreeInv, Heap
<1>4. \A i \in DOMAIN nodes : nodes[i] \in HeapWindow
  BY <1>3
<1>5. \A w \in HeapWindow : /\ AddAccess(w, access).left = w.left
                            /\ AddAccess(w, access).right = w.right
  BY DEF HeapWindow, AddAccess
<1>6. /\ DOMAIN nodes' = DOMAIN nodes
      /\ \A i \in DOMAIN nodes : /\ nodes'[i].left = nodes[i].left
                                 /\ nodes'[i].right = nodes[i].right
  BY <1>2, <1>4, <1>5
<1>7. Trees(nodes', Roots)
  BY <1>6, TreesSame DEF RootsInv
<1> QED BY <1>2, <1>7 DEF RootsInv, Roots

LEMMA CloseSampleRoots ==
  ASSUME TreeInv, RootsInv, NEW access \in Access, CloseSample(access)
  PROVE  RootsInv'
<1>1. NewSample(access) /\ IsAccess(access)
  BY DEF CloseSample
<1> DEFINE h == SampleTree.heap
           r == SampleTree.root
           g == nodes'
<1>2. /\ g = Added(h, access) /\ window' = Len(g)
      /\ windows' = << >> /\ forest' = Append(forest, r) /\ report' = report
      /\ phase = "reading"
  BY <1>1 DEF CloseSample, Added, IsAccess, printVars
<1> HIDE DEF h, r, g
<1>3. PICK p \in Nat : Filling(nodes, windows, window, forest, p, Len(input))
  <2>1. window # NULL
    BY <1>1, <1>2 DEF NewSample, TreeInv, Started, Open
  <2> QED BY <1>2, <2>1 DEF TreeInv, Started, Open
<1>4. /\ input \in Seq(Loads) /\ Heap(nodes, input)
      /\ windows \in Seq(DOMAIN nodes) /\ forest \in Seq(DOMAIN nodes)
  BY AccessIsLoad DEF TreeInv
<1>5. Trees(h, ToSet(forest) \cup {r})
  BY <1>3, <1>4, TreesClosed DEF RootsInv, Roots, h, r
<1>6. Heap(h, input)
  BY <1>3, <1>4, SampleClosed DEF h, r
<1>7. h \in Seq(HeapWindow) /\ Descending(h)
  BY <1>6 DEF Heap
<1>8. Trees(g, (ToSet(forest) \cup {r}) \cup {Len(g)})
  BY <1>2, <1>5, <1>7, TreesAdded
<1>9. ToSet(forest') = ToSet(forest) \cup {r} /\ ToSet(windows') = {}
  <2>1. ToSet(Append(forest, r)) = ToSet(forest) \cup {r}
    BY <1>4, ToSetAppend
  <2>2. ToSet(<< >>) = {}
    BY DEF ToSet
  <2> QED BY <1>2, <2>1, <2>2
<1>10. Roots' = (ToSet(forest) \cup {r}) \cup {Len(g)}
  BY <1>2, <1>9 DEF Roots
<1> QED BY <1>2, <1>8, <1>10 DEF RootsInv, g

LEMMA EndOfTraceRoots ==
  ASSUME TreeInv, RootsInv, EndOfTrace
  PROVE  RootsInv'
<1> DEFINE g == SampleTree.heap
           r == SampleTree.root
<1>1. /\ phase = "reading" /\ window # NULL
      /\ forest' = Append(forest, r) /\ nodes' = g /\ windows' = << >> /\ window' = NULL
      /\ report' = report
  BY DEF EndOfTrace, printVars
<1> HIDE DEF g, r
<1>2. /\ input \in Seq(Loads) /\ Heap(nodes, input)
      /\ windows \in Seq(DOMAIN nodes) /\ forest \in Seq(DOMAIN nodes)
  BY AccessIsLoad DEF TreeInv
<1>3. PICK p \in Nat : Filling(nodes, windows, window, forest, p, Len(input))
  BY <1>1 DEF TreeInv, Started, Open
<1>4. Trees(g, ToSet(forest) \cup {r})
  BY <1>2, <1>3, TreesClosed DEF RootsInv, Roots, g, r
<1>5. ToSet(forest') = ToSet(forest) \cup {r}
  BY <1>1, <1>2, ToSetAppend
<1>6. Trees(g, Roots')
  BY <1>4, <1>5, TreesMore DEF Roots
<1> QED BY <1>1, <1>6 DEF RootsInv

-----------------------------------------------------------------------------
(* The walk of printTree: the windows printed so far, and those it waits    *)
(* for.                                                                    *)

\* Window i is next under the windows printed, done.
Waits(h, done, i) ==
  /\ i \in DOMAIN h /\ i \notin done
  /\ \A j \in DOMAIN h : i \in {h[j].left, h[j].right} => j \in done

\* The calls to be made are for the windows next under those printed, one for
\* each.
Walk(h, done, row) ==
  /\ done \subseteq DOMAIN h
  /\ \A i \in done : \A j \in DOMAIN h : i \in {h[j].left, h[j].right} => j \in done
  /\ \A i \in DOMAIN h : Waits(h, done, i) <=> \E k \in DOMAIN row : row[k] = i
  /\ \A k \in DOMAIN row : row[k] \in DOMAIN h
  /\ \A j, k \in DOMAIN row : row[j] = row[k] => j = k

\* The walk starts at the root.
LEMMA WalkStarts ==
  ASSUME NEW h, NEW r \in DOMAIN h, Trees(h, {r}), ~ChildIn(h, r)
  PROVE  Walk(h, {}, <<r>>)
<1>1. \A i \in DOMAIN h : Waits(h, {}, i) <=> i = r
  BY DEF Waits, Trees, ChildIn
<1>2. DOMAIN <<r>> = {1} /\ <<r>>[1] = r
  OBVIOUS
<1> DEFINE row == <<r>>
<1> HIDE DEF row
<1>3. DOMAIN row = {1} /\ row[1] = r
  BY <1>2 DEF row
<1>4. Walk(h, {}, row)
  BY <1>1, <1>3 DEF Walk
<1> QED BY <1>4 DEF row

\* new has the elements of kids, then those of row without the first one.
Pushed(new, kids, row, c, m) ==
  /\ c \in Nat /\ m \in Nat /\ DOMAIN kids = 1 .. c /\ DOMAIN row = 1 .. m /\ 1 \in 1 .. m
  /\ \A k \in 1 .. c : k \in DOMAIN new /\ new[k] = kids[k]
  /\ \A l \in 1 .. m : l # 1 => c + l - 1 \in DOMAIN new /\ new[c + l - 1] = row[l]
  /\ \A k \in DOMAIN new : k \in 1 .. c \/ \E l \in 1 .. m : l # 1 /\ k = c + l - 1

LEMMA PushedRow ==
  ASSUME NEW S, NEW kids \in Seq(S), NEW row \in Seq(S), row # << >>,
         NEW new, new = kids \o Tail(row)
  PROVE  Pushed(new, kids, row, Len(kids), Len(row))
<1> DEFINE m == Len(row)
           c == Len(kids)
           rest == Tail(row)
<1>1. /\ m \in Nat /\ m >= 1 /\ DOMAIN row = 1 .. m
      /\ rest \in Seq(S) /\ Len(rest) = m - 1
      /\ \A k \in 1 .. m - 1 : rest[k] = row[k + 1]
  OBVIOUS
<1>2. c \in Nat /\ DOMAIN kids = 1 .. c
  OBVIOUS
<1> HIDE DEF rest
<1>3. /\ DOMAIN new = 1 .. c + Len(rest)
      /\ \A k \in 1 .. c : new[k] = kids[k]
      /\ \A k \in 1 .. Len(rest) : new[c + k] = rest[k]
  <2> HIDE DEF m
  <2>1. new = kids \o rest /\ rest \in Seq(S) /\ kids \in Seq(S)
    BY <1>1 DEF rest
  <2>2. new \in Seq(S) /\ Len(new) = Len(kids) + Len(rest)
        /\ \A k \in 1 .. Len(kids) + Len(rest) :
             new[k] = IF k <= Len(kids) THEN kids[k] ELSE rest[k - Len(kids)]
    BY ZenonT(60), <2>1, ConcatProperties
  <2>3. Len(rest) \in Nat
    BY <2>1
  <2> DEFINE r == Len(rest)
             d == Len(new)
  <2> HIDE DEF c
  <2>a. DOMAIN new = 1 .. d /\ r \in Nat /\ d = c + r
    BY <2>2, <2>3 DEF c
  <2>b. \A k \in 1 .. c + r : new[k] = IF k <= c THEN kids[k] ELSE rest[k - c]
    BY <2>2 DEF c
  <2> HIDE DEF r, d
  <2>4. c \in Nat /\ r \in Nat /\ DOMAIN new = 1 .. c + r
        /\ \A k \in 1 .. c + r : new[k] = IF k <= c THEN kids[k] ELSE rest[k - c]
    BY ONLY <1>2, <2>a, <2>b
  <2>5. \A k \in 1 .. c : new[k] = kids[k]
    BY ONLY <2>4
  <2>6. \A k \in 1 .. r : new[c + k] = rest[k]
    <3> SUFFICES ASSUME NEW k \in 1 .. r PROVE new[c + k] = rest[k]
      OBVIOUS
    <3>1. c + k \in 1 .. c + r /\ ~(c + k <= c) /\ (c + k) - c = k
      BY ONLY <2>4, k \in 1 .. r
    <3> QED BY ONLY <2>4, <3>1
  <2> QED BY <2>4, <2>5, <2>6 DEF r
<1>4. /\ DOMAIN new = 1 .. c + (m - 1)
      /\ \A k \in 1 .. m - 1 : new[c + k] = row[k + 1]
  BY <1>1, <1>3
<1> HIDE DEF c, m
<1>5. ASSUME NEW l \in 1 .. m, l # 1
      PROVE  c + l - 1 \in DOMAIN new /\ new[c + l - 1] = row[l]
  <2>1. l - 1 \in 1 .. m - 1 /\ (l - 1) + 1 = l /\ c + (l - 1) = c + l - 1
        /\ c + l - 1 \in 1 .. c + (m - 1)
    BY ONLY <1>1, <1>2, <1>5
  <2> QED BY ONLY <1>4, <2>1
<1>6. ASSUME NEW k \in DOMAIN new, k \notin 1 .. c
      PROVE  \E l \in 1 .. m : l # 1 /\ k = c + l - 1
  <2>1. k \in 1 .. c + (m - 1)
    BY <1>4
  <2>2. k - c + 1 \in 1 .. m /\ k - c + 1 # 1 /\ k = c + (k - c + 1) - 1
    BY ONLY <1>1, <1>2, <1>6, <2>1
  <2> QED BY ONLY <2>2
<1>7. \A k \in 1 .. c : k \in DOMAIN new
  BY ONLY <1>1, <1>2, <1>4
<1>8. 1 \in 1 .. m
  BY <1>1
<1>9. /\ c \in Nat /\ m \in Nat /\ DOMAIN kids = 1 .. c /\ DOMAIN row = 1 .. m /\ 1 \in 1 .. m
      /\ \A k \in 1 .. c : k \in DOMAIN new /\ new[k] = kids[k]
      /\ \A l \in 1 .. m : l # 1 => c + l - 1 \in DOMAIN new /\ new[c + l - 1] = row[l]
      /\ \A k \in DOMAIN new : k \in 1 .. c \/ \E l \in 1 .. m : l # 1 /\ k = c + l - 1
  BY ONLY <1>1, <1>2, <1>3, <1>5, <1>6, <1>7, <1>8
<1> QED BY ONLY <1>9 DEF Pushed, c, m

\* kids are the windows L and R, without NULL, once each.
AreKids(kids, c, L, R) ==
  /\ \A k \in 1 .. c : kids[k] \in {L, R} /\ kids[k] # NULL
  /\ \A i \in {L, R} : i # NULL => \E k \in 1 .. c : kids[k] = i
  /\ \A j, k \in 1 .. c : kids[j] = kids[k] => j = k

LEMMA KidsOf ==
  ASSUME NEW S, NEW w, w.left # NULL => w.left \in S, w.right # NULL => w.right \in S,
         w.left # NULL => w.left # w.right, NEW kids, kids = Children(w)
  PROVE  kids \in Seq(S) /\ AreKids(kids, Len(kids), w.left, w.right)
<1> DEFINE L == w.left
           R == w.right
<1>1. kids = (IF L = NULL THEN << >> ELSE <<L>>) \o (IF R = NULL THEN << >> ELSE <<R>>)
  BY DEF Children
<1>2. (L # NULL => L \in S) /\ (R # NULL => R \in S) /\ (L # NULL => L # R)
  OBVIOUS
<1> HIDE DEF L, R
<1>3. CASE L = NULL /\ R = NULL
  <2>1. kids = << >>
    BY <1>1, <1>3
  <2> QED BY <1>3, <2>1 DEF AreKids, L, R
<1>4. CASE L # NULL /\ R = NULL
  <2>1. kids = <<L>>
    BY <1>1, <1>4
  <2> QED BY <1>2, <1>4, <2>1 DEF AreKids, L, R
<1>5. CASE L = NULL /\ R # NULL
  <2>1. kids = <<R>>
    BY <1>1, <1>5
  <2> QED BY <1>2, <1>5, <2>1 DEF AreKids, L, R
<1>6. CASE L # NULL /\ R # NULL
  <2> DEFINE a == <<L>>
             b == <<R>>
  <2>1. kids = a \o b
    BY <1>1, <1>6
  <2>2. a \in Seq(S) /\ b \in Seq(S) /\ Len(a) = 1 /\ Len(b) = 1 /\ a[1] = L /\ b[1] = R
    BY <1>2, <1>6
  <2> HIDE DEF a, b
  <2>3. kids \in Seq(S) /\ Len(kids) = 2 /\ kids[1] = L /\ kids[2] = R
    BY <2>1, <2>2, ConcatProperties
  <2>4. \A k \in 1 .. 2 : k = 1 \/ k = 2
    OBVIOUS
  <2>5. 1 \in 1 .. 2 /\ 2 \in 1 .. 2
    OBVIOUS
  <2> QED BY <1>2, <1>6, <2>3, <2>4, <2>5 DEF AreKids, L, R
<1> QED BY <1>3, <1>4, <1>5, <1>6

\* A step of the walk: the window of the first call is printed, and its
\* children are next.
LEMMA WalkGoesOn ==
  ASSUME NEW h, OneParent(h), NULL \notin DOMAIN h, DOMAIN h \subseteq Nat, Descending(h),
         NEW row, NEW done, Walk(h, done, row),
         NEW n, n = row[1], NEW kids, NEW c, NEW m, NEW new,
         Pushed(new, kids, row, c, m), AreKids(kids, c, h[n].left, h[n].right),
         h[n].left # NULL => h[n].left \in DOMAIN h,
         h[n].right # NULL => h[n].right \in DOMAIN h
  PROVE  /\ n \in DOMAIN h \ done
         /\ Walk(h, done \cup {n}, new)
<1> DEFINE L == h[n].left
           R == h[n].right
           now == done \cup {n}
<1>1. DOMAIN row = 1 .. m /\ 1 \in 1 .. m
  BY DEF Pushed
<1>2. n \in DOMAIN h /\ n \notin done /\ Waits(h, done, n)
  BY <1>1 DEF Walk, Waits
<1>3. /\ L # NULL => L \in DOMAIN h
      /\ R # NULL => R \in DOMAIN h
      /\ AreKids(kids, c, L, R)
  OBVIOUS
<1>4. {h[n].left, h[n].right} = {L, R}
  OBVIOUS
<1> HIDE DEF L, R
<1>5. \A k \in 1 .. c : kids[k] \in DOMAIN h /\ kids[k] \in {L, R}
  BY <1>3 DEF AreKids
<1>6. \A k \in DOMAIN new : \/ k \in 1 .. c /\ new[k] = kids[k]
                            \/ \E l \in 1 .. m : l # 1 /\ k = c + l - 1 /\ new[k] = row[l]
  BY DEF Pushed
<1>7. \A i \in DOMAIN h : i \in {L, R} =>
        \A j \in DOMAIN h : i \in {h[j].left, h[j].right} => j = n
  BY <1>2, <1>4 DEF OneParent
<1>8. ASSUME NEW i \in DOMAIN h, i \in {L, R}
      PROVE  i \notin now /\ ~ \E k \in DOMAIN row : row[k] = i
  <2>1. i \notin done /\ ~Waits(h, done, i)
    BY <1>2, <1>4, <1>8 DEF Walk, Waits
  <2>2. i # n
    <3>1. h[n].left < n /\ h[n].right < n /\ n \in Nat
      BY <1>2 DEF Descending
    <3>2. i \in {h[n].left, h[n].right}
      BY <1>4, <1>8
    <3> QED BY <3>1, <3>2
  <2> QED BY <2>1, <2>2 DEF Walk
<1>9. ASSUME NEW i \in DOMAIN h
      PROVE  (\E k \in DOMAIN new : new[k] = i) <=>
               i \in {L, R} \/ (i # n /\ \E k \in DOMAIN row : row[k] = i)
  <2>1. ASSUME NEW k \in DOMAIN new, new[k] = i
        PROVE  i \in {L, R} \/ (i # n /\ \E l \in DOMAIN row : row[l] = i)
    <3>1. CASE k \in 1 .. c /\ new[k] = kids[k]
      BY <1>5, <2>1, <3>1
    <3>2. CASE \E l \in 1 .. m : l # 1 /\ k = c + l - 1 /\ new[k] = row[l]
      <4>1. PICK l \in 1 .. m : l # 1 /\ new[k] = row[l]
        BY <3>2
      <4>2. row[l] # row[1]
        BY <1>1, <4>1 DEF Walk
      <4> QED BY <1>1, <2>1, <4>1, <4>2
    <3> QED BY <1>6, <3>1, <3>2
  <2>2. ASSUME i \in {L, R} PROVE \E k \in DOMAIN new : new[k] = i
    <3>1. PICK k \in 1 .. c : kids[k] = i
      BY <1>3, <2>2 DEF AreKids
    <3> QED BY <3>1 DEF Pushed
  <2>3. ASSUME i # n, NEW k \in DOMAIN row, row[k] = i PROVE \E l \in DOMAIN new : new[l] = i
    <3>1. k # 1 /\ k \in 1 .. m
      BY <1>1, <2>3
    <3>2. c + k - 1 \in DOMAIN new /\ new[c + k - 1] = i
      BY <2>3, <3>1 DEF Pushed
    <3> QED BY <3>2
  <2> QED BY <2>1, <2>2, <2>3
<1>10. now \subseteq DOMAIN h
  BY <1>2 DEF Walk
<1>11. \A i \in now : \A j \in DOMAIN h : i \in {h[j].left, h[j].right} => j \in now
  BY <1>2 DEF Walk, Waits
<1>12. ASSUME NEW i \in DOMAIN h
       PROVE  Waits(h, now, i) <=> \E k \in DOMAIN new : new[k] = i
  <2>1. ASSUME Waits(h, now, i) PROVE i \in {L, R} \/ (i # n /\ \E k \in DOMAIN row : row[k] = i)
    <3>1. i # n /\ i \notin done
      BY <2>1 DEF Waits
    <3>2. CASE i \in {h[n].left, h[n].right}
      BY <1>4, <3>2
    <3>3. CASE i \notin {h[n].left, h[n].right}
      <4>1. Waits(h, done, i)
        BY <2>1, <3>1, <3>3 DEF Waits
      <4> QED BY <3>1, <4>1 DEF Walk
    <3> QED BY <3>2, <3>3
  <2>2. ASSUME i \in {L, R} PROVE Waits(h, now, i)
    BY <1>7, <1>8, <2>2 DEF Waits
  <2>3. ASSUME i # n, \E k \in DOMAIN row : row[k] = i PROVE Waits(h, now, i)
    <3>1. Waits(h, done, i)
      BY <2>3 DEF Walk
    <3> QED BY <2>3, <3>1 DEF Waits
  <2> HIDE DEF now
  <2> QED BY <1>9, <2>1, <2>2, <2>3
<1>13. \A k \in DOMAIN new : new[k] \in DOMAIN h
  BY <1>1, <1>5, <1>6 DEF Walk
<1>14. ASSUME NEW j \in DOMAIN new, NEW k \in DOMAIN new, new[j] = new[k] PROVE j = k
  <2>1. ASSUME NEW x \in 1 .. c, NEW l \in 1 .. m, kids[x] = row[l] PROVE FALSE
    BY <1>1, <1>5, <1>8, <2>1
  <2>2. CASE j \in 1 .. c /\ k \in 1 .. c
    <3>1. kids[j] = kids[k]
      BY <1>14, <2>2 DEF Pushed
    <3> QED BY <1>3, <2>2, <3>1 DEF AreKids
  <2>3. CASE j \in 1 .. c /\ k \notin 1 .. c
    <3>1. new[j] = kids[j] /\ \E l \in 1 .. m : new[k] = row[l]
      BY <1>6, <2>3 DEF Pushed
    <3> QED BY <1>14, <2>1, <2>3, <3>1
  <2>4. CASE j \notin 1 .. c /\ k \in 1 .. c
    <3>1. new[k] = kids[k] /\ \E l \in 1 .. m : new[j] = row[l]
      BY <1>6, <2>4 DEF Pushed
    <3> QED BY <1>14, <2>1, <2>4, <3>1
  <2>5. CASE j \notin 1 .. c /\ k \notin 1 .. c
    <3>1. PICK x \in 1 .. m : j = c + x - 1 /\ new[j] = row[x]
      BY <1>6, <2>5
    <3>2. PICK y \in 1 .. m : k = c + y - 1 /\ new[k] = row[y]
      BY <1>6, <2>5
    <3>3. x = y
      BY <1>1, <1>14, <3>1, <3>2 DEF Walk
    <3> QED BY <3>1, <3>2, <3>3
  <2> QED BY <2>2, <2>3, <2>4, <2>5
<1>15. Walk(h, now, new)
  BY <1>10, <1>11, <1>12, <1>13, <1>14 DEF Walk
<1> QED BY <1>2, <1>15

\* When no call is left, all windows are printed.
LEMMA WalkEnds ==
  ASSUME NEW h, Len(h) \in Nat, DOMAIN h = 1 .. Len(h), Descending(h),
         NEW done, Walk(h, done, << >>)
  PROVE  done = DOMAIN h
<1> SUFFICES ASSUME DOMAIN h \ done # {} PROVE FALSE
  BY DEF Walk
<1> DEFINE S == DOMAIN h \ done
<1>1. S \subseteq 0 .. Len(h) /\ S # {}
  OBVIOUS
<1>2. PICK i \in S : \A j \in S : j <= i
  <2> HIDE DEF S
  <2> QED BY <1>1, GreatestElement
<1>3. ~Waits(h, done, i)
  BY DEF Walk
<1>4. PICK j \in DOMAIN h : i \in {h[j].left, h[j].right} /\ j \notin done
  BY <1>3 DEF Waits
<1>5. i < j /\ j <= i
  BY <1>2, <1>4 DEF Descending
<1> QED BY <1>5

-----------------------------------------------------------------------------
(* The rows of the report.                                                 *)

\* g is f on D, but for a, which has d more (d, if D had no a).
ChangedAt(g, f, D, a, d) ==
  /\ \A x \in D : x # a => g[x] = f[x]
  /\ a \in D => g[a] = f[a] + d
  /\ a \notin D => g[a] = d


\* A sum to one of whose terms d was added, or that got d as a new one.
LEMMA SumChanged ==
  ASSUME NEW D, IsFiniteSet(D), NEW f, \A x \in D : f[x] \in Int, NEW a, NEW d \in Int,
         NEW g, ChangedAt(g, f, D, a, d)
  PROVE  /\ IsFiniteSet(D \cup {a})
         /\ SumFunctionOnSet(g, D \cup {a}) = SumFunctionOnSet(f, D) + d
<1>0. /\ \A x \in D : x # a => g[x] = f[x]
      /\ a \in D => g[a] = f[a] + d
      /\ a \notin D => g[a] = d
  BY DEF ChangedAt
<1>1. IsFiniteSet(D \cup {a})
  BY FS_AddElement
<1> DEFINE E == D \ {a}
<1>2. IsFiniteSet(E) /\ a \notin E /\ D \cup {a} = E \cup {a}
  BY FS_Subset
<1>3. \A x \in E : f[x] \in Int /\ f[x] = g[x] /\ g[x] \in Int
  BY <1>0
<1>4. SumFunctionOnSet(f, E) = SumFunctionOnSet(g, E) /\ SumFunctionOnSet(f, E) \in Int
  <2> HIDE DEF E
  <2> QED BY <1>2, <1>3, SumEqual, SumType
<1>5. g[a] \in Int /\ g[a] = (IF a \in D THEN f[a] ELSE 0) + d
  BY <1>0
<1>6. SumFunctionOnSet(g, E \cup {a}) = SumFunctionOnSet(g, E) + g[a]
  <2> HIDE DEF E
  <2> QED BY <1>2, <1>3, <1>5, SumAdd
<1>7. SumFunctionOnSet(f, D) = SumFunctionOnSet(f, E) + (IF a \in D THEN f[a] ELSE 0)
  <2>1. CASE a \in D
    BY <1>4, <2>1, SumRemove
  <2>2. CASE a \notin D
    <3>1. E = D
      BY <2>2
    <3>2. SumFunctionOnSet(f, D) = SumFunctionOnSet(f, E)
      <4> HIDE DEF E
      <4> QED BY <3>1
    <3> DEFINE z == SumFunctionOnSet(f, E)
    <3>3. SumFunctionOnSet(f, D) = z /\ z \in Int
      BY <1>4, <3>2
    <3> HIDE DEF z
    <3> QED BY <2>2, <3>3 DEF z
  <2> QED BY <2>1, <2>2
<1> DEFINE x == SumFunctionOnSet(f, E)
           y == IF a \in D THEN f[a] ELSE 0
<1>8. x \in Int /\ y \in Int
  BY <1>4
<1>9. SumFunctionOnSet(g, D \cup {a}) = x + (y + d) /\ SumFunctionOnSet(f, D) = x + y
  BY <1>2, <1>4, <1>5, <1>6, <1>7
<1> HIDE DEF x, y
<1>10. x + (y + d) = (x + y) + d
  BY <1>8
<1> QED BY <1>1, <1>9, <1>10

NodesOf(rep) == [l \in DOMAIN rep |-> rep[l].nodes]
FPsOf(rep)   == [l \in DOMAIN rep |-> rep[l].fp]

Footprints(h) == [i \in DOMAIN h |-> Cardinality(AddrsOf(UnderIn(h)[i]))]

\* The report has the windows printed.
Reported(rep, h, done) ==
  /\ IsFiniteSet(DOMAIN rep)
  /\ \A l \in DOMAIN rep : rep[l].nodes \in Nat /\ rep[l].fp \in Nat
  /\ SumFunction(NodesOf(rep)) = Cardinality(done)
  /\ SumFunction(FPsOf(rep)) = SumFunctionOnSet(Footprints(h), done)

LEMMA NothingReported ==
  ASSUME NEW rep, DOMAIN rep = {}, NEW h
  PROVE  Reported(rep, h, {})
<1>1. DOMAIN NodesOf(rep) = {} /\ DOMAIN FPsOf(rep) = {}
  BY DEF NodesOf, FPsOf
<1>2. IsFiniteSet({}) /\ Cardinality({}) = 0
  BY FS_EmptySet
<1>3. \A f : SumFunctionOnSet(f, {}) = 0
  BY SumEmpty
<1> QED BY <1>1, <1>2, <1>3 DEF Reported, SumFunction

\* One more window in one of the rows.
LEMMA OneMoreReported ==
  ASSUME NEW h, IsFiniteSet(DOMAIN h), \A i \in DOMAIN h : Footprints(h)[i] \in Nat,
         NEW done, done \subseteq DOMAIN h, NEW n \in DOMAIN h, n \notin done,
         NEW rep, Reported(rep, h, done), NEW lvl,
         NEW new, DOMAIN new = DOMAIN rep \cup {lvl},
         \A l \in DOMAIN rep : l # lvl => new[l] = rep[l],
         new[lvl].nodes = (IF lvl \in DOMAIN rep THEN rep[lvl].nodes ELSE 0) + 1,
         new[lvl].fp = (IF lvl \in DOMAIN rep THEN rep[lvl].fp ELSE 0) + Footprints(h)[n]
  PROVE  Reported(new, h, done \cup {n})
<1> DEFINE D == DOMAIN rep
           e == Footprints(h)[n]
<1>1. IsFiniteSet(D) /\ \A l \in D : rep[l].nodes \in Nat /\ rep[l].fp \in Nat
  BY DEF Reported
<1>2. e \in Nat /\ e \in Int /\ 1 \in Int
  OBVIOUS
<1>3. /\ IsFiniteSet(D \cup {lvl})
      /\ SumFunctionOnSet(NodesOf(new), D \cup {lvl}) = SumFunctionOnSet(NodesOf(rep), D) + 1
  <2> DEFINE f == NodesOf(rep)
             g == NodesOf(new)
  <2>1. \A x \in D : f[x] \in Int
    BY <1>1 DEF NodesOf
  <2>2. \A x \in D : x # lvl => g[x] = f[x]
    BY DEF NodesOf
  <2>3. (lvl \in D => g[lvl] = f[lvl] + 1) /\ (lvl \notin D => g[lvl] = 1)
    BY <1>2 DEF NodesOf
  <2> HIDE DEF f, g, D
  <2>4. ChangedAt(g, f, D, lvl, 1)
    BY <2>2, <2>3 DEF ChangedAt
  <2>5. /\ IsFiniteSet(D \cup {lvl})
        /\ SumFunctionOnSet(g, D \cup {lvl}) = SumFunctionOnSet(f, D) + 1
    <3>1. IsFiniteSet(D) /\ 1 \in Int
      BY <1>1
    <3> QED BY ONLY <2>1, <2>4, <3>1, SumChanged
  <2> QED BY <2>5 DEF f, g
<1>4. SumFunctionOnSet(FPsOf(new), D \cup {lvl}) = SumFunctionOnSet(FPsOf(rep), D) + e
  <2> DEFINE f == FPsOf(rep)
             g == FPsOf(new)
  <2>1. \A x \in D : f[x] \in Int
    BY <1>1 DEF FPsOf
  <2>2. \A x \in D : x # lvl => g[x] = f[x]
    BY DEF FPsOf
  <2>3. (lvl \in D => g[lvl] = f[lvl] + e) /\ (lvl \notin D => g[lvl] = e)
    BY <1>2 DEF FPsOf
  <2> HIDE DEF f, g, D, e
  <2>4. ChangedAt(g, f, D, lvl, e)
    BY <2>2, <2>3 DEF ChangedAt
  <2>5. SumFunctionOnSet(g, D \cup {lvl}) = SumFunctionOnSet(f, D) + e
    <3>1. IsFiniteSet(D) /\ e \in Int
      BY <1>1, <1>2
    <3> QED BY ONLY <2>1, <2>4, <3>1, SumChanged
  <2> QED BY <2>5 DEF f, g
<1>5. /\ DOMAIN NodesOf(rep) = D /\ DOMAIN FPsOf(rep) = D
      /\ DOMAIN NodesOf(new) = D \cup {lvl} /\ DOMAIN FPsOf(new) = D \cup {lvl}
  BY DEF NodesOf, FPsOf
<1>6. /\ SumFunctionOnSet(NodesOf(rep), D) = Cardinality(done)
      /\ SumFunctionOnSet(FPsOf(rep), D) = SumFunctionOnSet(Footprints(h), done)
  BY <1>5 DEF Reported, SumFunction
<1>7. IsFiniteSet(done) /\ Cardinality(done \cup {n}) = Cardinality(done) + 1
  <2>1. IsFiniteSet(done)
    BY FS_Subset
  <2> QED BY <2>1, FS_AddElement
<1>8. SumFunctionOnSet(Footprints(h), done \cup {n}) = SumFunctionOnSet(Footprints(h), done) + e
  <2> DEFINE f == Footprints(h)
  <2>1. (\A x \in done : f[x] \in Int) /\ f[n] \in Int /\ f[n] = e
    OBVIOUS
  <2> HIDE DEF f, e
  <2> QED BY <1>7, <2>1, SumAdd DEF f
<1>9. \A l \in DOMAIN new : new[l].nodes \in Nat /\ new[l].fp \in Nat
  <2> SUFFICES ASSUME NEW l \in DOMAIN new PROVE new[l].nodes \in Nat /\ new[l].fp \in Nat
    OBVIOUS
  <2>1. CASE l = lvl
    BY <1>1, <1>2, <2>1
  <2>2. CASE l # lvl
    BY <1>1, <2>2
  <2> QED BY <2>1, <2>2
<1>10. /\ SumFunction(NodesOf(new)) = Cardinality(done \cup {n})
       /\ SumFunction(FPsOf(new)) = SumFunctionOnSet(Footprints(h), done \cup {n})
  BY <1>3, <1>4, <1>5, <1>6, <1>7, <1>8 DEF SumFunction
<1> QED BY <1>3, <1>9, <1>10 DEF Reported

-----------------------------------------------------------------------------
(* The walk over the whole tree.                                           *)

CallNodes == [k \in DOMAIN calls |-> calls[k].node]

\* The calls of printTree are for the windows next under those in the report.
PrintInv(done) == Walk(nodes, done, CallNodes) /\ Reported(report, nodes, done)

ReportInv ==
  /\ OneParent(nodes)
  /\ phase \in {"reading", "forest"} => RootsInv
  /\ phase \in {"printing", "done"} => \E done : PrintInv(done)
  /\ phase = "done" => calls = << >>

LEMMA ReportInit == Init => ReportInv
<1> SUFFICES ASSUME Init PROVE ReportInv
  OBVIOUS
<1>1. nodes = << >> /\ phase = "reading" /\ report = [lvl \in {} |-> 0]
  BY DEF Init
<1>2. DOMAIN nodes = {} /\ DOMAIN report = {}
  BY <1>1
<1>3. Trees(nodes, Roots)
  BY <1>2 DEF Trees, OneParent
<1> QED BY <1>1, <1>2, <1>3 DEF ReportInv, RootsInv, Trees

LEMMA BuildForestReport ==
  ASSUME TreeInv, ReportInv, BuildForest
  PROVE  ReportInv'
<1> DEFINE t == BuildTree(nodes, forest)
           g == t.heap
           r == t.root
           q == Len(input) + 1
<1>1. /\ phase = "forest" /\ phase' = "printing" /\ nodes' = g
      /\ calls' = <<[node |-> r, lvl |-> 0, inSample |-> FALSE]>> /\ report' = report
  BY DEF BuildForest
<1>2. input \in Seq(Loads) /\ Heap(nodes, input) /\ Tiles(nodes, forest, 1, q) /\ Closed
  BY <1>1, AccessIsLoad DEF TreeInv, Open
<1>3. Trees(nodes, Roots) /\ DOMAIN report = {}
  BY <1>1 DEF ReportInv, RootsInv
<1>4. Trees(nodes, {} \cup ToSet(forest))
  <2>1. ToSet(windows) = {}
    BY <1>2 DEF Closed, ToSet
  <2>2. NULL \notin DOMAIN nodes
    BY <1>2, HeapSize DEF NULL
  <2>3. Roots \cap DOMAIN nodes \subseteq {} \cup ToSet(forest)
    BY <1>2, <2>1, <2>2 DEF Roots, Closed
  <2> QED BY <1>3, <2>3, TreesMore
<1>5. t = BuildTree(nodes, forest)
  OBVIOUS
<1> HIDE DEF t, q
<1>6. Trees(g, {} \cup {r})
  BY <1>2, <1>4, <1>5, TreesCalled
<1>7. Heap(g, input) /\ Tiles(g, <<r>>, 1, q)
  BY <1>2, <1>5, BuiltTree
<1> HIDE DEF g, r
<1>8. r \in DOMAIN g /\ ~ChildIn(g, r)
  <2>1. DOMAIN <<r>> = {1} /\ <<r>>[1] = r
    OBVIOUS
  <2>2. <<r>> \in Seq(DOMAIN g)
    BY <1>7 DEF Tiles
  <2> QED BY <1>7, <2>1, <2>2 DEF Tiles
<1>9. Walk(g, {}, <<r>>)
  BY <1>6, <1>8, WalkStarts
<1>10. CallNodes' = <<r>>
  <2> DEFINE c == [node |-> r, lvl |-> 0, inSample |-> FALSE]
             s == <<c>>
  <2>1. DOMAIN s = {1} /\ s[1].node = r
    OBVIOUS
  <2> HIDE DEF s
  <2>2. calls' = s
    BY <1>1 DEF s
  <2>3. CallNodes' = [k \in {1} |-> r]
    BY <2>1, <2>2 DEF CallNodes
  <2>4. <<r>> = [k \in {1} |-> r]
    OBVIOUS
  <2> QED BY <2>3, <2>4
<1>11. Reported(report, g, {})
  BY <1>3, NothingReported
<1>12. PrintInv({})'
  BY <1>1, <1>9, <1>10, <1>11 DEF PrintInv
<1>13. OneParent(nodes')
  BY <1>1, <1>6 DEF Trees
<1> QED BY <1>1, <1>12, <1>13 DEF ReportInv

\* The row a window is added to.
LEMMA RowIs ==
  ASSUME NEW lvl
  PROVE  /\ Row(lvl).nodes = IF lvl \in DOMAIN report THEN report[lvl].nodes ELSE 0
         /\ Row(lvl).fp = IF lvl \in DOMAIN report THEN report[lvl].fp ELSE 0
BY DEF Row

LEMMA PrintNodeReport ==
  ASSUME TreeInv, ReportInv, PrintNode
  PROVE  ReportInv'
<1> DEFINE call == Head(calls)
           n == call.node
           w == Measured(nodes[n])
           v == [w EXCEPT !.lvl = call.lvl]
           kids == Children(w)
           lvl == LevelOf(SizeOf(w))
           next == [k \in DOMAIN kids |->
                      [node |-> kids[k], lvl |-> call.lvl + 1,
                       inSample |-> call.inSample \/ w.sampleHead]]
           g == nodes'
           row == CallNodes
           c == Len(kids)
           m == Len(row)
<1>1. /\ phase = "printing" /\ calls # << >> /\ g = PutIn(nodes, n, v)
      /\ calls' = next \o Tail(calls) /\ phase' = phase
  BY DEF PrintNode, PutIn
<1>2. /\ DOMAIN report' = DOMAIN report \cup {lvl}
      /\ \A l \in DOMAIN report : l # lvl => report'[l] = report[l]
      /\ report'[lvl].nodes = Row(lvl).nodes + 1
      /\ report'[lvl].fp = Row(lvl).fp + w.metrics.fp
  BY DEF PrintNode
<1> HIDE DEF g, next, kids, n, lvl, row, c, m
<1>3. input \in Seq(Loads) /\ Heap(nodes, input) /\ calls \in Seq(Call(nodes))
  <2>1. input \in Seq(Access) /\ Heap(nodes, input) /\ calls \in Seq(Call(nodes))
    BY DEF TreeInv
  <2>2. input \in Seq(Loads)
    BY <2>1, AccessIsLoad
  <2> QED BY <2>1, <2>2
<1>4. OneParent(nodes) /\ \E done : PrintInv(done)
  BY <1>1 DEF ReportInv
<1>5. PICK done : Walk(nodes, done, row) /\ Reported(report, nodes, done)
  BY <1>4 DEF PrintInv, row
<1>6. /\ call \in Call(nodes) /\ call = calls[1]
      /\ row \in Seq(DOMAIN nodes) /\ row # << >> /\ m = Len(calls)
      /\ m \in Nat /\ 1 \in 1 .. m
      /\ DOMAIN row = 1 .. m /\ \A k \in 1 .. m : row[k] = calls[k].node
      /\ row[1] = n
  <2> DEFINE S == Call(nodes)
             D == DOMAIN nodes
             z == Len(calls)
  <2>1. \A x \in S : x.node \in D
    BY DEF Call
  <2>2. row = [k \in DOMAIN calls |-> calls[k].node]
    BY DEF row, CallNodes
  <2>3. calls \in Seq(S) /\ calls # << >>
    BY <1>1, <1>3
  <2> HIDE DEF S, D
  <2>4. /\ z \in Nat /\ DOMAIN calls = 1 .. z /\ z # 0
        /\ \A k \in 1 .. z : calls[k] \in S
        /\ Head(calls) = calls[1]
    BY <2>3
  <2> HIDE DEF z
  <2>5. 1 \in 1 .. z
    BY <2>4
  <2>6. row \in Seq(D) /\ Len(row) = z
    BY <2>1, <2>2, <2>4
  <2>7. row # << >>
    BY <2>4, <2>6
  <2>8. DOMAIN row = 1 .. z /\ \A k \in 1 .. z : row[k] = calls[k].node
    BY <2>2, <2>4
  <2> QED BY <2>4, <2>5, <2>6, <2>7, <2>8 DEF S, D, z, m, n
<1>7. n \in DOMAIN nodes /\ call.lvl \in Nat
  BY <1>6 DEF Call, n
<1>8. /\ nodes[n] \in HeapWindow /\ MetricsAre(nodes[n], UnderIn(nodes)[n])
      /\ UnderIn(nodes)[n] \in Seq(Loads)
      /\ nodes[n].left < n /\ nodes[n].right < n
      /\ nodes[n].left \in Nat /\ nodes[n].right \in Nat
      /\ n \in Nat /\ n <= Len(nodes) /\ Len(nodes) \in Nat /\ DOMAIN nodes = 1 .. Len(nodes)
  <2>1. nodes \in Seq(HeapWindow) /\ UnderIn(nodes)[n] \in Seq(Loads)
    BY <1>3, <1>7, HeapSize
  <2>2. MetricsAre(nodes[n], UnderIn(nodes)[n]) /\ Descending(nodes)
    BY <1>3, <1>7 DEF Heap
  <2> QED BY <1>7, <2>1, <2>2, HeapFacts DEF Descending
<1> HIDE DEF call, v, w
<1>9. /\ v \in HeapWindow /\ SameTree(v, nodes[n]) /\ MetricsAre(v, UnderIn(nodes)[n])
      /\ v.metrics # NoMetrics
  <2>1. v = [Measured(nodes[n]) EXCEPT !.lvl = call.lvl]
    BY DEF v, w
  <2> QED BY ZenonT(60), <1>7, <1>8, <2>1, MeasuredWindow
<1>10. w.left = nodes[n].left /\ w.right = nodes[n].right /\ w.metrics = v.metrics
  <2>1. v.left = w.left /\ v.right = w.right /\ v.metrics = w.metrics
    BY DEF v
  <2> QED BY <1>9, <2>1 DEF SameTree
<1>11. w.metrics.fp = Footprints(nodes)[n]
  <2> DEFINE u == UnderIn(nodes)[n]
             x == Cardinality(AddrsOf(u))
             y == Len(u) + ExtraOf(u)
  <2>1. w.metrics = [fp |-> x, size |-> y]
    BY <1>9, <1>10 DEF MetricsAre
  <2>2. Footprints(nodes)[n] = x
    BY <1>7 DEF Footprints
  <2> HIDE DEF x, y
  <2> QED BY <2>1, <2>2
<1>12. NULL \notin DOMAIN nodes /\ DOMAIN nodes \subseteq Nat /\ Descending(nodes)
  BY <1>3, <1>8 DEF NULL, Heap
<1>13. /\ w.left # NULL => w.left \in DOMAIN nodes
       /\ w.right # NULL => w.right \in DOMAIN nodes
       /\ w.left # NULL => w.left # w.right
  <2>1. \A i \in Nat : i < n /\ i # NULL => i \in DOMAIN nodes
    BY <1>8 DEF NULL
  <2>2. /\ w.left # NULL => w.left \in DOMAIN nodes
        /\ w.right # NULL => w.right \in DOMAIN nodes
    BY <1>8, <1>10, <2>1
  <2>3. w.left \in DOMAIN nodes => w.right # w.left
    BY <1>4, <1>7, <1>10 DEF OneParent
  <2> QED BY <2>2, <2>3
<1>14. kids \in Seq(DOMAIN nodes) /\ AreKids(kids, c, nodes[n].left, nodes[n].right)
  <2> DEFINE S == DOMAIN nodes
  <2>1. /\ w.left # NULL => w.left \in S
        /\ w.right # NULL => w.right \in S
        /\ w.left # NULL => w.left # w.right
        /\ kids = Children(w)
    BY <1>13 DEF kids
  <2> HIDE DEF S
  <2>2. kids \in Seq(S) /\ AreKids(kids, c, w.left, w.right)
    BY <2>1, KidsOf DEF c
  <2> QED BY <1>10, <2>2 DEF S
<1> DEFINE new == kids \o Tail(row)
<1>15. new = kids \o Tail(row)
  OBVIOUS
<1> HIDE DEF new
<1>16. Pushed(new, kids, row, c, m)
  BY <1>6, <1>14, <1>15, PushedRow DEF c, m
<1>17. n \in DOMAIN nodes \ done /\ Walk(nodes, done \cup {n}, new)
  <2> DEFINE h == nodes
  <2>1. /\ h[n].left # NULL => h[n].left \in DOMAIN h
        /\ h[n].right # NULL => h[n].right \in DOMAIN h
    BY <1>10, <1>13
  <2>2. /\ OneParent(h) /\ NULL \notin DOMAIN h /\ DOMAIN h \subseteq Nat /\ Descending(h)
        /\ Walk(h, done, row) /\ n = row[1] /\ Pushed(new, kids, row, c, m)
        /\ AreKids(kids, c, h[n].left, h[n].right)
    BY <1>4, <1>5, <1>6, <1>12, <1>14, <1>16
  <2> HIDE DEF h
  <2>3. n \in DOMAIN h \ done /\ Walk(h, done \cup {n}, new)
    BY ONLY <2>1, <2>2, WalkGoesOn
  <2> QED BY <2>3 DEF h
<1>18. /\ DOMAIN g = DOMAIN nodes
       /\ \A i \in DOMAIN nodes : g[i].left = nodes[i].left /\ g[i].right = nodes[i].right
  <2>1. /\ DOMAIN g = DOMAIN nodes
        /\ \A i \in DOMAIN nodes : g[i] = IF i = n THEN v ELSE nodes[i]
    BY <1>1, <1>8 DEF PutIn
  <2> QED BY <1>9, <2>1 DEF SameTree
<1>19. OneParent(g) /\ Walk(g, done \cup {n}, new)
  <2>1. OneParent(g)
    BY <1>4, <1>18 DEF OneParent
  <2>2. \A i : Waits(g, done \cup {n}, i) <=> Waits(nodes, done \cup {n}, i)
    BY <1>18 DEF Waits
  <2> QED BY <1>17, <1>18, <2>1, <2>2 DEF Walk
<1>20. Footprints(g) = Footprints(nodes)
  <2>1. \A i \in DOMAIN nodes : UnderIn(g)[i] = UnderIn(nodes)[i]
    BY PrintNodeTree DEF g
  <2> QED BY <1>18, <2>1 DEF Footprints
<1>21. CallNodes' = new
  <2> DEFINE rest == Tail(calls)
             S == Call(nodes)
             D == DOMAIN nodes
             z == Len(calls)
  <2>1. calls \in Seq(S) /\ calls # << >> /\ row \in Seq(D) /\ kids \in Seq(D)
    BY <1>1, <1>3, <1>6, <1>14
  <2>2. /\ rest \in Seq(S) /\ Len(rest) = z - 1 /\ DOMAIN rest = 1 .. z - 1 /\ z - 1 \in Nat
        /\ \A k \in 1 .. z - 1 : rest[k] = calls[k + 1]
    <3> HIDE DEF S
    <3> QED BY <2>1
  <2>3. Tail(row) \in Seq(D) /\ Len(Tail(row)) = z - 1
        /\ \A k \in 1 .. z - 1 : Tail(row)[k] = row[k + 1]
    <3> HIDE DEF D
    <3> QED BY <1>6, <2>1 DEF m
  <2>4. \A k \in 1 .. z - 1 : Tail(row)[k] = rest[k].node
    BY <1>6, <2>2, <2>3
  <2>5. next \in Seq(S) /\ Len(next) = c /\ \A k \in 1 .. c : next[k].node = kids[k]
    <3>1. kids \in Seq(D) /\ c \in Nat /\ DOMAIN kids = 1 .. c
      BY <2>1 DEF c
    <3>2. /\ next = [k \in 1 .. c |-> next[k]]
          /\ \A k \in 1 .. c : next[k] = [node |-> kids[k], lvl |-> call.lvl + 1,
                                          inSample |-> call.inSample \/ w.sampleHead]
      BY <3>1 DEF next
    <3>3. \A k \in 1 .. c : next[k] \in S
      <4> DEFINE l == call.lvl + 1
                 b == call.inSample \/ w.sampleHead
      <4>1. \A k \in 1 .. c : kids[k] \in D
        BY <3>1
      <4>2. l \in Nat /\ b \in BOOLEAN
        BY <1>7
      <4>3. \A k \in 1 .. c : next[k] = [node |-> kids[k], lvl |-> l, inSample |-> b]
        BY <3>2
      <4>4. \A x \in D : [node |-> x, lvl |-> l, inSample |-> b] \in S
        <5> HIDE DEF l, b
        <5> QED BY <4>2 DEF Call
      <4> HIDE DEF l, b, D, S, next
      <4> QED BY <4>1, <4>3, <4>4
    <3>4. \A k \in 1 .. c : next[k].node = kids[k]
      <4> HIDE DEF next
      <4> QED BY <3>2
    <3> HIDE DEF S, next, c
    <3>5. next \in Seq(S) /\ Len(next) = c
      BY <3>1, <3>2, <3>3
    <3> QED BY <3>4, <3>5
  <2> DEFINE both == next \o rest
  <2>6. /\ both \in Seq(S) /\ Len(both) = c + (z - 1)
        /\ \A k \in 1 .. c + (z - 1) : both[k] = IF k <= c THEN next[k] ELSE rest[k - c]
    <3> HIDE DEF S, rest, z, both, next, c
    <3>1. both = next \o rest /\ next \in Seq(S) /\ rest \in Seq(S)
      BY <2>2, <2>5 DEF both
    <3>2. /\ both \in Seq(S) /\ Len(both) = Len(next) + Len(rest)
          /\ \A k \in 1 .. Len(next) + Len(rest) :
               both[k] = IF k <= Len(next) THEN next[k] ELSE rest[k - Len(next)]
      BY <3>1, ConcatProperties
    <3> QED BY <2>2, <2>5, <3>2
  <2>7. /\ new \in Seq(D) /\ Len(new) = c + (z - 1)
        /\ \A k \in 1 .. c + (z - 1) : new[k] = IF k <= c THEN kids[k] ELSE Tail(row)[k - c]
    <3> DEFINE t == Tail(row)
    <3>1. new = kids \o t /\ kids \in Seq(D) /\ t \in Seq(D) /\ Len(t) = z - 1 /\ Len(kids) = c
      BY <1>15, <2>1, <2>3 DEF c
    <3> HIDE DEF t, D, z, c, kids
    <3>2. /\ new \in Seq(D) /\ Len(new) = c + (z - 1)
          /\ \A k \in 1 .. c + (z - 1) : new[k] = IF k <= c THEN kids[k] ELSE t[k - c]
      BY <3>1, ConcatProperties
    <3> QED BY <3>2 DEF t
  <2>8. c \in Nat
    BY <2>1 DEF c
  <2>9. calls' = both
    BY <1>1
  <2> DEFINE y == c + (z - 1)
  <2>10. DOMAIN both = 1 .. y /\ DOMAIN new = 1 .. y
    <3> HIDE DEF both, S, z
    <3> QED BY <2>6, <2>7
  <2> HIDE DEF both, S, rest, D, z
  <2>11. \A k \in 1 .. y : both[k].node = new[k]
    <3> SUFFICES ASSUME NEW k \in 1 .. y PROVE both[k].node = new[k]
      OBVIOUS
    <3>1. CASE k <= c
      <4>1. k \in 1 .. c
        BY <2>2, <2>8, <3>1
      <4> QED BY <2>5, <2>6, <2>7, <3>1, <4>1
    <3>2. CASE ~(k <= c)
      <4>1. k - c \in 1 .. z - 1
        BY <2>2, <2>8, <3>2
      <4> QED BY <2>4, <2>6, <2>7, <3>2, <4>1
    <3> QED BY <3>1, <3>2
  <2> HIDE DEF y
  <2>12. CallNodes' = [k \in 1 .. y |-> both[k].node]
    BY <2>9, <2>10 DEF CallNodes
  <2>13. new = [k \in 1 .. y |-> new[k]]
    <3>1. new = [k \in DOMAIN new |-> new[k]]
      BY <2>7
    <3> QED BY <2>10, <3>1
  <2> QED BY <2>11, <2>12, <2>13
<1>22. Reported(report', nodes, done \cup {n})
  <2>1. IsFiniteSet(DOMAIN nodes)
    <3> DEFINE z == Len(nodes)
    <3>1. z \in Nat /\ 1 \in Int /\ z \in Int /\ DOMAIN nodes = 1 .. z
      BY <1>8
    <3> HIDE DEF z
    <3> QED BY <3>1, FS_Interval
  <2>2. \A i \in DOMAIN nodes : Footprints(nodes)[i] \in Nat
    <3>1. \A i \in DOMAIN nodes : UnderIn(nodes)[i] \in Seq(Loads)
      BY <1>3, HeapSize
    <3> QED BY <3>1, CountsFootprint DEF Footprints
  <2>3. done \subseteq DOMAIN nodes
    BY <1>5 DEF Walk
  <2>4. /\ report'[lvl].nodes = (IF lvl \in DOMAIN report THEN report[lvl].nodes ELSE 0) + 1
        /\ report'[lvl].fp = (IF lvl \in DOMAIN report THEN report[lvl].fp ELSE 0)
                               + Footprints(nodes)[n]
    BY <1>2, <1>11, RowIs
  <2> DEFINE h == nodes
             new1 == report'
  <2>5. /\ IsFiniteSet(DOMAIN h) /\ \A i \in DOMAIN h : Footprints(h)[i] \in Nat
        /\ done \subseteq DOMAIN h /\ n \in DOMAIN h /\ n \notin done /\ Reported(report, h, done)
        /\ DOMAIN new1 = DOMAIN report \cup {lvl}
        /\ \A l \in DOMAIN report : l # lvl => new1[l] = report[l]
        /\ new1[lvl].nodes = (IF lvl \in DOMAIN report THEN report[lvl].nodes ELSE 0) + 1
        /\ new1[lvl].fp = (IF lvl \in DOMAIN report THEN report[lvl].fp ELSE 0)
                            + Footprints(h)[n]
    BY <1>2, <1>5, <1>17, <2>1, <2>2, <2>3, <2>4
  <2> HIDE DEF h, new1
  <2>6. Reported(new1, h, done \cup {n})
    BY ONLY <2>5, OneMoreReported
  <2> QED BY <2>6 DEF h, new1
<1>23. Reported(report', g, done \cup {n})
  BY <1>20, <1>22 DEF Reported
<1>24. \E d : PrintInv(d)'
  <2>1. PICK d : d = done \cup {n}
    OBVIOUS
  <2>2. Walk(g, d, new) /\ Reported(report', g, d)
    BY <1>19, <1>23, <2>1
  <2> HIDE DEF g
  <2>3. nodes' = g
    BY <1>1 DEF g
  <2>4. PrintInv(d)'
    BY <1>21, <2>2, <2>3 DEF PrintInv
  <2> QED BY <2>4
<1>25. phase' = "printing" /\ OneParent(nodes')
  BY <1>1, <1>19 DEF g
<1> QED BY <1>24, <1>25 DEF ReportInv

LEMMA ReportStep ==
  ASSUME TreeInv, ReportInv, [Next]_vars
  PROVE  ReportInv'
<1>1. CASE UNCHANGED vars
  BY <1>1 DEF vars, windowVars, countVars, printVars, ReportInv, RootsInv, Roots, PrintInv,
              CallNodes
<1>2. CASE EmptyTrace
  BY <1>2 DEF EmptyTrace, windowVars, countVars, printVars, ReportInv
<1>3. CASE Printed
  BY <1>3 DEF Printed, windowVars, countVars, printVars, ReportInv, PrintInv, CallNodes
<1>4. ASSUME NEW access \in Access,
             \/ FirstWindow(access)
             \/ ExtendWindow(access)
             \/ NextWindow(access)
             \/ CloseSample(access)
      PROVE  ReportInv'
  <2>1. phase = "reading" /\ phase' = "reading"
    BY <1>4 DEF FirstWindow, ExtendWindow, NextWindow, CloseSample, SameSample, IsAccess
  <2>2. RootsInv
    BY <2>1 DEF ReportInv
  <2>3. RootsInv'
    BY <1>4, <2>2, FirstWindowRoots, ExtendWindowRoots, NextWindowRoots, CloseSampleRoots
  <2> QED BY <2>1, <2>3 DEF ReportInv, RootsInv, Trees
<1>5. CASE EndOfTrace
  <2>1. phase = "reading" /\ phase' = "forest"
    BY <1>5 DEF EndOfTrace
  <2>2. RootsInv
    BY <2>1 DEF ReportInv
  <2>3. RootsInv'
    BY <1>5, <2>2, EndOfTraceRoots
  <2> QED BY <2>1, <2>3 DEF ReportInv, RootsInv, Trees
<1> QED BY <1>1, <1>2, <1>3, <1>4, <1>5, BuildForestReport, PrintNodeReport DEF Next

\* The report has every window of the run exactly once, with its footprint, for
\* traces of any length, any number of samples and any size of window, whatever
\* tree the windows form (main.cpp:148-221).
THEOREM ReportCompleteCorrect == Spec => []ReportComplete
<1>1. TreeInv /\ ReportInv => ReportComplete
  <2> SUFFICES ASSUME TreeInv, ReportInv, phase = "done"
               PROVE  /\ SumOf(NodesOf(report)) = Len(nodes)
                      /\ SumOf(FPsOf(report)) = SumOf(Footprints(nodes))
    BY DEF ReportComplete, NodesOf, FPsOf, Footprints, Under
  <2>1. PICK done : PrintInv(done)
    BY DEF ReportInv
  <2>2. CallNodes = << >>
    <3>1. calls = << >>
      BY DEF ReportInv
    <3> QED BY <3>1 DEF CallNodes
  <2>3. Len(nodes) \in Nat /\ DOMAIN nodes = 1 .. Len(nodes) /\ Descending(nodes)
    <3>1. nodes \in Seq(HeapWindow) /\ Descending(nodes)
      BY DEF TreeInv, Heap
    <3> QED BY <3>1
  <2>4. done = DOMAIN nodes
    BY <2>1, <2>2, <2>3, WalkEnds DEF PrintInv
  <2>5. Cardinality(done) = Len(nodes)
    <3> DEFINE n == Len(nodes)
    <3>1. n \in Nat /\ done = 1 .. n
      BY <2>3, <2>4
    <3> HIDE DEF n
    <3>2. Cardinality(1 .. n) = IF 1 > n THEN 0 ELSE n - 1 + 1
      BY <3>1, FS_Interval
    <3>3. Cardinality(1 .. n) = n
      BY <3>1, <3>2
    <3> QED BY <3>1, <3>3 DEF n
  <2>6. DOMAIN Footprints(nodes) = done
    BY <2>4 DEF Footprints
  <2> QED BY <2>1, <2>5, <2>6 DEF PrintInv, Reported, SumOf, SumFunction
<1>2. Init => TreeInv /\ ReportInv
  BY TreeInit, ReportInit
<1>3. TreeInv /\ ReportInv /\ [Next]_vars => TreeInv' /\ ReportInv'
  BY TreeStep, ReportStep
<1> QED BY <1>1, <1>2, <1>3, PTL DEF Spec
=============================================================================
