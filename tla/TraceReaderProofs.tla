-------------------------- MODULE TraceReaderProofs --------------------------
(***************************************************************************)
(* Proofs about TraceReader, for any classification, sample ids, files of  *)
(* any length.                                                             *)
(***************************************************************************)
EXTENDS TraceReader, SetsOfNumbers

(* The reader state is always well formed: TypeOK is inductive once it says *)
(* that ip_to_add and the focus trace point into the trace.                 *)
Pointers ==
  /\ ipToAdd \in 0 .. Len(trace)
  /\ funcTrace \in Seq(1 .. Len(trace))
  /\ funcLastIndex \in 0 .. Len(funcTrace)
  /\ funcTrace # << >> => funcLastIndex < Len(funcTrace)

TypeInv == TypeOK /\ (phase = "reading" => Pointers)

LEMMA InitType == Init => TypeInv
<1> SUFFICES ASSUME Init PROVE TypeInv
  OBVIOUS
<1> USE DEF Init
<1>1. anyLM \in BOOLEAN /\ isInFunc \in BOOLEAN
  OBVIOUS
<1>2. /\ phase \in {"reading", "done", "crashed"}
      /\ section \in {"none", "dso", "trace"}
      /\ input \in Seq(Record)
      /\ trace \in Seq(Access)
      /\ prevSampleID \in Nat
      /\ sampleID \in Nat
      /\ missing \in Nat
      /\ ipToAdd \in Nat
      /\ removed \in Nat
      /\ funcTrace \in Seq(Nat)
      /\ funcLastIndex \in Nat
  OBVIOUS
<1>3. pending \subseteq Lines /\ lost \subseteq Lines /\ filtered \subseteq Lines
  OBVIOUS
<1>4. TypeOK
  BY <1>1, <1>2, <1>3 DEF TypeOK
<1>5. Pointers
  BY DEF Pointers
<1> QED BY <1>4, <1>5 DEF TypeInv

LEMMA RecordLines ==
  ASSUME TypeInv, NEW r \in Record, IsRecord(r)
  PROVE  /\ input' \in Seq(Record)
         /\ Len(input') = Len(input) + 1
         /\ Lines \subseteq Lines'
         /\ Len(input) + 1 \in Lines'
         /\ Len(input) + 1 \in Nat
         /\ Lines \subseteq Nat
         /\ phase = "reading" /\ phase' = "reading"
         /\ section' \in {"none", "dso", "trace"}
         /\ anyLM' \in BOOLEAN
         /\ Pointers
  BY DEF TypeInv, TypeOK, IsRecord, Lines

LEMMA ConstantTypes ==
  /\ ExtraModulus \in Nat \ {0}
  /\ SampleIDs \subseteq Nat
  /\ FrameLds \in [IPs -> Nat]
<1>1. ExtraModulus \in Nat \ {0}
  BY ConstantsAssumption
<1>2. SampleIDs \subseteq Nat
  BY ConstantsAssumption
<1>3. FrameLds \in [IPs -> Nat]
  BY ConstantsAssumption
<1> QED BY <1>1, <1>2, <1>3

LEMMA WeightType ==
  ASSUME NEW ip \in IPs
  PROVE  Weight(ip) \in Nat /\ FrameLds[ip] \in Nat
  BY ConstantTypes DEF Weight

LEMMA ModType ==
  ASSUME NEW n \in Nat
  PROVE  n % ExtraModulus \in 0 .. ExtraModulus - 1
  BY ConstantTypes

\* The conjuncts of the invariant that every record line but its handler keeps.
LEMMA HeaderType ==
  ASSUME TypeInv, UNCHANGED <<input, filtered, readerVars, focusVars>>,
         phase = "reading", phase' = phase,
         section' \in {"none", "dso", "trace"}, anyLM' \in BOOLEAN
  PROVE  TypeInv'
<1> USE DEF TypeInv, readerVars, focusVars
<1>1. TypeOK'
  BY DEF TypeOK, Lines
<1>2. Pointers'
  BY DEF Pointers
<1> QED BY <1>1, <1>2

\* No record changes the option.
LEMMA FocusKept ==
  ASSUME TypeInv, NEW ip \in IPs, FollowFocus(ip)
  PROVE  focus' \in FocusModes
<1>1. focus \in FocusModes
  BY DEF TypeInv, TypeOK
<1>2. focus' = focus
  BY DEF FollowFocus, focusVars
<1> QED BY <1>1, <1>2

LEMMA FocusType ==
  ASSUME TypeInv, phase = "reading", NEW ip \in IPs, FollowFocus(ip),
         Len(trace') = Len(trace) + 1
  PROVE  /\ isInFunc' \in BOOLEAN
         /\ funcLastIndex' \in Nat
         /\ funcTrace' \in Seq(1 .. Len(trace'))
         /\ funcLastIndex' \in 0 .. Len(funcTrace')
         /\ funcTrace' # << >> => funcLastIndex' < Len(funcTrace')
<1> USE DEF TypeInv, Pointers
<1>1. /\ trace \in Seq(Access) /\ Len(trace) \in Nat
      /\ isInFunc \in BOOLEAN /\ funcLastIndex \in Nat
      /\ funcTrace \in Seq(1 .. Len(trace))
      /\ funcTrace \in Seq(1 .. Len(trace'))
      /\ funcLastIndex \in 0 .. Len(funcTrace)
  BY DEF TypeOK
<1>2. CASE UNCHANGED focusVars
  BY <1>1, <1>2 DEF focusVars
<1>3. CASE /\ isInFunc' = TRUE
           /\ funcLastIndex' = Len(funcTrace)
           /\ funcTrace' = Append(funcTrace, Len(trace) + 1)
  <2>1. isInFunc' \in BOOLEAN
    BY <1>3
  <2>2. funcLastIndex' \in Nat /\ Len(funcTrace') = Len(funcTrace) + 1
    BY <1>1, <1>3
  <2>3. funcTrace' \in Seq(1 .. Len(trace'))
    BY <1>1, <1>3
  <2> QED BY <2>1, <2>2, <2>3, <1>3, <1>1
<1>4. CASE /\ funcTrace' = IF isInFunc THEN Append(funcTrace, Len(trace) + 1)
                                       ELSE funcTrace
           /\ UNCHANGED <<isInFunc, funcLastIndex>>
  <2>1. CASE funcTrace' = funcTrace
    BY <2>1, <1>1, <1>4
  <2>2. CASE funcTrace' = Append(funcTrace, Len(trace) + 1)
    <3>1. /\ Len(funcTrace') = Len(funcTrace) + 1
          /\ funcTrace' \in Seq(1 .. Len(trace'))
      BY <1>1, <2>2
    <3> QED BY <3>1, <1>1, <1>4
  <2> QED BY <2>1, <2>2, <1>4
<1> QED BY <1>2, <1>3, <1>4 DEF FollowFocus

\* Amending the access ip_to_add points to keeps the trace well formed.
LEMMA AmendType ==
  ASSUME TypeInv, phase = "reading", ipToAdd # 0,
         trace' = [trace EXCEPT ![ipToAdd] = Amend(@)]
  PROVE  /\ trace' \in Seq(Access)
         /\ Len(trace') = Len(trace)
         /\ ipToAdd \in DOMAIN trace
         /\ trace'[ipToAdd] = Amend(trace[ipToAdd])
         /\ \A i \in DOMAIN trace : i # ipToAdd => trace'[i] = trace[i]
<1>1. /\ trace \in Seq(Access) /\ ipToAdd \in DOMAIN trace
      /\ missing \in Nat /\ pending \subseteq Nat
  BY DEF TypeInv, TypeOK, Pointers, Lines
<1>2. trace[ipToAdd] \in Access
  BY <1>1
<1>3. (trace[ipToAdd].extra + missing) % ExtraModulus \in 0 .. ExtraModulus - 1
  <2>1. trace[ipToAdd].extra \in 0 .. ExtraModulus - 1
    BY <1>2 DEF Access
  <2>2. trace[ipToAdd].extra + missing \in Nat
    BY <2>1, <1>1, ConstantTypes
  <2> QED BY <2>2, ModType
<1>4. Amend(trace[ipToAdd]) \in Access
  BY <1>1, <1>2, <1>3 DEF Amend, Access
<1> QED BY <1>1, <1>4

\* An access StoreLoad appends is well formed.
LEMMA StoredType ==
  ASSUME TypeInv, NEW r \in Record, StoreLoad(r)
  PROVE  /\ trace' \in Seq(Access)
         /\ Len(trace') = Len(trace) + 1
         /\ sampleID' \in Nat
         /\ sampleID' = IF NewSample(r) THEN sampleID + 1 ELSE sampleID
         /\ \A i \in DOMAIN trace : trace'[i] = trace[i]
         /\ trace'[Len(trace')] =
              [line |-> Len(input) + 1, in |-> r.sample, ip |-> r.ip,
               sample |-> sampleID', extra |-> StoredExtra(r.ip),
               from |-> pending]
<1> DEFINE new == [line |-> Len(input) + 1, in |-> r.sample, ip |-> r.ip,
                   sample |-> sampleID', extra |-> StoredExtra(r.ip),
                   from |-> pending]
<1>1. /\ trace \in Seq(Access) /\ missing \in Nat /\ pending \subseteq Nat
      /\ Len(input) + 1 \in Nat /\ sampleID \in Nat
      /\ r.ip \in IPs /\ r.sample \in SampleIDs /\ r.sample \in Nat
  <2>1. trace \in Seq(Access) /\ missing \in Nat /\ sampleID \in Nat
    BY DEF TypeInv, TypeOK
  <2>2. pending \subseteq Nat /\ Len(input) + 1 \in Nat
    BY DEF TypeInv, TypeOK, Lines
  <2>3. r.ip \in IPs /\ r.sample \in SampleIDs
    BY DEF Record
  <2> QED BY <2>1, <2>2, <2>3, ConstantTypes
<1>2. StoredExtra(r.ip) \in 0 .. ExtraModulus - 1
  <2>1. FrameLds[r.ip] + missing \in Nat
    BY <1>1, WeightType
  <2> QED BY <2>1, ModType DEF StoredExtra
<1>3. /\ sampleID' \in Nat
      /\ sampleID' = IF NewSample(r) THEN sampleID + 1 ELSE sampleID
  BY <1>1 DEF StoreLoad
<1>4. new \in Access
  BY <1>1, <1>2, <1>3 DEF Access
<1>5. trace' = Append(trace, new)
  BY DEF StoreLoad
<1> HIDE DEF new
<1>6. /\ trace' \in Seq(Access)
      /\ Len(trace') = Len(trace) + 1
      /\ \A i \in DOMAIN trace : trace'[i] = trace[i]
      /\ trace'[Len(trace')] = new
  BY <1>1, <1>4, <1>5
<1> QED BY <1>3, <1>6 DEF new

\* What EndOfFile keeps of a focused trace is well formed.
LEMMA FocusTraceType ==
  ASSUME TypeInv, phase = "reading", funcTrace # << >>
  PROVE  FocusTrace \in Seq(Access)
<1>1. /\ funcLastIndex + 1 \in Nat
      /\ \A i \in 1 .. funcLastIndex + 1 : trace[funcTrace[i]] \in Access
  BY DEF TypeInv, TypeOK, Pointers
<1> QED BY <1>1 DEF FocusTrace

LEMMA NextType == TypeInv /\ [Next]_vars => TypeInv'
<1> SUFFICES ASSUME TypeInv, [Next]_vars PROVE TypeInv'
  OBVIOUS
<1>1. CASE ReadDsoHeader \/ ReadTraceHeader \/ ReadDsoEntry
  <2>1. /\ section' \in {"none", "dso", "trace"}
        /\ anyLM \in BOOLEAN
    BY <1>1 DEF ReadDsoHeader, ReadTraceHeader, ReadDsoEntry, TypeInv, TypeOK
  <2>2. anyLM' \in BOOLEAN
    BY <1>1, <2>1 DEF ReadDsoHeader, ReadTraceHeader, ReadDsoEntry
  <2> QED BY <1>1, <2>1, <2>2, HeaderType
            DEF ReadDsoHeader, ReadTraceHeader, ReadDsoEntry
<1>2. ASSUME NEW r \in Record, SkipRecord(r) PROVE TypeInv'
  <2> USE <1>2 DEF SkipRecord
  <2>1. TypeOK'
    BY RecordLines DEF TypeInv, TypeOK, readerVars, focusVars
  <2>2. Pointers'
    BY RecordLines DEF Pointers, readerVars, focusVars
  <2> QED BY <2>1, <2>2 DEF TypeInv
<1>3. ASSUME NEW r \in Record, FoldConstant(r) PROVE TypeInv'
  <2> USE <1>3 DEF FoldConstant
  <2>1. missing' \in Nat
    BY WeightType DEF TypeInv, TypeOK, Record
  <2>2. pending' \subseteq Lines'
    BY RecordLines DEF TypeInv, TypeOK
  <2>3. TypeOK'
    BY <2>1, <2>2, RecordLines DEF TypeInv, TypeOK, focusVars
  <2>4. Pointers'
    BY RecordLines DEF Pointers, focusVars
  <2> QED BY <2>3, <2>4 DEF TypeInv
<1>4. ASSUME NEW r \in Record, ConstantOfNewSample(r) PROVE TypeInv'
  <2>1. missing' \in Nat /\ removed' \in Nat
    BY <1>4, WeightType DEF ConstantOfNewSample, TypeInv, TypeOK, Record
  <2>2. trace' \in Seq(Access) /\ Len(trace') = Len(trace)
    BY <1>4, AmendType, RecordLines DEF ConstantOfNewSample, TypeInv, TypeOK
  <2>3. pending' \subseteq Lines' /\ lost' \subseteq Lines'
    BY <1>4, RecordLines DEF ConstantOfNewSample, TypeInv, TypeOK
  <2>4. TypeOK'
    BY <1>4, <2>1, <2>2, <2>3, RecordLines
       DEF ConstantOfNewSample, TypeInv, TypeOK, focusVars
  <2>5. Pointers'
    BY <1>4, <2>2, RecordLines DEF ConstantOfNewSample, Pointers, focusVars
  <2> QED BY <2>4, <2>5 DEF TypeInv
<1>5. ASSUME NEW r \in Record, StoreLoad(r) PROVE TypeInv'
  <2>1. /\ trace' \in Seq(Access) /\ Len(trace') = Len(trace) + 1
        /\ sampleID' \in Nat
    BY <1>5, StoredType
  <2>2. r.ip \in IPs /\ prevSampleID' \in Nat
    BY <1>5, ConstantTypes DEF StoreLoad, Record
  <2>3. /\ missing' \in Nat /\ ipToAdd' \in 0 .. Len(trace') /\ ipToAdd' \in Nat
        /\ pending' \subseteq Lines'
    <3>1. Len(trace) \in Nat
      BY DEF TypeInv, TypeOK
    <3> QED BY <1>5, <2>1, <3>1 DEF StoreLoad, ResetMissing, NextToAdd
  <2>4. /\ isInFunc' \in BOOLEAN
        /\ funcLastIndex' \in Nat
        /\ funcTrace' \in Seq(1 .. Len(trace'))
        /\ funcLastIndex' \in 0 .. Len(funcTrace')
        /\ funcTrace' # << >> => funcLastIndex' < Len(funcTrace')
    BY <1>5, <2>1, <2>2, FocusType, RecordLines DEF StoreLoad
  <2>5. funcTrace' \in Seq(Nat)
    BY <2>4, <2>1
  <2>6. /\ removed' \in Nat /\ lost' \subseteq Lines' /\ filtered' \subseteq Lines'
    BY <1>5, RecordLines DEF StoreLoad, TypeInv, TypeOK
  <2>9. focus' \in FocusModes
    BY <1>5, <2>2, FocusKept DEF StoreLoad
  <2>7. TypeOK'
    BY <1>5, <2>1, <2>2, <2>3, <2>4, <2>5, <2>6, <2>9, RecordLines
       DEF StoreLoad, TypeOK
  <2>8. Pointers'
    BY <2>3, <2>4 DEF Pointers
  <2> QED BY <2>7, <2>8 DEF TypeInv
<1>6. CASE EndOfFile
  <2> USE <1>6 DEF EndOfFile
  <2>1. trace' \in Seq(Access)
    BY FocusTraceType DEF TypeInv, TypeOK
  <2>2. lost' \subseteq Lines' /\ pending' \subseteq Lines' /\ filtered' \subseteq Lines'
    BY DEF TypeInv, TypeOK, Lines
  <2>3. phase' \in {"done", "crashed"}
    OBVIOUS
  <2>4. TypeOK'
    BY <2>1, <2>2, <2>3 DEF TypeInv, TypeOK, focusVars
  <2> QED BY <2>3, <2>4 DEF TypeInv
<1>7. CASE UNCHANGED vars
  <2>1. TypeOK'
    BY <1>7 DEF TypeInv, TypeOK, vars, readerVars, focusVars, Lines
  <2>2. phase' = phase /\ (Pointers => Pointers')
    BY <1>7 DEF Pointers, vars, readerVars, focusVars
  <2> QED BY <2>1, <2>2 DEF TypeInv
<1> QED BY <1>1, <1>2, <1>3, <1>4, <1>5, <1>6, <1>7 DEF Next

\* The reader's state is well formed in every reachable state, whatever the
\* file and the classification: no count goes negative, and ip_to_add and the
\* focus trace always name accesses that exist (main.cpp:604-791).
THEOREM TypeCorrect == Spec => []TypeOK
<1>1. TypeInv => TypeOK
  BY DEF TypeInv
<1> QED BY InitType, NextType, <1>1, PTL DEF Spec

-----------------------------------------------------------------------------
(* The order of the stored accesses.  OrderInv relates the trace to the     *)
(* file: it is what makes FoldedNearby, SamplesRenumbered and               *)
(* LostAtSampleHead inductive.                                              *)

InputSorted ==
  \A k, l \in Lines : k <= l => input[k].sample <= input[l].sample

StoredInOrder ==
  /\ \A i \in DOMAIN trace :
       /\ trace[i].line \in Lines
       /\ trace[i].in = input[trace[i].line].sample
       /\ trace[i].from \subseteq Lines
  /\ \A i, j \in DOMAIN trace : i < j => trace[i].line < trace[j].line

\* prev_sampleID and sampleID describe the last stored access.
LastStored ==
  \/ trace = << >> /\ prevSampleID = 0 /\ sampleID = 0 /\ ipToAdd = 0
  \/ /\ trace # << >>
     /\ prevSampleID = trace[Len(trace)].in
     /\ sampleID = trace[Len(trace)].sample
     /\ ipToAdd \in {0, Len(trace)}

PendingLast == \A l \in pending : \A i \in DOMAIN trace : trace[i].line < l

\* Once ip_to_add is used up, the file is past the last stored sample.
PastLastSample ==
  trace # << >> /\ ipToAdd = 0 =>
    /\ input # << >> /\ prevSampleID < input[Len(input)].sample
    /\ \A l \in pending : prevSampleID < input[l].sample

FocusInOrder ==
  \A i, j \in DOMAIN funcTrace : i < j => funcTrace[i] < funcTrace[j]

OrderInv ==
  /\ InputSorted
  /\ StoredInOrder
  /\ LastStored
  /\ PendingLast
  /\ PastLastSample
  /\ FocusInOrder
  /\ LostAtSampleHead

ReaderInv ==
  /\ TypeInv
  /\ phase = "reading" => OrderInv
  /\ FoldedNearby
  /\ SamplesRenumbered

\* Reading a record appends it and keeps the file sorted.
LEMMA RecordAppended ==
  ASSUME TypeInv, InputSorted, NEW r \in Record, IsRecord(r)
  PROVE  /\ Lines' = Lines \cup {Len(input) + 1}
         /\ Lines = 1 .. Len(input) /\ Len(input) \in Nat
         /\ input' # << >> /\ Len(input') = Len(input) + 1
         /\ input'[Len(input) + 1] = r
         /\ \A l \in Lines : input'[l] = input[l] /\ input'[l].sample \in Nat
         /\ r.sample \in Nat
         /\ \A l \in Lines : input[l].sample <= r.sample
         /\ InputSorted'
<1>1. input \in Seq(Record) /\ input' = Append(input, r) /\ Len(input) \in Nat
  BY DEF TypeInv, TypeOK, IsRecord
<1>2. \A q \in Record : q.sample \in Nat
  BY ConstantTypes DEF Record
<1>3. /\ Lines' = Lines \cup {Len(input) + 1} /\ Lines = 1 .. Len(input)
      /\ input' # << >> /\ Len(input') = Len(input) + 1
      /\ input'[Len(input) + 1] = r
      /\ \A l \in Lines : input'[l] = input[l] /\ input[l] \in Record
  BY <1>1 DEF Lines
<1>4. \A l \in Lines : input[l].sample \in Nat
  BY <1>2, <1>3
<1>5. \A l \in Lines : input[l].sample <= r.sample
  <2>1. CASE input = << >>
    BY <1>1, <1>3, <2>1
  <2>2. CASE input # << >>
    <3>1. input[Len(input)].sample <= r.sample /\ Len(input) \in Lines
      BY <1>1, <1>3, <2>2 DEF IsRecord
    <3>2. \A l \in Lines : input[l].sample <= input[Len(input)].sample
      BY <1>1, <1>3, <3>1 DEF InputSorted
    <3> QED BY <3>1, <3>2, <1>2, <1>4
  <2> QED BY <2>1, <2>2
<1>6. InputSorted'
  BY <1>2, <1>3, <1>5, <1>1 DEF InputSorted
<1> QED BY <1>1, <1>2, <1>3, <1>4, <1>5, <1>6

LEMMA AccessType ==
  ASSUME NEW access \in Access
  PROVE  access.in \in Nat /\ access.line \in Nat /\ access.sample \in Nat
<1>1. access.in \in SampleIDs /\ access.line \in Nat /\ access.sample \in Nat
  BY DEF Access
<1> QED BY <1>1, ConstantTypes

\* The ids in the file of the stored accesses never exceed prev_sampleID.
LEMMA StoredUpToPrev ==
  ASSUME TypeInv, InputSorted, StoredInOrder, LastStored
  PROVE  /\ \A i \in DOMAIN trace : /\ trace[i].in \in Nat
                                    /\ trace[i].in <= prevSampleID
         /\ \A i, j \in DOMAIN trace : i < j => trace[i].in <= trace[j].in
<1>1. trace \in Seq(Access) /\ Len(trace) \in Nat
  BY DEF TypeInv, TypeOK
<1>2. Lines \subseteq Nat
  BY DEF TypeInv, TypeOK, Lines
<1>3. \A i \in DOMAIN trace : trace[i].in \in Nat /\ trace[i].line \in Nat
  BY <1>1, AccessType
<1>4. \A i, j \in DOMAIN trace : i < j => trace[i].in <= trace[j].in
  BY <1>2, <1>3 DEF InputSorted, StoredInOrder
<1>5. \A i \in DOMAIN trace : trace[i].in <= prevSampleID
  <2> SUFFICES ASSUME NEW i \in DOMAIN trace PROVE trace[i].in <= prevSampleID
    OBVIOUS
  <2>1. trace # << >> /\ Len(trace) \in DOMAIN trace /\ i <= Len(trace)
    BY <1>1
  <2>2. prevSampleID = trace[Len(trace)].in
    BY <2>1 DEF LastStored
  <2>3. CASE i = Len(trace)
    BY <2>2, <2>3, <1>3
  <2>4. CASE i < Len(trace)
    BY <2>1, <2>2, <2>4, <1>4
  <2> QED BY <2>1, <2>3, <2>4, <1>1
<1> QED BY <1>3, <1>4, <1>5

LEMMA InitReader == Init => ReaderInv
<1> SUFFICES ASSUME Init PROVE ReaderInv
  OBVIOUS
<1>1. TypeInv
  BY InitType
<1>2. trace = << >> /\ funcTrace = << >> /\ input = << >> /\ lost = {} /\ pending = {}
  BY DEF Init
<1>3. OrderInv
  BY <1>2 DEF Init, OrderInv, InputSorted, StoredInOrder, LastStored, PendingLast,
     PastLastSample, FocusInOrder, LostAtSampleHead, Lines
<1>4. FoldedNearby /\ SamplesRenumbered
  BY <1>2 DEF FoldedNearby, SamplesRenumbered
<1> QED BY <1>1, <1>3, <1>4 DEF ReaderInv

\* SkipRecord only makes the file longer.
LEMMA SkipReader ==
  ASSUME ReaderInv, NEW r \in Record, SkipRecord(r)
  PROVE  ReaderInv'
<1> USE DEF SkipRecord, readerVars, focusVars
<1>1. TypeInv' /\ TypeInv /\ OrderInv /\ phase' = "reading"
  BY NextType, RecordLines DEF ReaderInv, Next, TypeInv
<1>2. /\ Lines' = Lines \cup {Len(input) + 1}
      /\ \A l \in Lines : input'[l] = input[l] /\ input'[l].sample \in Nat
      /\ input' # << >> /\ Len(input') = Len(input) + 1
      /\ input'[Len(input) + 1] = r
      /\ \A l \in Lines : input[l].sample <= r.sample
      /\ r.sample \in Nat
      /\ InputSorted'
  BY <1>1, RecordAppended DEF OrderInv
<1>3. trace \in Seq(Access) /\ pending \subseteq Lines /\ lost \subseteq Lines
      /\ prevSampleID \in Nat /\ input \in Seq(Record)
  BY <1>1 DEF TypeInv, TypeOK
<1>4. StoredInOrder' /\ LastStored' /\ PendingLast' /\ FocusInOrder'
  BY <1>1, <1>2 DEF OrderInv, StoredInOrder, LastStored, PendingLast, FocusInOrder
<1>5. PastLastSample'
  BY <1>1, <1>2, <1>3 DEF OrderInv, PastLastSample, Lines
<1>6. LostAtSampleHead'
  BY <1>1, <1>2, <1>3, RecordLines DEF OrderInv, LostAtSampleHead
<1>7. FoldedNearby' /\ SamplesRenumbered'
  BY DEF ReaderInv, FoldedNearby, SamplesRenumbered
<1> QED BY <1>1, <1>2, <1>4, <1>5, <1>6, <1>7 DEF ReaderInv, OrderInv

\* A frame load of the same sample joins the pending ones.
LEMMA FoldReader ==
  ASSUME ReaderInv, NEW r \in Record, FoldConstant(r)
  PROVE  ReaderInv'
<1> USE DEF FoldConstant, focusVars
<1>1. TypeInv' /\ TypeInv /\ OrderInv /\ phase' = "reading"
  BY NextType, RecordLines DEF ReaderInv, Next, TypeInv
<1>2. /\ Lines' = Lines \cup {Len(input) + 1}
      /\ Lines = 1 .. Len(input) /\ Len(input) \in Nat
      /\ \A l \in Lines : input'[l] = input[l] /\ input'[l].sample \in Nat
      /\ input' # << >> /\ Len(input') = Len(input) + 1
      /\ input'[Len(input) + 1] = r
      /\ \A l \in Lines : input[l].sample <= r.sample
      /\ r.sample \in Nat
      /\ InputSorted'
  BY <1>1, RecordAppended DEF OrderInv
<1>3. trace \in Seq(Access) /\ pending \subseteq Lines /\ lost \subseteq Lines
      /\ prevSampleID \in Nat /\ input \in Seq(Record)
  BY <1>1 DEF TypeInv, TypeOK
<1>4. StoredInOrder' /\ LastStored' /\ FocusInOrder'
  BY <1>1, <1>2 DEF OrderInv, StoredInOrder, LastStored, FocusInOrder
<1>5. PendingLast'
  BY <1>1, <1>2, <1>3 DEF OrderInv, PendingLast, StoredInOrder
<1>6. PastLastSample'
  <2> SUFFICES ASSUME trace # << >>, ipToAdd = 0
               PROVE  /\ prevSampleID < r.sample
                      /\ \A l \in pending : prevSampleID < input'[l].sample
    BY <1>2 DEF PastLastSample
  <2>1. /\ input # << >> /\ prevSampleID < input[Len(input)].sample
        /\ \A l \in pending : prevSampleID < input[l].sample
    BY <1>1 DEF OrderInv, PastLastSample
  <2>2. Len(input) \in Lines
    BY <2>1, <1>2, <1>3
  <2>3. /\ input[Len(input)].sample \in Nat
        /\ input[Len(input)].sample <= r.sample
    BY <2>2, <1>2
  <2>4. prevSampleID < r.sample
    BY <2>1, <2>3, <1>2, <1>3
  <2>5. \A l \in pending : input'[l] = input[l]
    BY <1>2, <1>3
  <2> QED BY <2>1, <2>4, <2>5
<1>7. LostAtSampleHead'
  <2> SUFFICES ASSUME NEW l \in lost, NEW i \in DOMAIN trace,
                      trace[i].line < l
               PROVE  trace[i].in # input'[l].sample
    BY <1>1, RecordLines DEF LostAtSampleHead
  <2>1. phase = "reading" /\ l \in Lines
    BY <1>1, <1>3, RecordLines
  <2> QED BY <2>1, <1>1, <1>2 DEF OrderInv, LostAtSampleHead
<1>8. FoldedNearby' /\ SamplesRenumbered'
  BY DEF ReaderInv, FoldedNearby, SamplesRenumbered
<1> QED BY <1>1, <1>2, <1>4, <1>5, <1>6, <1>7, <1>8 DEF ReaderInv, OrderInv

\* A frame load of another sample: pending loads join the last stored access,
\* or are lost, in which case that sample has no stored access before them.
LEMMA NewSampleReader ==
  ASSUME ReaderInv, NEW r \in Record, ConstantOfNewSample(r)
  PROVE  ReaderInv'
<1> USE DEF ConstantOfNewSample, focusVars
<1>1. TypeInv' /\ TypeInv /\ OrderInv /\ phase = "reading" /\ phase' = "reading"
  BY NextType, RecordLines DEF ReaderInv, Next, TypeInv
<1>2. /\ Lines' = Lines \cup {Len(input) + 1}
      /\ Lines = 1 .. Len(input) /\ Len(input) \in Nat
      /\ \A l \in Lines : input'[l] = input[l] /\ input'[l].sample \in Nat
      /\ input' # << >> /\ Len(input') = Len(input) + 1
      /\ input'[Len(input) + 1] = r
      /\ \A l \in Lines : input[l].sample <= r.sample
      /\ r.sample \in Nat
      /\ InputSorted'
  BY <1>1, RecordAppended DEF OrderInv
<1>3. trace \in Seq(Access) /\ pending \subseteq Lines /\ lost \subseteq Lines
      /\ prevSampleID \in Nat /\ Len(trace) \in Nat
  BY <1>1 DEF TypeInv, TypeOK
<1>4. trace # << >> /\ prevSampleID = trace[Len(trace)].in
      /\ sampleID = trace[Len(trace)].sample /\ ipToAdd \in {0, Len(trace)}
  BY <1>1 DEF OrderInv, LastStored, NewSample
<1>5. prevSampleID < r.sample
  <2>1. trace[Len(trace)].line \in Lines
        /\ prevSampleID = input[trace[Len(trace)].line].sample
    BY <1>1, <1>3, <1>4 DEF OrderInv, StoredInOrder
  <2>2. prevSampleID <= r.sample /\ prevSampleID # r.sample
    BY <2>1, <1>2 DEF NewSample
  <2> QED BY <2>2, <1>2, <1>3
<1>6. /\ Len(trace') = Len(trace) /\ DOMAIN trace' = DOMAIN trace
      /\ \A i \in DOMAIN trace :
           /\ trace'[i].line = trace[i].line /\ trace'[i].in = trace[i].in
           /\ trace'[i].sample = trace[i].sample
           /\ trace'[i].from = trace[i].from
                \/ (i = Len(trace) /\ trace'[i].from = trace[i].from \cup pending)
  <2>1. CASE trace' = trace
    BY <2>1
  <2>2. CASE ipToAdd # 0 /\ trace' = [trace EXCEPT ![ipToAdd] = Amend(@)]
    <3>1. /\ trace' \in Seq(Access) /\ Len(trace') = Len(trace)
          /\ trace'[ipToAdd] = Amend(trace[ipToAdd])
          /\ \A i \in DOMAIN trace : i # ipToAdd => trace'[i] = trace[i]
          /\ trace[ipToAdd] \in Access
      BY <2>2, <1>1, <1>3, AmendType
    <3>2. LET a == trace[ipToAdd] IN
            /\ Amend(a).line = a.line /\ Amend(a).in = a.in
            /\ Amend(a).sample = a.sample /\ Amend(a).from = a.from \cup pending
      BY <3>1 DEF Amend, Access
    <3> QED BY <3>1, <3>2, <2>2, <1>3, <1>4
  <2> QED BY <2>1, <2>2
<1>7. StoredInOrder'
  <2>1. \A i \in DOMAIN trace : /\ trace[i].line \in Lines
                                /\ trace[i].in = input[trace[i].line].sample
                                /\ trace[i].from \subseteq Lines
    BY <1>1 DEF OrderInv, StoredInOrder
  <2>2. \A i \in DOMAIN trace' : /\ trace'[i].line \in Lines'
                                 /\ trace'[i].in = input'[trace'[i].line].sample
    BY <2>1, <1>2, <1>6
  <2>3. ASSUME NEW i \in DOMAIN trace' PROVE trace'[i].from \subseteq Lines'
    <3>1. i \in DOMAIN trace /\ trace[i].from \subseteq Lines /\ Lines \subseteq Lines'
      BY <2>1, <1>2, <1>6
    <3>2. trace'[i].from \subseteq trace[i].from \cup pending
      BY <3>1, <1>6
    <3> QED BY <3>1, <3>2, <1>3
  <2>4. \A i, j \in DOMAIN trace' : i < j => trace'[i].line < trace'[j].line
    BY <1>1, <1>6 DEF OrderInv, StoredInOrder
  <2> QED BY <2>2, <2>3, <2>4 DEF StoredInOrder
<1>8. LastStored'
  <2>1. Len(trace) \in DOMAIN trace /\ Len(trace) > 0
    BY <1>3, <1>4
  <2>2. trace' # << >>
    BY <2>1, <1>6
  <2>3. /\ prevSampleID' = trace'[Len(trace')].in
        /\ sampleID' = trace'[Len(trace')].sample
    BY <2>1, <1>4, <1>6
  <2> QED BY <2>2, <2>3 DEF LastStored
<1>9. PendingLast'
  BY <1>1, <1>2, <1>6 DEF OrderInv, PendingLast, StoredInOrder
<1>10. PastLastSample'
  BY <1>2, <1>5 DEF PastLastSample
<1>11. FocusInOrder'
  BY <1>1 DEF OrderInv, FocusInOrder
<1>12. LostAtSampleHead'
  <2> SUFFICES ASSUME NEW l \in lost', NEW i \in DOMAIN trace,
                      trace[i].line < l
               PROVE  trace[i].in # input'[l].sample
    BY <1>6 DEF LostAtSampleHead
  <2>1. CASE l \in lost
    BY <2>1, <1>1, <1>2, <1>3 DEF OrderInv, LostAtSampleHead
  <2>2. CASE l \in pending /\ ipToAdd = 0
    <3>1. l \in Lines /\ prevSampleID < input[l].sample
      BY <2>2, <1>1, <1>3, <1>4 DEF OrderInv, PastLastSample
    <3>2. trace[i].in \in Nat /\ trace[i].in <= prevSampleID
      BY <1>1, StoredUpToPrev DEF OrderInv
    <3> QED BY <3>1, <3>2, <1>2, <1>3
  <2> QED BY <2>1, <2>2
<1>13. FoldedNearby'
  <2> SUFFICES ASSUME NEW i \in DOMAIN trace, NEW l \in trace'[i].from,
                      NEW j \in DOMAIN trace
               PROVE  /\ j < i => trace[j].line < l
                      /\ j > i => l < trace[j].line
    BY <1>6 DEF FoldedNearby
  <2>1. CASE l \in trace[i].from
    BY <2>1 DEF ReaderInv, FoldedNearby
  <2>2. CASE i = Len(trace) /\ l \in pending
    BY <2>2, <1>1, <1>3 DEF OrderInv, PendingLast
  <2> QED BY <2>1, <2>2, <1>6
<1>14. SamplesRenumbered'
  BY <1>6 DEF ReaderInv, SamplesRenumbered
<1> QED BY <1>1, <1>2, <1>7, <1>8, <1>9, <1>10, <1>11, <1>12, <1>13, <1>14
        DEF ReaderInv, OrderInv

\* Storing an access: it comes after everything stored and pending.
LEMMA StoreReader ==
  ASSUME ReaderInv, NEW r \in Record, StoreLoad(r)
  PROVE  ReaderInv'
<1>1. /\ TypeInv' /\ TypeInv /\ OrderInv /\ phase = "reading" /\ phase' = "reading"
      /\ IsRecord(r)
  BY NextType, RecordLines DEF StoreLoad, ReaderInv, Next, TypeInv
<1>2. /\ Lines' = Lines \cup {Len(input) + 1}
      /\ Lines = 1 .. Len(input) /\ Len(input) \in Nat
      /\ \A l \in Lines : input'[l] = input[l] /\ input'[l].sample \in Nat
      /\ input'[Len(input) + 1] = r
      /\ \A l \in Lines : input[l].sample <= r.sample
      /\ r.sample \in Nat
      /\ InputSorted'
  BY <1>1, RecordAppended DEF OrderInv
<1>3. trace \in Seq(Access) /\ pending \subseteq Lines /\ lost \subseteq Lines
      /\ prevSampleID \in Nat /\ Len(trace) \in Nat /\ sampleID \in Nat
  BY <1>1 DEF TypeInv, TypeOK
<1> DEFINE n == Len(trace) + 1
<1>4. /\ Len(trace') = n /\ DOMAIN trace' = DOMAIN trace \cup {n}
      /\ n \notin DOMAIN trace /\ n \in Nat /\ DOMAIN trace = 1 .. Len(trace)
      /\ \A i \in DOMAIN trace : trace'[i] = trace[i] /\ i < n
  <2>1. /\ trace' \in Seq(Access) /\ Len(trace') = n
        /\ \A i \in DOMAIN trace : trace'[i] = trace[i]
    BY <1>1, StoredType
  <2> QED BY <2>1, <1>3
<1>5. /\ trace'[n].line = Len(input) + 1 /\ trace'[n].in = r.sample
      /\ trace'[n].sample = sampleID' /\ trace'[n].from = pending
      /\ sampleID' \in Nat
      /\ sampleID' = IF NewSample(r) THEN sampleID + 1 ELSE sampleID
  <2>1. /\ trace'[Len(trace')] =
             [line |-> Len(input) + 1, in |-> r.sample, ip |-> r.ip,
              sample |-> sampleID', extra |-> StoredExtra(r.ip),
              from |-> pending]
        /\ sampleID' \in Nat
        /\ sampleID' = IF NewSample(r) THEN sampleID + 1 ELSE sampleID
    BY <1>1, StoredType
  <2>2. trace'[n] = trace'[Len(trace')]
    BY <1>4
  <2> QED BY <2>1, <2>2
<1>6. /\ prevSampleID' = r.sample /\ ipToAdd' = n /\ pending' = {} /\ lost' = lost
  BY DEF StoreLoad, NextToAdd, ResetMissing
<1>7. \A i \in DOMAIN trace : /\ trace[i].line \in Lines /\ trace[i].line \in Nat
                              /\ trace[i].sample \in Nat
                              /\ trace[i].in \in Nat /\ trace[i].in <= prevSampleID
  <2>1. \A i \in DOMAIN trace : trace[i].line \in Lines
    BY <1>1 DEF OrderInv, StoredInOrder
  <2>2. \A i \in DOMAIN trace : trace[i] \in Access
    BY <1>3
  <2> QED BY <2>1, <2>2, <1>1, AccessType, StoredUpToPrev DEF OrderInv
<1>8. StoredInOrder'
  <2>1. ASSUME NEW i \in DOMAIN trace'
        PROVE  /\ trace'[i].line \in Lines'
               /\ trace'[i].in = input'[trace'[i].line].sample
               /\ trace'[i].from \subseteq Lines'
    <3>1. CASE i \in DOMAIN trace
      <4>1. /\ trace[i].line \in Lines
            /\ trace[i].in = input[trace[i].line].sample
            /\ trace[i].from \subseteq Lines
        BY <3>1, <1>1 DEF OrderInv, StoredInOrder
      <4>2. trace'[i] = trace[i] /\ Lines \subseteq Lines'
        BY <3>1, <1>2, <1>4
      <4> QED BY <4>1, <4>2, <1>2
    <3>2. CASE i = n
      <4>1. /\ trace'[i].line = Len(input) + 1 /\ trace'[i].in = r.sample
            /\ trace'[i].from = pending
        BY <3>2, <1>5
      <4>2. Len(input) + 1 \in Lines' /\ pending \subseteq Lines'
        BY <1>2, <1>3
      <4> QED BY <4>1, <4>2, <1>2
    <3> QED BY <3>1, <3>2, <1>4
  <2>2. \A i, j \in DOMAIN trace' : i < j => trace'[i].line < trace'[j].line
    <3> SUFFICES ASSUME NEW i \in DOMAIN trace', NEW j \in DOMAIN trace', i < j
                 PROVE  trace'[i].line < trace'[j].line
      OBVIOUS
    <3>1. CASE j \in DOMAIN trace
      BY <3>1, <1>1, <1>4 DEF OrderInv, StoredInOrder
    <3>2. CASE j = n
      BY <3>2, <1>2, <1>4, <1>5, <1>7
    <3> QED BY <3>1, <3>2, <1>4
  <2> QED BY <2>1, <2>2 DEF StoredInOrder
<1>9. LastStored'
  <2>1. trace' # << >>
    BY <1>3, <1>4
  <2> QED BY <2>1, <1>4, <1>5, <1>6 DEF LastStored
<1>10. PendingLast' /\ PastLastSample'
  BY <1>3, <1>4, <1>6 DEF PendingLast, PastLastSample
<1>11. FocusInOrder'
  <2>1. CASE funcTrace' = funcTrace
    BY <2>1, <1>1 DEF OrderInv, FocusInOrder
  <2>2. CASE funcTrace' = Append(funcTrace, n)
    <3>1. funcTrace \in Seq(1 .. Len(trace))
      BY <1>1 DEF TypeInv, Pointers
    <3> QED BY <3>1, <2>2, <1>1, <1>3 DEF OrderInv, FocusInOrder
  <2> QED BY <2>1, <2>2 DEF StoreLoad, FollowFocus, focusVars
<1>12. LostAtSampleHead'
  <2> SUFFICES ASSUME NEW l \in lost, NEW i \in DOMAIN trace',
                      trace'[i].line < l
               PROVE  trace'[i].in # input'[l].sample
    BY <1>1, <1>6 DEF LostAtSampleHead
  <2>1. i \in DOMAIN trace
    BY <1>2, <1>3, <1>4, <1>5
  <2> QED BY <2>1, <1>1, <1>2, <1>3, <1>4 DEF OrderInv, LostAtSampleHead
<1>13. FoldedNearby'
  <2> SUFFICES ASSUME NEW i \in DOMAIN trace', NEW l \in trace'[i].from,
                      NEW j \in DOMAIN trace'
               PROVE  /\ j < i => trace'[j].line < l
                      /\ j > i => l < trace'[j].line
    BY DEF FoldedNearby
  <2>1. CASE i \in DOMAIN trace /\ j \in DOMAIN trace
    BY <2>1, <1>4 DEF ReaderInv, FoldedNearby
  <2>2. CASE i = n
    BY <2>2, <1>1, <1>4, <1>5 DEF OrderInv, PendingLast
  <2>3. CASE i \in DOMAIN trace /\ j = n
    <3>1. l < trace'[n].line
      <4>1. l \in Lines
        BY <2>3, <1>1, <1>4 DEF OrderInv, StoredInOrder
      <4> QED BY <4>1, <1>2, <1>5
    <3> QED BY <3>1, <2>3, <1>4
  <2> QED BY <2>1, <2>2, <2>3, <1>4
<1>14. SamplesRenumbered'
  <2>1. \A i \in DOMAIN trace : trace[i].sample <= sampleID
    <3> SUFFICES ASSUME NEW i \in DOMAIN trace PROVE trace[i].sample <= sampleID
      OBVIOUS
    <3>1. sampleID = trace[Len(trace)].sample /\ Len(trace) \in DOMAIN trace
      BY <1>1, <1>3 DEF OrderInv, LastStored
    <3>2. i = Len(trace) \/ i < Len(trace)
      BY <1>3
    <3> QED BY <3>1, <3>2, <1>7 DEF ReaderInv, SamplesRenumbered
  <2>2. ASSUME NEW i \in DOMAIN trace
        PROVE  /\ trace[i].sample <= sampleID'
               /\ trace[i].in # 0 =>
                    (trace[i].sample = sampleID' <=> trace[i].in = r.sample)
    <3>1. /\ prevSampleID = trace[Len(trace)].in
          /\ sampleID = trace[Len(trace)].sample
          /\ Len(trace) \in DOMAIN trace /\ i <= Len(trace)
      BY <1>1, <1>3 DEF OrderInv, LastStored
    <3>2. trace[i].in # 0 => (trace[i].sample = sampleID <=> trace[i].in = prevSampleID)
      <4>1. CASE i = Len(trace)
        BY <4>1, <3>1
      <4>2. CASE i < Len(trace)
        BY <4>2, <3>1 DEF ReaderInv, SamplesRenumbered
      <4> QED BY <4>1, <4>2, <3>1, <1>3
    <3>3. prevSampleID <= r.sample
      <4>1. trace[Len(trace)].line \in Lines
            /\ prevSampleID = input[trace[Len(trace)].line].sample
        BY <1>1, <3>1 DEF OrderInv, StoredInOrder
      <4> QED BY <4>1, <1>2
    <3>4. CASE NewSample(r)
      <4>1. sampleID' = sampleID + 1 /\ prevSampleID < r.sample
        BY <3>4, <3>3, <1>2, <1>3, <1>5 DEF NewSample
      <4> QED BY <4>1, <2>1, <1>2, <1>3, <1>7
    <3>5. CASE ~NewSample(r)
      <4>1. sampleID' = sampleID /\ (prevSampleID = 0 \/ prevSampleID = r.sample)
        BY <3>5, <1>5 DEF NewSample
      <4>2. prevSampleID = 0 => trace[i].in = 0
        BY <1>7, <1>3
      <4> QED BY <4>1, <4>2, <3>2, <2>1
    <3> QED BY <3>4, <3>5
  <2> SUFFICES ASSUME NEW i \in DOMAIN trace', NEW j \in DOMAIN trace', i < j
               PROVE  /\ trace'[i].sample <= trace'[j].sample
                      /\ trace'[i].in # 0 =>
                           (trace'[i].sample = trace'[j].sample
                              <=> trace'[i].in = trace'[j].in)
    BY DEF SamplesRenumbered
  <2>3. CASE j \in DOMAIN trace
    <3>1. i \in DOMAIN trace
      BY <2>3, <1>3, <1>4
    <3> QED BY <3>1, <2>3, <1>4 DEF ReaderInv, SamplesRenumbered
  <2>4. CASE j = n
    <3>1. i \in DOMAIN trace
      BY <2>4, <1>3, <1>4
    <3> QED BY <3>1, <2>2, <2>4, <1>4, <1>5
  <2> QED BY <2>3, <2>4, <1>4
<1> QED BY <1>1, <1>2, <1>8, <1>9, <1>10, <1>11, <1>12, <1>13, <1>14
        DEF ReaderInv, OrderInv

\* With -f the trace that is left is a part of the trace, in the same order.
LEMMA EndReader ==
  ASSUME ReaderInv, EndOfFile
  PROVE  ReaderInv'
<1> USE DEF EndOfFile
<1>1. TypeInv' /\ TypeInv /\ OrderInv /\ phase' # "reading"
  BY NextType DEF ReaderInv, Next, TypeInv
<1>2. CASE trace' = trace
  BY <1>1, <1>2 DEF ReaderInv, FoldedNearby, SamplesRenumbered
<1>3. CASE trace' = << >>
  BY <1>1, <1>3 DEF ReaderInv, FoldedNearby, SamplesRenumbered
<1>4. CASE trace' = FocusTrace /\ funcTrace # << >>
  <2>1. /\ DOMAIN trace' = 1 .. funcLastIndex + 1
        /\ \A i \in DOMAIN trace' : trace'[i] = trace[funcTrace[i]]
    BY <1>4 DEF FocusTrace
  <2>2. \A i \in DOMAIN trace' : i \in DOMAIN funcTrace /\ funcTrace[i] \in DOMAIN trace
    BY <2>1, <1>4, <1>1 DEF TypeInv, TypeOK, Pointers
  <2>3. \A i, j \in DOMAIN trace' : i < j => funcTrace[i] < funcTrace[j]
    BY <2>2, <1>1 DEF OrderInv, FocusInOrder
  <2>4. FoldedNearby'
    BY <2>1, <2>2, <2>3 DEF ReaderInv, FoldedNearby
  <2>5. SamplesRenumbered'
    BY <2>1, <2>2, <2>3 DEF ReaderInv, SamplesRenumbered
  <2> QED BY <2>4, <2>5, <1>1 DEF ReaderInv
<1> QED BY <1>2, <1>3, <1>4

LEMMA NextReader == ReaderInv /\ [Next]_vars => ReaderInv'
<1> SUFFICES ASSUME ReaderInv, [Next]_vars PROVE ReaderInv'
  OBVIOUS
<1>1. CASE \/ ReadDsoHeader \/ ReadTraceHeader \/ ReadDsoEntry
           \/ UNCHANGED vars
  <2>1. /\ UNCHANGED <<phase, input, trace, prevSampleID, sampleID, ipToAdd,
                       pending, lost, funcTrace>>
    BY <1>1 DEF ReadDsoHeader, ReadTraceHeader, ReadDsoEntry, vars, readerVars,
       focusVars
  <2>2. OrderInv => OrderInv'
    BY <2>1 DEF OrderInv, InputSorted, StoredInOrder, LastStored, PendingLast,
       PastLastSample, FocusInOrder, LostAtSampleHead, Lines
  <2>3. FoldedNearby' /\ SamplesRenumbered'
    BY <2>1 DEF ReaderInv, FoldedNearby, SamplesRenumbered
  <2> QED BY <2>1, <2>2, <2>3, NextType DEF ReaderInv
<1>2. CASE \E r \in Record : SkipRecord(r) \/ FoldConstant(r)
                               \/ ConstantOfNewSample(r) \/ StoreLoad(r)
  BY <1>2, SkipReader, FoldReader, NewSampleReader, StoreReader
<1>3. CASE EndOfFile
  BY <1>3, EndReader
<1> QED BY <1>1, <1>2, <1>3 DEF Next

LEMMA ReaderCorrect == Spec => []ReaderInv
  BY InitReader, NextReader, PTL DEF Spec

\* For every file and classification, a frame load is folded into one of the
\* two stored accesses around it (ip_to_add, main.cpp:688-738).
THEOREM FoldedNearbyCorrect == Spec => []FoldedNearby
<1>1. ReaderInv => FoldedNearby
  BY DEF ReaderInv
<1> QED BY <1>1, ReaderCorrect, PTL

\* For every file with its samples in order, the renumbered ids never go back
\* and tell two stored accesses apart exactly when the file does, except after
\* a sample 0 (main.cpp:701-734).
THEOREM SamplesRenumberedCorrect == Spec => []SamplesRenumbered
<1>1. ReaderInv => SamplesRenumbered
  BY DEF ReaderInv
<1> QED BY <1>1, ReaderCorrect, PTL

\* For every file, loads are lost while it is read only at the head of a
\* sample (main.cpp:687-694).
THEOREM LostAtSampleHeadCorrect == Spec => []LostAtSampleHead
<1>1. ReaderInv => LostAtSampleHead
  BY DEF ReaderInv, OrderInv, LostAtSampleHead
<1> QED BY <1>1, ReaderCorrect, PTL

-----------------------------------------------------------------------------
(* Every record is in exactly one place.                                    *)

AccountInv == ReaderInv /\ LoadsAccounted

\* What the loads of a trace are, and what stays the same when it does.
LEMMA SamePlaces ==
  ASSUME LoadsAccounted, phase = "reading", UNCHANGED <<input, trace, pending, lost, filtered>>
  PROVE  LoadsAccounted'
  BY DEF LoadsAccounted, Places, StoredLines, FoldedLines, Lines

LEMMA SkipPlaces ==
  ASSUME AccountInv, NEW r \in Record, IsRecord(r), trace' = trace,
         \/ /\ filtered' = filtered \cup {Len(input) + 1}
            /\ pending' = pending /\ lost' = lost
         \/ /\ pending' = pending \cup {Len(input) + 1}
            /\ filtered' = filtered /\ lost' = lost
         \/ /\ pending' = {Len(input) + 1} /\ filtered' = filtered
            /\ lost' = lost \cup pending
  PROVE  LoadsAccounted'
<1>1. TypeInv /\ InputSorted /\ phase = "reading"
  BY RecordLines DEF AccountInv, ReaderInv, OrderInv, IsRecord
<1>2. /\ Lines' = Lines \cup {Len(input) + 1}
      /\ Lines = 1 .. Len(input) /\ Len(input) \in Nat
  BY <1>1, RecordAppended
<1>3. Len(input) + 1 \notin Lines
  BY <1>2
<1>4. /\ Lines = StoredLines \cup FoldedLines \cup pending \cup lost \cup filtered
      /\ StoredLines \cap (FoldedLines \cup pending \cup lost \cup filtered) = {}
      /\ FoldedLines \cap (pending \cup lost \cup filtered) = {}
      /\ pending \cap (lost \cup filtered) = {}
      /\ lost \cap filtered = {}
  BY <1>1 DEF AccountInv, LoadsAccounted, Places
<1>5. StoredLines' = StoredLines /\ FoldedLines' = FoldedLines
  BY DEF StoredLines, FoldedLines
<1>6. /\ Lines' = StoredLines' \cup FoldedLines' \cup pending' \cup lost' \cup filtered'
      /\ StoredLines' \cap (FoldedLines' \cup pending' \cup lost' \cup filtered') = {}
      /\ FoldedLines' \cap (pending' \cup lost' \cup filtered') = {}
      /\ pending' \cap (lost' \cup filtered') = {}
      /\ lost' \cap filtered' = {}
  BY <1>2, <1>3, <1>4, <1>5
<1>7. \A i, j \in DOMAIN trace' :
         i # j => /\ trace'[i].line # trace'[j].line
                  /\ trace'[i].from \cap trace'[j].from = {}
  BY <1>1 DEF AccountInv, LoadsAccounted
<1> QED BY <1>6, <1>7 DEF LoadsAccounted, Places

\* The pending loads join the last stored access.
LEMMA AmendPlaces ==
  ASSUME AccountInv, NEW r \in Record, IsRecord(r), ipToAdd # 0,
         trace' = [trace EXCEPT ![ipToAdd] = Amend(@)],
         pending' = {Len(input) + 1}, lost' = lost, filtered' = filtered
  PROVE  LoadsAccounted'
<1>1. TypeInv /\ InputSorted /\ phase = "reading"
  BY RecordLines DEF AccountInv, ReaderInv, OrderInv, IsRecord
<1>2. /\ Lines' = Lines \cup {Len(input) + 1}
      /\ Lines = 1 .. Len(input) /\ Len(input) \in Nat
  BY <1>1, RecordAppended
<1>3. Len(input) + 1 \notin Lines
  BY <1>2
<1>4. /\ Lines = StoredLines \cup FoldedLines \cup pending \cup lost \cup filtered
      /\ StoredLines \cap (FoldedLines \cup pending \cup lost \cup filtered) = {}
      /\ FoldedLines \cap (pending \cup lost \cup filtered) = {}
      /\ pending \cap (lost \cup filtered) = {}
      /\ lost \cap filtered = {}
  BY <1>1 DEF AccountInv, LoadsAccounted, Places
<1>5. /\ DOMAIN trace' = DOMAIN trace /\ ipToAdd \in DOMAIN trace
      /\ trace'[ipToAdd].line = trace[ipToAdd].line
      /\ trace'[ipToAdd].from = trace[ipToAdd].from \cup pending
      /\ \A i \in DOMAIN trace : i # ipToAdd => trace'[i] = trace[i]
  <2>1. /\ ipToAdd \in DOMAIN trace /\ trace'[ipToAdd] = Amend(trace[ipToAdd])
        /\ \A i \in DOMAIN trace : i # ipToAdd => trace'[i] = trace[i]
        /\ DOMAIN trace' = DOMAIN trace
        /\ trace[ipToAdd] \in Access
    BY <1>1, AmendType DEF TypeInv, TypeOK
  <2> QED BY <2>1 DEF Amend, Access
<1>6. StoredLines' = StoredLines
  BY <1>5 DEF StoredLines
<1>7. FoldedLines' = FoldedLines \cup pending
  BY <1>5 DEF FoldedLines
<1>8. /\ Lines' = StoredLines' \cup FoldedLines' \cup pending' \cup lost' \cup filtered'
      /\ StoredLines' \cap (FoldedLines' \cup pending' \cup lost' \cup filtered') = {}
      /\ FoldedLines' \cap (pending' \cup lost' \cup filtered') = {}
      /\ pending' \cap (lost' \cup filtered') = {}
      /\ lost' \cap filtered' = {}
  BY <1>2, <1>3, <1>4, <1>6, <1>7
<1>9. ASSUME NEW i \in DOMAIN trace', NEW j \in DOMAIN trace', i # j
      PROVE  /\ trace'[i].line # trace'[j].line
             /\ trace'[i].from \cap trace'[j].from = {}
  <2>1. /\ trace[i].line # trace[j].line
        /\ trace[i].from \cap trace[j].from = {}
    BY <1>1, <1>5, <1>9 DEF AccountInv, LoadsAccounted
  <2>2. trace[i].from \cap pending = {} /\ trace[j].from \cap pending = {}
    BY <1>4, <1>5 DEF FoldedLines
  <2> QED BY <2>1, <2>2, <1>5, <1>9
<1> QED BY <1>8, <1>9 DEF LoadsAccounted, Places

\* The pending loads join the access that is stored.
LEMMA StorePlaces ==
  ASSUME AccountInv, NEW r \in Record, StoreLoad(r)
  PROVE  LoadsAccounted'
<1>1. TypeInv /\ InputSorted /\ phase = "reading" /\ IsRecord(r)
  BY RecordLines DEF AccountInv, ReaderInv, OrderInv, IsRecord, StoreLoad
<1>2. /\ Lines' = Lines \cup {Len(input) + 1}
      /\ Lines = 1 .. Len(input) /\ Len(input) \in Nat
  BY <1>1, RecordAppended
<1>3. Len(input) + 1 \notin Lines
  BY <1>2
<1>4. /\ Lines = StoredLines \cup FoldedLines \cup pending \cup lost \cup filtered
      /\ StoredLines \cap (FoldedLines \cup pending \cup lost \cup filtered) = {}
      /\ FoldedLines \cap (pending \cup lost \cup filtered) = {}
      /\ pending \cap (lost \cup filtered) = {}
      /\ lost \cap filtered = {}
  BY <1>1 DEF AccountInv, LoadsAccounted, Places
<1> DEFINE n == Len(trace')
<1>5. /\ DOMAIN trace' = DOMAIN trace \cup {n} /\ n \notin DOMAIN trace
      /\ \A i \in DOMAIN trace : trace'[i] = trace[i]
      /\ trace'[n].line = Len(input) + 1 /\ trace'[n].from = pending
  <2>1. /\ trace' \in Seq(Access) /\ Len(trace') = Len(trace) + 1
        /\ \A i \in DOMAIN trace : trace'[i] = trace[i]
    BY <1>1, StoredType
  <2>2. trace'[Len(trace')] =
             [line |-> Len(input) + 1, in |-> r.sample, ip |-> r.ip,
              sample |-> sampleID', extra |-> StoredExtra(r.ip),
              from |-> pending]
    BY <1>1, StoredType
  <2>3. trace \in Seq(Access)
    BY <1>1 DEF TypeInv, TypeOK
  <2> QED BY <2>1, <2>2, <2>3
<1>6. pending' = {} /\ lost' = lost /\ filtered' = filtered
  BY DEF StoreLoad, ResetMissing
<1> HIDE DEF n
<1>7. StoredLines' = StoredLines \cup {Len(input) + 1}
  BY <1>5 DEF StoredLines
<1>8. FoldedLines' = FoldedLines \cup pending
  BY <1>5 DEF FoldedLines
<1>9. /\ Lines' = StoredLines' \cup FoldedLines' \cup pending' \cup lost' \cup filtered'
      /\ StoredLines' \cap (FoldedLines' \cup pending' \cup lost' \cup filtered') = {}
      /\ FoldedLines' \cap (pending' \cup lost' \cup filtered') = {}
      /\ pending' \cap (lost' \cup filtered') = {}
      /\ lost' \cap filtered' = {}
  BY <1>2, <1>3, <1>4, <1>6, <1>7, <1>8
<1>10. \A i \in DOMAIN trace : /\ trace[i].line # Len(input) + 1
                               /\ trace[i].from \cap pending = {}
  <2>1. \A i \in DOMAIN trace : trace[i].line \in StoredLines
    BY DEF StoredLines
  <2>2. \A i \in DOMAIN trace : trace[i].from \subseteq FoldedLines
    BY DEF FoldedLines
  <2> QED BY <2>1, <2>2, <1>3, <1>4
<1>11. ASSUME NEW i \in DOMAIN trace', NEW j \in DOMAIN trace', i # j
       PROVE  /\ trace'[i].line # trace'[j].line
              /\ trace'[i].from \cap trace'[j].from = {}
  <2>1. CASE i \in DOMAIN trace /\ j \in DOMAIN trace
    BY <2>1, <1>1, <1>5, <1>11 DEF AccountInv, LoadsAccounted
  <2>2. CASE i = n \/ j = n
    BY <2>2, <1>5, <1>10, <1>11
  <2> QED BY <2>1, <2>2, <1>5
<1> QED BY <1>9, <1>11 DEF LoadsAccounted, Places

LEMMA NextAccount == AccountInv /\ [Next]_vars => AccountInv'
<1> SUFFICES ASSUME AccountInv, [Next]_vars PROVE LoadsAccounted'
  BY NextReader DEF AccountInv
<1>1. CASE ReadDsoHeader \/ ReadTraceHeader \/ ReadDsoEntry
  BY <1>1, SamePlaces DEF AccountInv, ReadDsoHeader, ReadTraceHeader,
     ReadDsoEntry, readerVars
<1>2. ASSUME NEW r \in Record, SkipRecord(r) \/ FoldConstant(r)
      PROVE  LoadsAccounted'
  BY <1>2, SkipPlaces DEF SkipRecord, FoldConstant, readerVars
<1>3. ASSUME NEW r \in Record, ConstantOfNewSample(r) PROVE LoadsAccounted'
  BY <1>3, SkipPlaces, AmendPlaces DEF ConstantOfNewSample
<1>4. ASSUME NEW r \in Record, StoreLoad(r) PROVE LoadsAccounted'
  BY <1>4, StorePlaces
<1>5. CASE EndOfFile
  BY <1>5 DEF EndOfFile, LoadsAccounted
<1>6. CASE UNCHANGED vars
  <2>1. phase = "reading" \/ LoadsAccounted'
    BY <1>6 DEF vars, LoadsAccounted
  <2> QED BY <2>1, <1>6, SamePlaces DEF AccountInv, vars, readerVars
<1> QED BY <1>1, <1>2, <1>3, <1>4, <1>5, <1>6 DEF Next

LEMMA InitAccount == Init => AccountInv
<1> SUFFICES ASSUME Init PROVE LoadsAccounted
  BY InitReader DEF AccountInv
<1>1. /\ trace = << >> /\ Lines = {} /\ pending = {} /\ lost = {}
      /\ filtered = {}
  BY DEF Init, Lines
<1>2. StoredLines = {} /\ FoldedLines = {}
  BY <1>1 DEF StoredLines, FoldedLines
<1> QED BY <1>1, <1>2 DEF LoadsAccounted, Places

\* For every file and classification, no load is counted twice and none
\* disappears without a trace: while the file is read each record is stored,
\* folded into one stored access, pending, lost or filtered, and only one of
\* these (main.cpp:639-745).
THEOREM LoadsAccountedCorrect == Spec => []LoadsAccounted
<1>1. AccountInv => LoadsAccounted
  BY DEF AccountInv
<1> QED BY InitAccount, NextAccount, <1>1, PTL DEF Spec

-----------------------------------------------------------------------------
(* What a step may do to a stored access.                                   *)

LEMMA NextAmends ==
  ASSUME ReaderInv, [Next]_vars, phase' = "reading", NEW i \in DOMAIN trace
  PROVE  /\ i < Len(trace) => trace'[i] = trace[i]
         /\ trace[i].from \subseteq trace'[i].from
<1>1. TypeInv /\ trace \in Seq(Access)
  BY DEF ReaderInv, TypeInv, TypeOK
<1>2. CASE trace' = trace
  BY <1>2
<1>3. ASSUME NEW r \in Record, ConstantOfNewSample(r)
      PROVE  /\ i < Len(trace) => trace'[i] = trace[i]
             /\ trace[i].from \subseteq trace'[i].from
  <2>1. phase = "reading" /\ (ipToAdd = 0 => trace' = trace)
    BY <1>3 DEF ConstantOfNewSample, IsRecord
  <2>2. CASE ipToAdd # 0
    <3>1. /\ trace' = [trace EXCEPT ![ipToAdd] = Amend(@)]
          /\ ipToAdd = Len(trace)
      BY <1>3, <2>1, <2>2 DEF ConstantOfNewSample, ReaderInv, OrderInv, LastStored
    <3>2. /\ trace'[ipToAdd] = Amend(trace[ipToAdd])
          /\ \A j \in DOMAIN trace : j # ipToAdd => trace'[j] = trace[j]
      BY <1>1, <2>1, <2>2, <3>1, AmendType
    <3>3. trace[i] \in Access
      BY <1>1
    <3>4. Amend(trace[i]).from = trace[i].from \cup pending
      BY <3>3 DEF Amend, Access
    <3> QED BY <3>1, <3>2, <3>4
  <2> QED BY <2>1, <2>2, <1>2
<1>4. ASSUME NEW r \in Record, StoreLoad(r) PROVE trace'[i] = trace[i]
  BY <1>1, <1>4, StoredType
<1>5. ASSUME NEW r \in Record, SkipRecord(r) \/ FoldConstant(r)
      PROVE  trace' = trace
  BY <1>5 DEF SkipRecord, FoldConstant, readerVars
<1>6. CASE ReadDsoHeader \/ ReadTraceHeader \/ ReadDsoEntry \/ UNCHANGED vars
  BY <1>2, <1>6 DEF ReadDsoHeader, ReadTraceHeader, ReadDsoEntry, vars, readerVars
<1>7. ~ EndOfFile
  BY DEF EndOfFile
<1> QED BY <1>2, <1>3, <1>4, <1>5, <1>6, <1>7 DEF Next

\* For every file and classification, once another access is stored an access
\* never changes, and no access ever gives back what was folded into it
\* (ip_to_add, main.cpp:686-738).
THEOREM OnlyLastAmendedCorrect == Spec => OnlyLastAmended
<1>1. ReaderInv /\ [Next]_vars =>
        [phase' = "reading" =>
           \A i \in DOMAIN trace :
             /\ i < Len(trace) => trace'[i] = trace[i]
             /\ trace[i].from \subseteq trace'[i].from]_vars
  BY NextAmends
<1> QED BY <1>1, ReaderCorrect, PTL DEF Spec, OnlyLastAmended

-----------------------------------------------------------------------------
(* The counters are sums of loads.                                          *)

ExtraOf(i) == (FrameLds[trace[i].ip] + LoadsOf(trace[i].from)) % ExtraModulus

FoldInv == AccountInv /\ ExtraIsFold

\* The loads of some of the lines, as a sum.
LEMMA LoadsSum ==
  ASSUME TypeInv, NEW T, T \subseteq Lines
  PROVE  /\ IsFiniteSet(T)
         /\ LoadsOf(T) = SumFunctionOnSet([l \in T |-> Weight(input[l].ip)], T)
         /\ \A l \in T : [k \in T |-> Weight(input[k].ip)][l] \in Nat
         /\ LoadsOf(T) \in Nat
<1> DEFINE f == [l \in T |-> Weight(input[l].ip)]
<1>1. input \in Seq(Record) /\ Lines = 1 .. Len(input) /\ Len(input) \in Nat
  BY DEF TypeInv, TypeOK, Lines
<1>2. IsFiniteSet(T)
  <2>1. IsFiniteSet(1 .. Len(input))
    BY <1>1, FS_Interval
  <2>2. T \in SUBSET (1 .. Len(input))
    BY <1>1
  <2> QED BY <2>1, <2>2, FS_Subset
<1>3. \A l \in T : input[l] \in Record
  BY <1>1
<1>4. \A l \in T : f[l] \in Nat
  BY <1>3, WeightType DEF Record
<1>5. LoadsOf(T) = SumFunctionOnSet(f, T)
  BY Zenon DEF LoadsOf, SumFunction
<1> HIDE DEF f
<1>6. SumFunctionOnSet(f, T) \in Nat
  BY <1>2, <1>4, SumNat
<1> QED BY <1>2, <1>4, <1>5, <1>6 DEF f

\* Lines that were read stay what they are.
LEMMA LoadsKept ==
  ASSUME TypeInv, NEW r \in Record, IsRecord(r), NEW T, T \subseteq Lines
  PROVE  /\ SumFunctionOnSet([l \in T |-> Weight(input'[l].ip)], T) = LoadsOf(T)
         /\ SumFunction([l \in T |-> Weight(input'[l].ip)]) = LoadsOf(T)
<1>1. \A l \in T : input'[l] = input[l]
  BY DEF IsRecord, TypeInv, TypeOK, Lines
<1>2. [l \in T |-> Weight(input'[l].ip)] = [l \in T |-> Weight(input[l].ip)]
  BY <1>1
<1> QED BY <1>2, LoadsSum, Zenon DEF LoadsOf, SumFunction

\* One more line.
LEMMA LoadsOfNewLine ==
  ASSUME TypeInv, InputSorted, NEW r \in Record, IsRecord(r),
         NEW T, T \subseteq Lines
  PROVE  SumFunction([l \in T \cup {Len(input) + 1} |-> Weight(input'[l].ip)]) =
           LoadsOf(T) + Weight(r.ip)
<1> DEFINE n == Len(input) + 1
           S == T \cup {n}
           f == [l \in S |-> Weight(input'[l].ip)]
           g == [l \in T |-> Weight(input[l].ip)]
<1>1. /\ n \notin T /\ input'[n] = r
      /\ \A l \in T : input'[l] = input[l]
  BY RecordAppended
<1>2. /\ IsFiniteSet(T) /\ LoadsOf(T) = SumFunctionOnSet(g, T)
      /\ \A l \in T : g[l] \in Nat
  BY LoadsSum
<1>3. \A l \in T : f[l] = g[l]
  BY <1>1
<1>4. f[n] = Weight(r.ip) /\ Weight(r.ip) \in Nat
  BY <1>1, WeightType DEF Record
<1>5. SumFunction(f) = SumFunctionOnSet(f, T \cup {n})
  BY Zenon DEF SumFunction
<1> HIDE DEF n, S, f, g
<1>6. \A l \in T : f[l] \in Int /\ g[l] \in Int
  BY <1>2, <1>3
<1>7. SumFunctionOnSet(f, T) = SumFunctionOnSet(g, T)
  BY <1>2, <1>3, <1>6, SumEqual
<1>8. SumFunctionOnSet(f, T \cup {n}) = SumFunctionOnSet(f, T) + f[n]
  BY <1>1, <1>2, <1>4, <1>6, SumAdd
<1>9. SumFunction(f) = LoadsOf(T) + Weight(r.ip)
  BY <1>2, <1>4, <1>5, <1>7, <1>8
<1> QED BY <1>9 DEF f, S, n

\* The loads of lines that are apart add up.
LEMMA LoadsUnion ==
  ASSUME TypeInv, NEW S, NEW T, S \subseteq Lines, T \subseteq Lines, S \cap T = {}
  PROVE  LoadsOf(S \cup T) = LoadsOf(S) + LoadsOf(T)
<1> DEFINE w(U) == [l \in U |-> Weight(input[l].ip)]
           f == w(S \cup T)
           g == w(S)
           h == w(T)
<1>1. /\ IsFiniteSet(S) /\ LoadsOf(S) = SumFunctionOnSet(g, S)
      /\ \A l \in S : g[l] \in Nat
  BY LoadsSum
<1>2. /\ IsFiniteSet(T) /\ LoadsOf(T) = SumFunctionOnSet(h, T)
      /\ \A l \in T : h[l] \in Nat
  BY LoadsSum
<1>3. /\ LoadsOf(S \cup T) = SumFunctionOnSet(f, S \cup T)
      /\ \A l \in S \cup T : f[l] \in Nat
  BY LoadsSum
<1>4. (\A l \in S : f[l] = g[l]) /\ (\A l \in T : f[l] = h[l])
  OBVIOUS
<1> HIDE DEF w, f, g, h
<1>5. SumFunctionOnSet(f, S \cup T) = SumFunctionOnSet(f, S) + SumFunctionOnSet(f, T)
  BY <1>1, <1>2, <1>3, SumUnion
<1>6. SumFunctionOnSet(f, S) = SumFunctionOnSet(g, S)
  BY <1>1, <1>3, <1>4, SumEqual
<1>7. SumFunctionOnSet(f, T) = SumFunctionOnSet(h, T)
  BY <1>2, <1>3, <1>4, SumEqual
<1> QED BY <1>1, <1>2, <1>3, <1>5, <1>6, <1>7

\* A record that leaves the trace alone leaves its sums alone.
LEMMA SameFolds ==
  ASSUME FoldInv, NEW r \in Record, IsRecord(r), trace' = trace
  PROVE  \A i \in DOMAIN trace' :
           trace'[i].extra =
             (FrameLds[trace'[i].ip] +
                SumFunction([l \in trace'[i].from |-> Weight(input'[l].ip)]))
               % ExtraModulus
<1>1. /\ TypeInv /\ phase = "reading"
      /\ \A i \in DOMAIN trace : trace[i].from \subseteq Lines
  BY RecordLines DEF FoldInv, AccountInv, ReaderInv, OrderInv, StoredInOrder
<1>2. \A i \in DOMAIN trace :
        trace[i].extra =
          (FrameLds[trace[i].ip] + LoadsOf(trace[i].from)) % ExtraModulus
  BY DEF FoldInv, ExtraIsFold
<1>3. \A i \in DOMAIN trace :
        SumFunction([l \in trace[i].from |-> Weight(input'[l].ip)]) =
          LoadsOf(trace[i].from)
  BY <1>1, LoadsKept
<1> QED BY <1>2, <1>3

\* The access ip_to_add names receives the pending loads.
LEMMA AmendFolds ==
  ASSUME FoldInv, NEW r \in Record, IsRecord(r), ipToAdd # 0,
         trace' = [trace EXCEPT ![ipToAdd] = Amend(@)]
  PROVE  \A i \in DOMAIN trace' :
           trace'[i].extra =
             (FrameLds[trace'[i].ip] +
                SumFunction([l \in trace'[i].from |-> Weight(input'[l].ip)]))
               % ExtraModulus
<1>1. /\ TypeInv /\ phase = "reading" /\ trace \in Seq(Access)
      /\ \A i \in DOMAIN trace : trace[i].from \subseteq Lines
      /\ pending \subseteq Lines
  BY RecordLines DEF FoldInv, AccountInv, ReaderInv, OrderInv, StoredInOrder,
     TypeInv, TypeOK
<1>2. /\ \A i \in DOMAIN trace :
           trace[i].extra =
             (FrameLds[trace[i].ip] + LoadsOf(trace[i].from)) % ExtraModulus
      /\ missing = LoadsOf(pending)
  BY DEF FoldInv, ExtraIsFold
<1>3. /\ ipToAdd \in DOMAIN trace /\ DOMAIN trace' = DOMAIN trace
      /\ trace'[ipToAdd] = Amend(trace[ipToAdd])
      /\ \A i \in DOMAIN trace : i # ipToAdd => trace'[i] = trace[i]
  BY <1>1, AmendType
<1>4. ASSUME NEW i \in DOMAIN trace, i # ipToAdd
      PROVE  trace'[i].extra =
               (FrameLds[trace'[i].ip] +
                  SumFunction([l \in trace'[i].from |-> Weight(input'[l].ip)]))
                 % ExtraModulus
  <2>1. SumFunction([l \in trace[i].from |-> Weight(input'[l].ip)]) =
          LoadsOf(trace[i].from)
    BY <1>1, LoadsKept
  <2>2. trace'[i] = trace[i]
    BY <1>3, <1>4
  <2> QED BY <1>2, <2>1, <2>2
<1>5. trace'[ipToAdd].extra =
        (FrameLds[trace'[ipToAdd].ip] +
           SumFunction([l \in trace'[ipToAdd].from |-> Weight(input'[l].ip)]))
          % ExtraModulus
  <2> DEFINE a == trace[ipToAdd]
             n == FrameLds[a.ip] + LoadsOf(a.from)
  <2>1. a \in Access /\ a.ip \in IPs
    <3>1. a \in Access
      BY <1>1, <1>3
    <3> QED BY <3>1 DEF Access
  <2>2. /\ trace'[ipToAdd].ip = a.ip
        /\ trace'[ipToAdd].from = a.from \cup pending
        /\ trace'[ipToAdd].extra = (a.extra + missing) % ExtraModulus
    BY <1>3, <2>1 DEF Amend, Access
  <2>3. a.from \subseteq Lines /\ a.from \cap pending = {}
    <3>1. a.from \subseteq FoldedLines
      BY <1>3 DEF FoldedLines
    <3>2. FoldedLines \cap pending = {}
      BY <1>1 DEF FoldInv, AccountInv, LoadsAccounted
    <3> QED BY <1>1, <1>3, <3>1, <3>2
  <2>4. /\ LoadsOf(a.from) \in Nat /\ LoadsOf(pending) \in Nat
        /\ FrameLds[a.ip] \in Nat
    BY <1>1, <2>1, <2>3, LoadsSum, WeightType
  <2>5. LoadsOf(a.from \cup pending) = LoadsOf(a.from) + missing
    BY <1>1, <1>2, <2>3, LoadsUnion
  <2>6. SumFunction([l \in a.from \cup pending |-> Weight(input'[l].ip)]) =
          LoadsOf(a.from \cup pending)
    <3>1. a.from \cup pending \subseteq Lines
      BY <1>1, <2>3
    <3> QED BY <1>1, <3>1, LoadsKept
  <2>7. a.extra = n % ExtraModulus
    BY <1>2, <1>3
  <2>8. n \in Nat /\ missing \in Nat /\ ExtraModulus \in Nat \ {0}
    BY <1>2, <2>4, ConstantTypes
  <2>9. n + missing = FrameLds[a.ip] + LoadsOf(a.from \cup pending)
    BY <1>2, <2>4, <2>5
  <2> HIDE DEF n, a
  <2>10. ((n % ExtraModulus) + missing) % ExtraModulus = (n + missing) % ExtraModulus
    BY <2>8, RemainderOfSum
  <2> QED BY <2>2, <2>6, <2>7, <2>9, <2>10
<1> QED BY <1>3, <1>4, <1>5

\* The access that is stored receives them.
LEMMA StoreFolds ==
  ASSUME FoldInv, NEW r \in Record, StoreLoad(r)
  PROVE  \A i \in DOMAIN trace' :
           trace'[i].extra =
             (FrameLds[trace'[i].ip] +
                SumFunction([l \in trace'[i].from |-> Weight(input'[l].ip)]))
               % ExtraModulus
<1>1. /\ TypeInv /\ IsRecord(r) /\ phase = "reading" /\ trace \in Seq(Access)
      /\ \A i \in DOMAIN trace : trace[i].from \subseteq Lines
      /\ pending \subseteq Lines
  BY RecordLines DEF StoreLoad, FoldInv, AccountInv, ReaderInv, OrderInv,
     StoredInOrder, TypeInv, TypeOK
<1>2. /\ \A i \in DOMAIN trace :
           trace[i].extra =
             (FrameLds[trace[i].ip] + LoadsOf(trace[i].from)) % ExtraModulus
      /\ missing = LoadsOf(pending)
  BY DEF FoldInv, ExtraIsFold
<1> DEFINE n == Len(trace) + 1
<1>3. /\ DOMAIN trace' = DOMAIN trace \cup {n}
      /\ \A i \in DOMAIN trace : trace'[i] = trace[i]
      /\ trace'[n].ip = r.ip /\ trace'[n].from = pending
      /\ trace'[n].extra = StoredExtra(r.ip)
  <2>1. /\ trace' \in Seq(Access) /\ Len(trace') = Len(trace) + 1
        /\ \A i \in DOMAIN trace : trace'[i] = trace[i]
    BY <1>1, StoredType
  <2>2. trace'[Len(trace')] =
             [line |-> Len(input) + 1, in |-> r.sample, ip |-> r.ip,
              sample |-> sampleID', extra |-> StoredExtra(r.ip),
              from |-> pending]
    BY <1>1, StoredType
  <2> QED BY <1>1, <2>1, <2>2
<1> HIDE DEF n
<1>4. ASSUME NEW i \in DOMAIN trace
      PROVE  trace'[i].extra =
               (FrameLds[trace'[i].ip] +
                  SumFunction([l \in trace'[i].from |-> Weight(input'[l].ip)]))
                 % ExtraModulus
  <2>1. SumFunction([l \in trace[i].from |-> Weight(input'[l].ip)]) =
          LoadsOf(trace[i].from)
    BY <1>1, LoadsKept
  <2>2. trace'[i] = trace[i]
    BY <1>3
  <2> QED BY <1>2, <2>1, <2>2
<1>5. trace'[n].extra =
        (FrameLds[trace'[n].ip] +
           SumFunction([l \in trace'[n].from |-> Weight(input'[l].ip)]))
          % ExtraModulus
  <2>1. SumFunction([l \in pending |-> Weight(input'[l].ip)]) = missing
    BY <1>1, <1>2, LoadsKept
  <2> QED BY <1>3, <2>1 DEF StoredExtra
<1> QED BY <1>3, <1>4, <1>5

LEMMA NoLoads ==
  ASSUME NEW f, DOMAIN f = {}
  PROVE  SumFunction(f) = 0
  BY SumEmpty, Zenon DEF SumFunction

LEMMA NextFold == FoldInv /\ [Next]_vars => FoldInv'
<1> SUFFICES ASSUME FoldInv, [Next]_vars PROVE ExtraIsFold'
  BY NextAccount DEF FoldInv
<1>1. TypeInv /\ missing = LoadsOf(pending) /\ pending \subseteq Lines
  BY DEF FoldInv, AccountInv, ReaderInv, TypeInv, TypeOK, ExtraIsFold
<1>2. CASE UNCHANGED <<input, trace, pending, missing>>
  <2>1. ExtraIsFold
    BY DEF FoldInv
  <2> QED BY <1>2, <2>1 DEF ExtraIsFold, LoadsOf
<1>3. ASSUME NEW r \in Record, SkipRecord(r) PROVE ExtraIsFold'
  <2>1. IsRecord(r) /\ UNCHANGED <<trace, pending, missing>>
    BY <1>3 DEF SkipRecord, readerVars
  <2>2. SumFunction([l \in pending' |-> Weight(input'[l].ip)]) = missing'
    BY <1>1, <2>1, LoadsKept
  <2> QED BY <2>1, <2>2, SameFolds DEF ExtraIsFold, LoadsOf
<1>4. ASSUME NEW r \in Record, FoldConstant(r) PROVE ExtraIsFold'
  <2>1. /\ IsRecord(r) /\ trace' = trace /\ missing' = missing + Weight(r.ip)
        /\ pending' = pending \cup {Len(input) + 1}
    BY <1>4 DEF FoldConstant
  <2>2. InputSorted
    BY <2>1 DEF FoldInv, AccountInv, ReaderInv, OrderInv, IsRecord
  <2>3. SumFunction([l \in pending' |-> Weight(input'[l].ip)]) = missing'
    BY <1>1, <2>1, <2>2, LoadsOfNewLine
  <2> QED BY <2>1, <2>3, SameFolds DEF ExtraIsFold, LoadsOf
<1>5. ASSUME NEW r \in Record, ConstantOfNewSample(r) PROVE ExtraIsFold'
  <2>1. /\ IsRecord(r) /\ missing' = Weight(r.ip)
        /\ pending' = {} \cup {Len(input) + 1}
    BY <1>5 DEF ConstantOfNewSample
  <2>2. InputSorted
    BY <2>1 DEF FoldInv, AccountInv, ReaderInv, OrderInv, IsRecord
  <2>3. SumFunction([l \in pending' |-> Weight(input'[l].ip)]) = missing'
    <3>1. LoadsOf({}) = 0 /\ {} \subseteq Lines
      BY NoLoads DEF LoadsOf
    <3>2. SumFunction([l \in {} \cup {Len(input) + 1} |-> Weight(input'[l].ip)]) =
            LoadsOf({}) + Weight(r.ip)
      BY <1>1, <2>1, <2>2, <3>1, LoadsOfNewLine
    <3>3. Weight(r.ip) \in Nat
      BY WeightType DEF Record
    <3> QED BY <2>1, <3>1, <3>2, <3>3
  <2>4. \/ trace' = trace
        \/ ipToAdd # 0 /\ trace' = [trace EXCEPT ![ipToAdd] = Amend(@)]
    BY <1>5 DEF ConstantOfNewSample
  <2> QED BY <2>1, <2>3, <2>4, SameFolds, AmendFolds DEF ExtraIsFold, LoadsOf
<1>6. ASSUME NEW r \in Record, StoreLoad(r) PROVE ExtraIsFold'
  <2>1. missing' = 0 /\ pending' = {}
    BY <1>6 DEF StoreLoad, ResetMissing
  <2>2. SumFunction([l \in pending' |-> Weight(input'[l].ip)]) = missing'
    BY <2>1, NoLoads
  <2> QED BY <1>6, <2>2, StoreFolds DEF ExtraIsFold, LoadsOf
<1>7. CASE EndOfFile
  <2>1. /\ phase = "reading" /\ input' = input /\ missing' = 0 /\ pending' = {}
        /\ \/ trace' = trace
           \/ trace' = FocusTrace /\ funcTrace # << >>
           \/ trace' = << >>
    BY <1>7 DEF EndOfFile
  <2>2. SumFunction([l \in pending' |-> Weight(input'[l].ip)]) = missing'
    BY <2>1, NoLoads
  <2>3. ASSUME NEW i \in DOMAIN trace' PROVE \E j \in DOMAIN trace : trace'[i] = trace[j]
    <3>1. CASE trace' = trace
      BY <3>1
    <3>2. CASE trace' = FocusTrace /\ funcTrace # << >>
      <4>1. Pointers /\ funcLastIndex \in Nat /\ trace \in Seq(Access)
        BY <1>1, <2>1 DEF TypeInv, TypeOK
      <4>2. i \in DOMAIN funcTrace /\ trace'[i] = trace[funcTrace[i]]
        BY <3>2, <4>1 DEF FocusTrace, Pointers
      <4>3. funcTrace[i] \in DOMAIN trace
        BY <4>1, <4>2 DEF Pointers
      <4> QED BY <4>2, <4>3
    <3>3. CASE trace' = << >>
      BY <3>3
    <3> QED BY <2>1, <3>1, <3>2, <3>3
  <2>4. \A j \in DOMAIN trace :
          trace[j].extra =
            (FrameLds[trace[j].ip] +
               SumFunction([l \in trace[j].from |-> Weight(input'[l].ip)]))
              % ExtraModulus
    BY <2>1 DEF FoldInv, ExtraIsFold, LoadsOf
  <2>5. \A i \in DOMAIN trace' :
          trace'[i].extra =
            (FrameLds[trace'[i].ip] +
               SumFunction([l \in trace'[i].from |-> Weight(input'[l].ip)]))
              % ExtraModulus
    BY <2>3, <2>4
  <2> QED BY <2>2, <2>5 DEF ExtraIsFold, LoadsOf
<1> QED BY <1>2, <1>3, <1>4, <1>5, <1>6, <1>7
          DEF Next, ReadDsoHeader, ReadTraceHeader, ReadDsoEntry, vars, readerVars

\* For every file, classification and width of extra_frame_lds, the counters
\* are the loads they stand for: an access has its own frame loads and those
\* folded into it, modulo the width, and missing_frame_loads the pending ones,
\* however often the pending count moved (main.cpp:686-738).
THEOREM ExtraIsFoldCorrect == Spec => []ExtraIsFold
<1>1. Init => FoldInv
  <2> SUFFICES ASSUME Init PROVE ExtraIsFold
    BY InitAccount DEF FoldInv
  <2>1. DOMAIN trace = {} /\ missing = 0 /\ pending = {}
    BY DEF Init
  <2>2. LoadsOf(pending) = 0
    BY <2>1, NoLoads DEF LoadsOf
  <2> QED BY <2>1, <2>2 DEF ExtraIsFold
<1>2. FoldInv => ExtraIsFold
  BY DEF FoldInv
<1> QED BY <1>1, <1>2, NextFold, PTL DEF Spec

-----------------------------------------------------------------------------
(* The focus mode.  FocusInv says what funcTrace and func_last_index hold    *)
(* while the file is read.                                                   *)

\* The stored accesses of the function in focus.
InFocus == {i \in DOMAIN trace : Lookup(trace[i].line) = "focus"}

Followed == {funcTrace[k] : k \in DOMAIN funcTrace}

\* funcTrace: the stored loads from the first access in focus on, but for those
\* no function was found for.
FollowsFocus ==
  \A i \in DOMAIN trace :
    i \in Followed <=> /\ Lookup(trace[i].line) # "notFound"
                       /\ \E j \in InFocus : j <= i

\* func_last_index: where the last access in focus is.
LastInFocus ==
  funcTrace # << >> => /\ funcTrace[funcLastIndex + 1] \in InFocus
                       /\ \A j \in InFocus : j <= funcTrace[funcLastIndex + 1]

FocusInv ==
  /\ StoredLines = Storable
  /\ focus => /\ isInFunc <=> InFocus # {}
              /\ FollowsFocus
              /\ LastInFocus

FocusedInv == ReaderInv /\ (phase = "reading" => FocusInv) /\ FocusSpan

\* Lookups of lines that were read stay what they are.
LEMMA LookupKept ==
  ASSUME TypeInv, InputSorted, NEW r \in Record, IsRecord(r)
  PROVE  /\ \A l \in Lines : FuncOf[input'[l].ip] = Lookup(l) /\ input'[l].ip = input[l].ip
         /\ FuncOf[input'[Len(input) + 1].ip] = FuncOf[r.ip]
         /\ Len(input) + 1 \notin Lines
         /\ Lines' = Lines \cup {Len(input) + 1}
         /\ input'[Len(input) + 1] = r
         /\ filtered \subseteq Lines
<1>1. /\ Lines' = Lines \cup {Len(input) + 1}
      /\ Lines = 1 .. Len(input) /\ Len(input) \in Nat
      /\ input'[Len(input) + 1] = r
      /\ \A l \in Lines : input'[l] = input[l]
  BY RecordAppended
<1>2. filtered \subseteq Lines
  BY DEF TypeInv, TypeOK
<1> QED BY <1>1, <1>2 DEF Lookup

\* A record that is not stored changes nothing for the focus.
LEMMA SameFocus ==
  ASSUME TypeInv, OrderInv, FocusInv, NEW r \in Record, IsRecord(r),
         UNCHANGED focusVars, DOMAIN trace' = DOMAIN trace,
         \A i \in DOMAIN trace : trace'[i].line = trace[i].line,
         \/ r.ip \in ConstantIPs /\ filtered' = filtered
         \/ filtered' = filtered \cup {Len(input) + 1}
  PROVE  FocusInv'
<1>1. /\ \A l \in Lines : FuncOf[input'[l].ip] = Lookup(l) /\ input'[l].ip = input[l].ip
      /\ Len(input) + 1 \notin Lines
      /\ Lines' = Lines \cup {Len(input) + 1}
      /\ input'[Len(input) + 1] = r
      /\ filtered \subseteq Lines
  BY LookupKept DEF OrderInv
<1>2. StoredLines' = StoredLines
  BY DEF StoredLines
<1>3. Storable' = Storable
  BY <1>1 DEF Storable
<1>4. \A i \in DOMAIN trace : FuncOf[input'[trace'[i].line].ip] = Lookup(trace[i].line)
  BY <1>1 DEF OrderInv, StoredInOrder
<1>5. InFocus' = InFocus
  BY <1>4 DEF InFocus, Lookup
<1>6. Followed' = Followed
  BY DEF Followed, focusVars
<1>7. focus /\ FollowsFocus => FollowsFocus'
  BY <1>4, <1>5, <1>6 DEF FollowsFocus, Lookup
<1>8. focus /\ LastInFocus => LastInFocus'
  BY <1>5 DEF LastInFocus, focusVars
<1>9. focus' = focus /\ isInFunc' = isInFunc
  BY DEF focusVars
<1> QED BY <1>2, <1>3, <1>5, <1>7, <1>8, <1>9 DEF FocusInv

LEMMA StoreFocus ==
  ASSUME TypeInv, OrderInv, FocusInv, NEW r \in Record, StoreLoad(r)
  PROVE  FocusInv'
<1> DEFINE n == Len(trace) + 1
           line == Len(input) + 1
<1>1. IsRecord(r) /\ r.ip \notin ConstantIPs /\ filtered' = filtered /\ FollowFocus(r.ip)
  BY DEF StoreLoad
<1>2. /\ phase = "reading" /\ Pointers /\ trace \in Seq(Access) /\ r.ip \in IPs
      /\ isInFunc \in BOOLEAN /\ funcLastIndex \in Nat
  BY <1>1, RecordLines DEF TypeInv, TypeOK, Record
<1>3. /\ \A l \in Lines : FuncOf[input'[l].ip] = Lookup(l) /\ input'[l].ip = input[l].ip
      /\ FuncOf[input'[line].ip] = FuncOf[r.ip]
      /\ line \notin Lines
      /\ Lines' = Lines \cup {line}
      /\ input'[line] = r
      /\ filtered \subseteq Lines
  BY <1>1, LookupKept DEF OrderInv
<1>4. /\ DOMAIN trace' = DOMAIN trace \cup {n} /\ n \notin DOMAIN trace
      /\ \A i \in DOMAIN trace : trace'[i] = trace[i] /\ i < n
      /\ trace'[n].line = line
      /\ DOMAIN trace \subseteq Nat /\ n \in Nat
  <2>1. /\ trace' \in Seq(Access) /\ Len(trace') = Len(trace) + 1
        /\ \A i \in DOMAIN trace : trace'[i] = trace[i]
    BY StoredType
  <2>2. trace'[Len(trace')] =
             [line |-> Len(input) + 1, in |-> r.sample, ip |-> r.ip,
              sample |-> sampleID', extra |-> StoredExtra(r.ip),
              from |-> pending]
    BY StoredType
  <2> QED BY <1>2, <2>1, <2>2
<1> HIDE DEF n, line
<1>5. StoredLines' = StoredLines \cup {line}
  BY <1>4 DEF StoredLines
<1>6. Storable' = Storable \cup {line}
  BY <1>1, <1>3 DEF Storable
<1>7. \A i \in DOMAIN trace : FuncOf[input'[trace'[i].line].ip] = Lookup(trace[i].line)
  BY <1>3, <1>4 DEF OrderInv, StoredInOrder
<1>8. FuncOf[input'[trace'[n].line].ip] = FuncOf[r.ip]
  BY <1>3, <1>4
<1>12. /\ \A i : i \in InFocus' <=>
                i \in DOMAIN trace' /\ FuncOf[input'[trace'[i].line].ip] = "focus"
       /\ \A i : i \in InFocus <=>
                i \in DOMAIN trace /\ Lookup(trace[i].line) = "focus"
  BY DEF InFocus, Lookup
<1>13. ASSUME \A i \in DOMAIN trace' :
                i \in Followed' <=> /\ FuncOf[input'[trace'[i].line].ip] # "notFound"
                                   /\ \E j \in InFocus' : j <= i
       PROVE  FollowsFocus'
  BY <1>13 DEF FollowsFocus, Lookup
<1>9. StoredLines' = Storable'
  BY <1>5, <1>6 DEF FocusInv
<1>10. CASE ~focus
  <2>1. ~focus'
    BY <1>1, <1>10 DEF FollowFocus, focusVars
  <2> QED BY <1>9, <2>1 DEF FocusInv
<1>11. ASSUME focus
       PROVE  (isInFunc' <=> InFocus' # {}) /\ FollowsFocus' /\ LastInFocus'
  <2>1. (isInFunc <=> InFocus # {}) /\ FollowsFocus /\ LastInFocus
    BY <1>11 DEF FocusInv
  <2>2. /\ funcTrace \in Seq(DOMAIN trace) /\ Followed \subseteq DOMAIN trace
        /\ funcTrace # << >> => /\ funcLastIndex + 1 \in DOMAIN funcTrace
                               /\ funcTrace[funcLastIndex + 1] \in DOMAIN trace
    BY <1>2 DEF Pointers, Followed
  <2>3. CASE FuncOf[r.ip] = "notFound"
    <3>1. UNCHANGED focusVars
      BY <1>1, <2>3 DEF FollowFocus
    <3>2. InFocus' = InFocus
      <4>1. n \notin InFocus'
        BY <1>8, <1>12, <2>3
      <4>2. \A i : i \in InFocus' <=> i \in InFocus
        BY <1>4, <1>7, <1>12, <4>1
      <4> QED BY <4>2
    <3>3. Followed' = Followed
      BY <3>1 DEF Followed, focusVars
    <3>4. FollowsFocus'
      <4>1. ASSUME NEW i \in DOMAIN trace
            PROVE  i \in Followed' <=> /\ FuncOf[input'[trace'[i].line].ip] # "notFound"
                                      /\ \E j \in InFocus' : j <= i
        BY <1>7, <2>1, <3>2, <3>3 DEF FollowsFocus
      <4>2. n \notin Followed' /\ FuncOf[input'[trace'[n].line].ip] = "notFound"
        BY <1>4, <1>8, <2>2, <2>3, <3>3
      <4> QED BY <1>4, <1>13, <4>1, <4>2
    <3>5. LastInFocus'
      BY <2>1, <3>1, <3>2 DEF LastInFocus, focusVars
    <3>6. isInFunc' = isInFunc
      BY <3>1 DEF focusVars
    <3> QED BY <2>1, <3>2, <3>4, <3>5, <3>6
  <2>4. CASE FuncOf[r.ip] = "focus"
    <3>1. /\ isInFunc' = TRUE /\ funcLastIndex' = Len(funcTrace)
          /\ funcTrace' = Append(funcTrace, n)
      BY <1>1, <1>11, <2>4 DEF FollowFocus, n
    <3>2. InFocus' = InFocus \cup {n}
      BY <1>4, <1>7, <1>8, <1>12, <2>4
    <3>3. Followed' = Followed \cup {n}
      BY <2>2, <3>1 DEF Followed
    <3>4. InFocus \subseteq DOMAIN trace
      BY DEF InFocus
    <3>5. ASSUME NEW i \in DOMAIN trace
          PROVE  i \in Followed' <=> /\ FuncOf[input'[trace'[i].line].ip] # "notFound"
                                    /\ \E j \in InFocus' : j <= i
      <4>1. i \in Followed' <=> i \in Followed
        BY <1>4, <3>3
      <4>2. ~(n <= i)
        BY <1>4
      <4>3. (\E j \in InFocus' : j <= i) <=> (\E j \in InFocus : j <= i)
        BY <3>2, <4>2
      <4> QED BY <1>7, <2>1, <4>1, <4>3 DEF FollowsFocus
    <3>6. FollowsFocus'
      <4>1. /\ FuncOf[input'[trace'[n].line].ip] # "notFound" /\ n \in InFocus' /\ n <= n
            /\ n \in Followed'
        BY <1>4, <1>8, <2>4, <3>2, <3>3
      <4> QED BY <1>4, <1>13, <3>5, <4>1
    <3>7. funcTrace'[funcLastIndex' + 1] = n
      BY <2>2, <3>1
    <3>8. LastInFocus'
      BY <1>4, <3>2, <3>4, <3>7 DEF LastInFocus
    <3> QED BY <3>1, <3>2, <3>6, <3>8
  <2>5. CASE FuncOf[r.ip] \notin {"notFound", "focus"}
    <3>1. /\ isInFunc' = isInFunc /\ funcLastIndex' = funcLastIndex
          /\ funcTrace' = IF isInFunc THEN Append(funcTrace, n) ELSE funcTrace
      BY <1>1, <1>11, <2>5 DEF FollowFocus, focusVars, n
    <3>2. InFocus' = InFocus /\ InFocus \subseteq DOMAIN trace
      BY ZenonT(30), <1>4, <1>7, <1>8, <1>12, <2>5
    <3>3. Followed' = IF isInFunc THEN Followed \cup {n} ELSE Followed
      BY <2>2, <3>1 DEF Followed
    <3>4. FollowsFocus'
      <4>1. ASSUME NEW i \in DOMAIN trace
            PROVE  i \in Followed' <=> /\ FuncOf[input'[trace'[i].line].ip] # "notFound"
                                      /\ \E j \in InFocus' : j <= i
        <5>1. i \in Followed' <=> i \in Followed
          BY <1>4, <3>3
        <5> QED BY <1>7, <2>1, <3>2, <5>1 DEF FollowsFocus
      <4>2. n \in Followed' <=> /\ FuncOf[input'[trace'[n].line].ip] # "notFound"
                               /\ \E j \in InFocus' : j <= n
        <5>1. n \in Followed' <=> isInFunc
          BY <1>4, <2>2, <3>3
        <5>2. \A j \in InFocus' : j <= n
          BY <1>4, <3>2
        <5>3. FuncOf[input'[trace'[n].line].ip] # "notFound"
          BY <1>8, <2>5
        <5> QED BY <2>1, <3>2, <5>1, <5>2, <5>3
      <4> QED BY <1>4, <1>13, <4>1, <4>2
    <3>5. LastInFocus'
      <4>1. CASE isInFunc
        <5>1. funcTrace # << >>
          <6>1. PICK j \in InFocus : \A k \in InFocus : j <= k
            BY <1>4, <2>1, <3>2, <4>1, LeastElement
          <6>2. j \in DOMAIN trace /\ Lookup(trace[j].line) # "notFound" /\ j <= j
            BY <1>4 DEF InFocus, Lookup
          <6>3. j \in Followed
            BY <2>1, <6>2 DEF FollowsFocus
          <6> QED BY <6>3 DEF Followed
        <5>2. funcTrace'[funcLastIndex' + 1] = funcTrace[funcLastIndex + 1]
          BY <2>2, <3>1, <4>1, <5>1
        <5> QED BY <2>1, <3>2, <5>1, <5>2 DEF LastInFocus
      <4>2. CASE ~isInFunc
        BY <2>1, <3>1, <3>2, <4>2 DEF LastInFocus
      <4> QED BY <4>1, <4>2
    <3>6. isInFunc' = isInFunc
      BY <3>1
    <3> QED BY <2>1, <3>2, <3>4, <3>5, <3>6
  <2> QED BY <2>3, <2>4, <2>5
<1> QED BY <1>9, <1>10, <1>11 DEF FocusInv

\* What EndOfFile leaves of the trace is the span of the focus.
LEMMA EndFocus ==
  ASSUME TypeInv, OrderInv, FocusInv, EndOfFile
  PROVE  FocusSpan'
<1> SUFFICES ASSUME phase' = "done", focus'
             PROVE  /\ trace' # << >>
                    /\ StoredLines' =
                         {l \in Storable' : /\ Lookup(l)' # "notFound"
                                           /\ \E f, g \in FocusLines' : f <= l /\ l <= g}
  BY DEF FocusSpan
<1> DEFINE last == funcLastIndex + 1
           Line(i) == trace[i].line
<1>1. /\ focus /\ funcTrace # << >> /\ trace' = FocusTrace /\ phase = "reading"
      /\ UNCHANGED <<input, filtered>>
  BY DEF EndOfFile, focusVars
<1>2. /\ Pointers /\ trace \in Seq(Access) /\ funcLastIndex \in Nat
      /\ funcTrace \in Seq(DOMAIN trace) /\ last \in DOMAIN funcTrace
      /\ DOMAIN trace \subseteq Nat /\ DOMAIN funcTrace \subseteq Nat
      /\ 1 .. last \subseteq DOMAIN funcTrace /\ last \in 1 .. last
  BY <1>1 DEF TypeInv, TypeOK, Pointers
<1>3. FollowsFocus /\ LastInFocus /\ StoredLines = Storable
  BY <1>1 DEF FocusInv
<1>4. /\ DOMAIN trace' = 1 .. last
      /\ \A k \in 1 .. last : trace'[k] = trace[funcTrace[k]]
  BY <1>1 DEF FocusTrace
<1>5. trace' # << >>
  BY <1>2, <1>4
<1>6. /\ \A i \in DOMAIN trace : Line(i) \in Lines /\ Line(i) \in Nat
      /\ \A i, j \in DOMAIN trace : i < j => Line(i) < Line(j)
      /\ \A k, m \in DOMAIN funcTrace : k < m => funcTrace[k] < funcTrace[m]
  <2>1. \A i \in DOMAIN trace : Line(i) \in Lines
    BY DEF OrderInv, StoredInOrder
  <2>2. Lines \subseteq Nat
    BY DEF TypeInv, TypeOK, Lines
  <2> QED BY <2>1, <2>2 DEF OrderInv, StoredInOrder, FocusInOrder
<1>7. ASSUME NEW i \in DOMAIN trace, NEW j \in DOMAIN trace
      PROVE  i <= j <=> Line(i) <= Line(j)
  <2>1. i \in Nat /\ j \in Nat /\ Line(i) \in Nat /\ Line(j) \in Nat
    BY <1>2, <1>6
  <2>2. i < j \/ i = j \/ j < i
    BY <2>1
  <2> HIDE DEF Line
  <2> QED BY <1>6, <2>1, <2>2
<1>8. ASSUME NEW k \in DOMAIN funcTrace, NEW m \in DOMAIN funcTrace
      PROVE  k <= m <=> funcTrace[k] <= funcTrace[m]
  <2>1. k \in Nat /\ m \in Nat /\ funcTrace[k] \in Nat /\ funcTrace[m] \in Nat
    BY <1>2
  <2>2. k < m \/ k = m \/ m < k
    BY <2>1
  <2> QED BY <1>6, <2>1, <2>2
<1>9. \A l : l \in StoredLines' <=> \E k \in 1 .. last : l = Line(funcTrace[k])
  BY <1>4 DEF StoredLines
<1>10. \A l : l \in Storable <=> \E i \in DOMAIN trace : l = Line(i)
  BY <1>3 DEF StoredLines
<1>11. \A l : l \in FocusLines <=> \E i \in InFocus : l = Line(i)
  BY <1>10 DEF FocusLines, InFocus
<1>12. InFocus \subseteq DOMAIN trace
  BY DEF InFocus
<1>13. ASSUME NEW k \in 1 .. last
       PROVE  /\ Line(funcTrace[k]) \in Storable
              /\ Lookup(Line(funcTrace[k])) # "notFound"
              /\ \E f, g \in FocusLines : f <= Line(funcTrace[k]) /\ Line(funcTrace[k]) <= g
  <2>1. /\ funcTrace[k] \in DOMAIN trace /\ funcTrace[k] \in Followed
        /\ funcTrace[last] \in InFocus /\ k <= last
    BY <1>1, <1>2, <1>3 DEF Followed, LastInFocus
  <2>2. Lookup(Line(funcTrace[k])) # "notFound"
    BY <1>3, <2>1 DEF FollowsFocus
  <2>3. PICK j \in InFocus : j <= funcTrace[k]
    BY <1>3, <2>1 DEF FollowsFocus
  <2>4. Line(j) <= Line(funcTrace[k]) /\ Line(j) \in FocusLines
    BY <1>7, <1>11, <1>12, <2>1, <2>3
  <2>5. Line(funcTrace[k]) <= Line(funcTrace[last]) /\ Line(funcTrace[last]) \in FocusLines
    BY <1>2, <1>7, <1>8, <1>11, <2>1
  <2> QED BY <1>10, <2>1, <2>2, <2>4, <2>5
<1>14. ASSUME NEW l \in Storable, Lookup(l) # "notFound",
              NEW f \in FocusLines, NEW g \in FocusLines, f <= l, l <= g
       PROVE  \E k \in 1 .. last : l = Line(funcTrace[k])
  <2>1. PICK i \in DOMAIN trace : l = Line(i)
    BY <1>10
  <2>2. PICK j \in InFocus : f = Line(j)
    BY <1>11
  <2>3. PICK m \in InFocus : g = Line(m)
    BY <1>11
  <2>4. j <= i /\ i <= m
    BY <1>7, <1>12, <1>14, <2>1, <2>2, <2>3
  <2>5. i \in Followed
    BY <1>3, <1>14, <2>1, <2>2, <2>4 DEF FollowsFocus
  <2>6. PICK k \in DOMAIN funcTrace : i = funcTrace[k]
    BY <2>5 DEF Followed
  <2>7. m <= funcTrace[last] /\ funcTrace[last] \in InFocus
    BY <1>1, <1>3 DEF LastInFocus
  <2>8. funcTrace[k] <= funcTrace[last]
    BY <1>2, <1>12, <2>4, <2>6, <2>7
  <2>9. k <= last
    BY <1>2, <1>8, <2>8
  <2>10. k \in 1 .. last
    BY <1>2, <2>9
  <2> QED BY <2>1, <2>6, <2>10
<1>15. Storable' = Storable /\ FocusLines' = FocusLines /\ \A l : FuncOf[input'[l].ip] = Lookup(l)
  BY <1>1 DEF Storable, FocusLines, Lookup, Lines
<1>16. \A l : l \in StoredLines' <=>
               /\ l \in Storable /\ Lookup(l) # "notFound"
               /\ \E f, g \in FocusLines : f <= l /\ l <= g
  BY <1>9, <1>13, <1>14
<1>17. StoredLines' = {l \in Storable' : /\ FuncOf[input'[l].ip] # "notFound"
                                        /\ \E f, g \in FocusLines' : f <= l /\ l <= g}
  BY <1>15, <1>16
<1> QED BY <1>5, <1>17 DEF Lookup

LEMMA NextFocus == FocusedInv /\ [Next]_vars => FocusedInv'
<1> SUFFICES ASSUME FocusedInv, [Next]_vars
             PROVE  (phase' = "reading" => FocusInv') /\ FocusSpan'
  BY NextReader DEF FocusedInv
<1>1. TypeInv
  BY DEF FocusedInv, ReaderInv
<1>2. phase = "reading" => OrderInv /\ FocusInv
  BY DEF FocusedInv, ReaderInv
<1>3. CASE UNCHANGED <<phase, input, filtered, trace, focusVars>>
  <2>1. FocusInv => FocusInv'
    BY <1>3 DEF FocusInv, StoredLines, Storable, Lines, InFocus, FollowsFocus,
       LastInFocus, Followed, Lookup, focusVars
  <2>2. FocusSpan'
    BY <1>3 DEF FocusedInv, FocusSpan, StoredLines, Storable, Lines, FocusLines,
       Lookup, focusVars
  <2> QED BY <1>2, <1>3, <2>1, <2>2
<1>4. ASSUME NEW r \in Record, IsRecord(r)
      PROVE  phase = "reading" /\ FocusSpan' /\ OrderInv /\ FocusInv
  BY <1>2, <1>4 DEF IsRecord, FocusSpan
<1>5. ASSUME NEW r \in Record, SkipRecord(r) PROVE FocusInv'
  <2>1. IsRecord(r) /\ UNCHANGED <<trace, focusVars>>
    BY <1>5 DEF SkipRecord, readerVars
  <2> QED BY <1>1, <1>4, <1>5, <2>1, SameFocus DEF SkipRecord
<1>6. ASSUME NEW r \in Record, FoldConstant(r) PROVE FocusInv'
  BY <1>1, <1>4, <1>6, SameFocus DEF FoldConstant
<1>7. ASSUME NEW r \in Record, ConstantOfNewSample(r) PROVE FocusInv'
  <2>1. /\ IsRecord(r) /\ r.ip \in ConstantIPs /\ filtered' = filtered
        /\ UNCHANGED focusVars
        /\ trace' = trace \/ (ipToAdd # 0 /\ trace' = [trace EXCEPT ![ipToAdd] = Amend(@)])
    BY <1>7 DEF ConstantOfNewSample
  <2>2. /\ DOMAIN trace' = DOMAIN trace
        /\ \A i \in DOMAIN trace : trace'[i].line = trace[i].line
    <3>1. CASE trace' = trace
      BY <3>1
    <3>2. CASE ipToAdd # 0 /\ trace' = [trace EXCEPT ![ipToAdd] = Amend(@)]
      <4>1. /\ ipToAdd \in DOMAIN trace /\ trace \in Seq(Access)
            /\ trace'[ipToAdd] = Amend(trace[ipToAdd])
            /\ \A i \in DOMAIN trace : i # ipToAdd => trace'[i] = trace[i]
            /\ DOMAIN trace' = DOMAIN trace
        BY <1>1, <1>4, <2>1, <3>2, AmendType DEF TypeInv, TypeOK
      <4>2. trace[ipToAdd] \in Access
        BY <4>1
      <4>3. Amend(trace[ipToAdd]).line = trace[ipToAdd].line
        BY <4>2 DEF Amend, Access
      <4> QED BY <4>1, <4>3
    <3> QED BY <2>1, <3>1, <3>2
  <2> QED BY <1>1, <1>4, <2>1, <2>2, SameFocus
<1>8. ASSUME NEW r \in Record, StoreLoad(r) PROVE FocusInv' /\ FocusSpan'
  BY <1>1, <1>4, <1>8, StoreFocus DEF StoreLoad
<1>9. CASE EndOfFile
  <2>1. phase = "reading" /\ phase' # "reading"
    BY <1>9 DEF EndOfFile
  <2> QED BY <1>1, <1>2, <1>9, <2>1, EndFocus
<1>10. CASE ReadDsoHeader \/ ReadTraceHeader \/ ReadDsoEntry
  BY <1>3, <1>10 DEF ReadDsoHeader, ReadTraceHeader, ReadDsoEntry, readerVars
<1>11. CASE UNCHANGED vars
  BY <1>3, <1>11 DEF vars, readerVars
<1>12. CASE \E r \in Record : SkipRecord(r) \/ FoldConstant(r) \/ ConstantOfNewSample(r)
  BY <1>4, <1>5, <1>6, <1>7, <1>12 DEF SkipRecord, FoldConstant, ConstantOfNewSample
<1> QED BY <1>8, <1>9, <1>10, <1>11, <1>12 DEF Next

\* For every file, classification and answers of the lookup, the trace cut
\* with -f is all the stored loads from the first to the last access of the
\* function in focus, but for those no function was found for, and is not
\* empty (main.cpp:747-791).
THEOREM FocusSpanCorrect == Spec => []FocusSpan
<1>1. Init => FocusedInv
  <2> SUFFICES ASSUME Init PROVE FocusInv /\ FocusSpan
    BY InitReader DEF FocusedInv
  <2>1. /\ trace = << >> /\ input = << >> /\ phase = "reading" /\ isInFunc = FALSE
        /\ funcTrace = << >>
    BY DEF Init
  <2>2. StoredLines = {} /\ Storable = {} /\ InFocus = {}
    BY <2>1 DEF StoredLines, Storable, Lines, InFocus
  <2> QED BY <2>1, <2>2 DEF FocusInv, FollowsFocus, LastInFocus, FocusSpan
<1>2. FocusedInv => FocusSpan
  BY DEF FocusedInv
<1> QED BY <1>1, <1>2, NextFocus, PTL DEF Spec
=============================================================================
