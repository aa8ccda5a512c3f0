------------------------------- MODULE Samples -------------------------------
(***************************************************************************)
(* What the window loop of mem-anlys/main.cpp promises of a trace, without *)
(* windows or trees: the accesses, in their order, are cut into samples    *)
(* exactly where the sample id changes, and the last sample is completed   *)
(* when the trace ends.                                                    *)
(***************************************************************************)
EXTENDS Integers, Sequences

CONSTANTS
  IDs,     \* sample ids of the accesses
  MaxTrace \* bound on the accesses of a trace

VARIABLES
  ids,       \* the sample ids of the accesses so far
  complete,  \* the completed samples, each the positions of its accesses
  current,   \* the sample being read
  open       \* the trace has not ended

traceVars == <<ids, complete, current, open>>

TraceInit ==
  /\ ids = << >>
  /\ complete = << >>
  /\ current = << >>
  /\ open = TRUE

IsNext(id) ==
  /\ open
  /\ Len(ids) < MaxTrace
  /\ ids' = Append(ids, id)
  /\ UNCHANGED open

\* The id changes, from that of the access before.
CutHere(id) == ids # << >> /\ ids[Len(ids)] # id

\* The access belongs to the sample of the one before it.
Extend(id) ==
  /\ ~CutHere(id)
  /\ IsNext(id)
  /\ current' = Append(current, Len(ids) + 1)
  /\ UNCHANGED complete

\* The access starts a sample.
Cut(id) ==
  /\ CutHere(id)
  /\ IsNext(id)
  /\ complete' = Append(complete, current)
  /\ current' = <<Len(ids) + 1>>

End ==
  /\ open
  /\ ids # << >>
  /\ open' = FALSE
  /\ complete' = Append(complete, current)
  /\ current' = << >>
  /\ UNCHANGED ids

TraceNext ==
  \/ \E id \in IDs : Extend(id) \/ Cut(id)
  \/ End

TraceSpec == TraceInit /\ [][TraceNext]_traceVars
-----------------------------------------------------------------------------
(* Properties.                                                             *)

\* The state is well formed.
TraceType ==
  /\ ids \in Seq(IDs)
  /\ complete \in Seq(Seq(Nat))
  /\ current \in Seq(Nat)
  /\ open \in BOOLEAN

Elements(s) == {s[i] : i \in DOMAIN s}

\* The positions in sample k, the last one being the current sample.
Samples == 1 .. Len(complete) + 1
SampleAt == [k \in Samples |-> IF k <= Len(complete) THEN Elements(complete[k])
                                                    ELSE Elements(current)]

\* Every access is in exactly one sample.
EachInOneSample ==
  \A p \in DOMAIN ids :
    \E k \in Samples : /\ p \in SampleAt[k]
                      /\ \A l \in Samples : p \in SampleAt[l] => l = k

\* Accesses next to each other are in one sample exactly when they have the
\* same id.
CutsAtChanges ==
  \A p \in DOMAIN ids : p + 1 \in DOMAIN ids =>
    (ids[p] = ids[p + 1] <=>
       \E k \in Samples : p \in SampleAt[k] /\ p + 1 \in SampleAt[k])

\* The samples are the trace cut where the id changes: no access is lost or
\* in two samples, no sample has two ids, and no sample is cut in two
\* (main.cpp:881-886, 918-960).
Partition == EachInOneSample /\ CutsAtChanges
=============================================================================
