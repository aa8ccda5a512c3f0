----------------------------- MODULE TraceReader -----------------------------
(***************************************************************************)
(* The reader of mem-anlys/main.cpp: one pass over the lines of a trace    *)
(* file that builds the in-memory trace the footprint analysis works on.   *)
(*                                                                         *)
(* A line is a section header, an entry of the DSO table or a load record. *)
(* Constant (frame) loads are not stored: they are counted in              *)
(* missing_frame_loads and folded into extra_frame_lds of a stored access. *)
(* Sample ids are renumbered, and with -f the trace is cut to the part     *)
(* between the first and the last access of the function in focus.         *)
(*                                                                         *)
(* One action reads one line; EndOfFile is the code after the loop.        *)
(***************************************************************************)
EXTENDS Integers, Sequences, FiniteSetsExt

CONSTANTS
  IPs,           \* instruction addresses found in the trace
  ConstantIPs,   \* those the load classification file calls CONSTANT (type 0)
  FrameLds,      \* frameLdsMap, 0 where the classification has no entry
  FuncOf,        \* what the function lookup of the focus mode answers for an IP
  FocusModes,    \* with and without option -f
  RegionFilter,  \* TRUE with options -rl and -rh
  SampleIDs,     \* sample ids of the records
  ExtraModulus,  \* extra_frame_lds is a uint16_t: 65536 in the code
  MaxLines       \* bound on the load records of a file

\* upper_bound found no function, the function in focus, any other function.
Lookups == {"notFound", "focus", "other"}

ASSUME ConstantsAssumption ==
  /\ ConstantIPs \subseteq IPs
  /\ FrameLds \in [IPs -> Nat]
  /\ FuncOf \in [IPs -> Lookups]
  /\ FocusModes \subseteq BOOLEAN
  /\ RegionFilter \in BOOLEAN
  /\ SampleIDs \subseteq Nat
  /\ ExtraModulus \in Nat \ {0}
  /\ MaxLines \in Nat

VARIABLES
  phase,          \* "reading", then "done", or "crashed"
  section,        \* isLM and isTrace: "none", "dso" or "trace"
  anyLM,          \* an entry of the DSO table has been read
  input,          \* history: the load records read so far
  trace,          \* the stored accesses
  prevSampleID,   \* prev_sampleID, 0 before the first stored access
  sampleID,       \* the renumbered sample id
  missing,        \* missing_frame_loads
  ipToAdd,        \* ip_to_add: index of the access in trace, 0 for NULL
  removed,        \* loads_from_removed_samples
  focus,          \* option -f is given
  isInFunc,       \* is_in_func
  funcTrace,      \* funcTrace: indices of trace
  funcLastIndex,  \* func_last_index
  pending,        \* history: the records counted in missing
  lost,           \* history: the records whose loads nothing counts any more
  filtered        \* history: the records outside of the region

readerVars == <<trace, prevSampleID, sampleID, missing, ipToAdd, removed,
                pending, lost>>
focusVars  == <<focus, isInFunc, funcTrace, funcLastIndex>>
vars       == <<phase, section, anyLM, input, filtered, readerVars, focusVars>>

Record == [ip : IPs, sample : SampleIDs]
Lines  == DOMAIN input

\* A stored access.  line, in, ip and from are history: where the record was
\* read, its sample id in the file, its IP, the records folded into extra.
Access == [line : Nat, in : SampleIDs, ip : IPs, sample : Nat,
           extra : 0 .. ExtraModulus - 1, from : SUBSET Nat]

\* The loads one record of this IP stands for: itself and its frame loads.
Weight(ip) == FrameLds[ip] + 1

Init ==
  /\ phase = "reading"
  /\ section = "none"
  /\ anyLM = FALSE
  /\ input = << >>
  /\ trace = << >>
  /\ prevSampleID = 0
  /\ sampleID = 0
  /\ missing = 0
  /\ ipToAdd = 0
  /\ removed = 0
  /\ focus \in FocusModes
  /\ isInFunc = FALSE
  /\ funcTrace = << >>
  /\ funcLastIndex = 0
  /\ pending = {}
  /\ lost = {}
  /\ filtered = {}

-----------------------------------------------------------------------------
(* Section headers and the DSO table.                                      *)

ReadDsoHeader ==
  /\ phase = "reading"
  /\ section' = "dso"
  /\ UNCHANGED <<phase, anyLM, input, filtered, readerVars, focusVars>>

ReadTraceHeader ==
  /\ phase = "reading"
  /\ section' = "trace"
  /\ UNCHANGED <<phase, anyLM, input, filtered, readerVars, focusVars>>

\* The table itself (lmMap) only serves the names of the report.
ReadDsoEntry ==
  /\ phase = "reading"
  /\ section = "dso"
  /\ anyLM' = TRUE
  /\ UNCHANGED <<phase, section, input, filtered, readerVars, focusVars>>

-----------------------------------------------------------------------------
(* Load records.                                                           *)

\* A line is a load record after TRACE:, or in a file without sections.
\* Records come in the order of their samples: the script that writes them
\* numbers the samples with a counter.
IsRecord(r) ==
  /\ phase = "reading"
  /\ section = "trace" \/ (section = "none" /\ ~anyLM)
  /\ Len(input) < MaxLines
  /\ input # << >> => input[Len(input)].sample <= r.sample
  /\ input' = Append(input, r)
  /\ UNCHANGED <<phase, section, anyLM>>

\* Slip: without the test of the id, every record looks like a new sample.
NewSampleAlways(r) == prevSampleID # 0

NewSample(r) == prevSampleID # 0 /\ prevSampleID # r.sample

\* The address is outside of -rl .. -rh.
SkipRecord(r) ==
  /\ RegionFilter
  /\ IsRecord(r)
  /\ filtered' = filtered \cup {Len(input) + 1}
  /\ UNCHANGED <<readerVars, focusVars>>

\* A frame load of the sample of the last stored access, or before any.
FoldConstant(r) ==
  /\ r.ip \in ConstantIPs
  /\ ~NewSample(r)
  /\ IsRecord(r)
  /\ missing' = missing + Weight(r.ip)
  /\ pending' = pending \cup {Len(input) + 1}
  /\ UNCHANGED <<trace, prevSampleID, sampleID, ipToAdd, removed, lost,
                 filtered, focusVars>>

\* Slip: setExtraFrameLds without the loads the access already has.
AmendOverwrites(access) ==
  [access EXCEPT !.extra = missing % ExtraModulus, !.from = @ \cup pending]

\* ip_to_add receives the pending loads.
Amend(access) ==
  [access EXCEPT !.extra = (@ + missing) % ExtraModulus,
                 !.from = @ \cup pending]

\* A frame load of another sample: what is pending goes to the last stored
\* access, unless that was already done, and counting starts anew.
ConstantOfNewSample(r) ==
  /\ r.ip \in ConstantIPs
  /\ NewSample(r)
  /\ IsRecord(r)
  /\ \/ /\ ipToAdd # 0
        /\ trace' = [trace EXCEPT ![ipToAdd] = Amend(@)]
        /\ lost' = lost
     \/ /\ ipToAdd = 0
        /\ trace' = trace
        /\ lost' = lost \cup pending
  /\ ipToAdd' = 0
  /\ removed' = removed + missing
  /\ missing' = Weight(r.ip)
  /\ pending' = {Len(input) + 1}
  /\ UNCHANGED <<prevSampleID, sampleID, filtered, focusVars>>

\* The tail of the loop with -f.  A function that the lookup does not find
\* leaves the focus state alone (the continue of the code).
FollowFocus(ip) ==
  \/ /\ ~focus \/ FuncOf[ip] = "notFound"
     /\ UNCHANGED focusVars
  \/ /\ focus
     /\ FuncOf[ip] = "focus"
     /\ isInFunc' = TRUE
     /\ funcLastIndex' = Len(funcTrace)
     /\ funcTrace' = Append(funcTrace, Len(trace) + 1)
     /\ UNCHANGED focus
  \/ /\ focus
     /\ FuncOf[ip] = "other"
     /\ funcTrace' = IF isInFunc THEN Append(funcTrace, Len(trace) + 1)
                                 ELSE funcTrace
     /\ UNCHANGED <<focus, isInFunc, funcLastIndex>>

StoredExtra(ip) == (FrameLds[ip] + missing) % ExtraModulus

\* Slip: the reset of missing_frame_loads is forgotten.
KeepMissing == UNCHANGED <<missing, pending>>

ResetMissing == missing' = 0 /\ pending' = {}

\* Slip: ip_to_add is only set when it is NULL.
FirstToAdd == IF ipToAdd = 0 THEN Len(trace) + 1 ELSE ipToAdd

\* The access just stored is the one later frame loads may go to.
NextToAdd == Len(trace) + 1

\* Any other load is stored, with what is pending.
StoreLoad(r) ==
  /\ r.ip \notin ConstantIPs
  /\ IsRecord(r)
  /\ prevSampleID' = r.sample
  /\ sampleID' = IF NewSample(r) THEN sampleID + 1 ELSE sampleID
  /\ trace' = Append(trace,
                [line |-> Len(input) + 1, in |-> r.sample, ip |-> r.ip,
                 sample |-> sampleID',
                 extra |-> StoredExtra(r.ip), from |-> pending])
  /\ ipToAdd' = NextToAdd
  /\ ResetMissing
  /\ FollowFocus(r.ip)
  /\ UNCHANGED <<removed, lost, filtered>>

-----------------------------------------------------------------------------
(* The code after the loop.                                                *)

\* Slip: removeAfter keeps the elements before the index only.
FocusTraceShort == [i \in 1 .. funcLastIndex |-> trace[funcTrace[i]]]

\* What removeAfter(func_last_index) leaves of funcTrace.
FocusTrace == [i \in 1 .. funcLastIndex + 1 |-> trace[funcTrace[i]]]

\* With -f the trace becomes funcTrace up to the last access in focus.
\* removeAfter on an empty funcTrace erases past its end: the vector is left
\* with one element that does not exist, which addTrace then reads.
EndOfFile ==
  /\ phase = "reading"
  /\ \/ /\ ~focus
        /\ phase' = "done"
        /\ trace' = trace
     \/ /\ focus
        /\ funcTrace # << >>
        /\ phase' = "done"
        /\ trace' = FocusTrace
     \/ /\ focus
        /\ funcTrace = << >>
        /\ phase' = "crashed"
        /\ trace' = << >>
  /\ lost' = lost \cup pending
  /\ pending' = {}
  /\ missing' = 0
  /\ UNCHANGED <<section, anyLM, input, filtered, prevSampleID, sampleID,
                 ipToAdd, removed, focusVars>>

Next ==
  \/ ReadDsoHeader
  \/ ReadTraceHeader
  \/ ReadDsoEntry
  \/ \E r \in Record : SkipRecord(r)
  \/ \E r \in Record : FoldConstant(r)
  \/ \E r \in Record : ConstantOfNewSample(r)
  \/ \E r \in Record : StoreLoad(r)
  \/ EndOfFile

Spec == Init /\ [][Next]_vars
-----------------------------------------------------------------------------
(* Properties.                                                             *)

\* The state is well formed (all of main.cpp's reader state).
TypeOK ==
  /\ phase \in {"reading", "done", "crashed"}
  /\ section \in {"none", "dso", "trace"}
  /\ anyLM \in BOOLEAN
  /\ input \in Seq(Record)
  /\ trace \in Seq(Access)
  /\ prevSampleID \in Nat
  /\ sampleID \in Nat
  /\ missing \in Nat
  /\ ipToAdd \in Nat
  /\ removed \in Nat
  /\ focus \in FocusModes
  /\ isInFunc \in BOOLEAN
  /\ funcTrace \in Seq(Nat)
  /\ funcLastIndex \in Nat
  /\ pending \subseteq Lines
  /\ lost \subseteq Lines
  /\ filtered \subseteq Lines

StoredLines == {trace[i].line : i \in DOMAIN trace}
FoldedLines == UNION {trace[i].from : i \in DOMAIN trace}

\* Where a record's loads can be while the file is being read.
Places == {StoredLines, FoldedLines, pending, lost, filtered}

\* No load is counted twice, and none disappears without being counted as
\* lost: each record is stored, folded into one stored access, pending, lost
\* or filtered, and never two of these (the fold of main.cpp:686-729).
LoadsAccounted ==
  phase = "reading" =>
    /\ Lines = UNION Places
    /\ StoredLines \cap (FoldedLines \cup pending \cup lost \cup filtered) = {}
    /\ FoldedLines \cap (pending \cup lost \cup filtered) = {}
    /\ pending \cap (lost \cup filtered) = {}
    /\ lost \cap filtered = {}
    /\ \A i, j \in DOMAIN trace :
         i # j => /\ trace[i].line # trace[j].line
                  /\ trace[i].from \cap trace[j].from = {}

LoadsOf(lines) == SumFunction([l \in lines |-> Weight(input[l].ip)])

\* The counters are the loads they stand for: extra_frame_lds of a stored
\* access is, modulo its 16 bits, its own frame loads and the loads of the
\* records folded into it, and missing_frame_loads those of the pending ones,
\* however often the pending count moved between accesses (main.cpp:686-729).
ExtraIsFold ==
  /\ \A i \in DOMAIN trace :
       trace[i].extra =
         (FrameLds[trace[i].ip] + LoadsOf(trace[i].from)) % ExtraModulus
  /\ missing = LoadsOf(pending)

\* A frame load is only ever folded into one of the two stored accesses it
\* was read between, so folding never moves loads across other accesses
\* (ip_to_add of main.cpp:688-692 could be stale).
FoldedNearby ==
  \A i \in DOMAIN trace : \A l \in trace[i].from :
    \A j \in DOMAIN trace :
      /\ j < i => trace[j].line < l
      /\ j > i => l < trace[j].line

\* What ConstantOfNewSample drops are frame loads at the head of a sample: no
\* access of that sample was stored before them.  It bounds what the analysis
\* can miss while the file is read (main.cpp:687-694).
LostAtSampleHead ==
  phase = "reading" =>
    \A l \in lost : \A i \in DOMAIN trace :
      trace[i].line < l => trace[i].in # input[l].sample

\* Renumbering keeps the sample structure of the file: ids never go back, and
\* two stored accesses get the same id exactly when the file has them in the
\* same sample, unless the earlier one is in sample 0 (main.cpp:701-710).
SamplesRenumbered ==
  \A i, j \in DOMAIN trace :
    i < j =>
      /\ trace[i].sample <= trace[j].sample
      /\ trace[i].in # 0 =>
           (trace[i].sample = trace[j].sample <=> trace[i].in = trace[j].in)

Lookup(l)  == FuncOf[input[l].ip]
Storable   == {l \in Lines \ filtered : input[l].ip \notin ConstantIPs}
FocusLines == {l \in Storable : Lookup(l) = "focus"}

\* With -f the analysed trace is all the stored loads from the first to the
\* last access of the function in focus, less those whose function the lookup
\* does not find, and is never empty (main.cpp:747-791).
FocusSpan ==
  phase = "done" /\ focus =>
    /\ trace # << >>
    /\ StoredLines =
         {l \in Storable : /\ Lookup(l) # "notFound"
                           /\ \E f, g \in FocusLines : f <= l /\ l <= g}

\* Once another access is stored, an access never changes: only the last one
\* can still receive frame loads, and it never gives any back (main.cpp:688).
OnlyLastAmended ==
  [][phase' = "reading" =>
       \A i \in DOMAIN trace :
         /\ i < Len(trace) => trace'[i] = trace[i]
         /\ trace[i].from \subseteq trace'[i].from]_vars
=============================================================================
