--------------------------- MODULE TraceExtraction ---------------------------
(***************************************************************************)
(* From the instrumented routine of LoadClasses to the final trace.  The   *)
(* program runs blocks of the routine; each ptwrite in front of an access  *)
(* is a word in the stream the processor records.  Samples cut that stream *)
(* anywhere: the words between two samples are lost.  perf script prints a *)
(* line for each recorded word (process_event of perf-script-intel-pt.py)  *)
(* and memgaze-xtrace-normalize merges the words of an access into one     *)
(* record and adds the offsets of the classification file.                 *)
(***************************************************************************)
EXTENDS LoadClasses

CONSTANTS
  Reloc,      \* where Dyninst moves the instruction of an address to
  MaxRuns,    \* bound on the blocks executed
  MaxSamples  \* bound on the sample events

\* The nodes of one instruction are made one after the other (DGBuilder.C:
\* 3271-3312).
ASSUME ExtractionAssumption ==
  /\ \A r \in Routines : Addrs(r) \subseteq DOMAIN Reloc
  /\ \A r \in Routines : \A i, j, k \in DOMAIN r :
       i < j /\ j < k /\ r[i].addr = r[k].addr => r[j].addr = r[i].addr
  /\ \A a \in DOMAIN Reloc : Reloc[a] \in Nat /\ Reloc[a] > 5
  /\ MaxRuns \in Nat
  /\ MaxSamples \in Nat

VARIABLES
  stage,      \* "build", then "run", "normalize" and "done"
  runs,       \* history: the blocks executed
  ahead,      \* the set of words the running block has still to write
  recording,  \* the stream is inside of a sample's buffer
  sampleCnt,  \* sample_cnt of the script
  ptTrace,    \* the lines of the script: words, and call paths of samples
  lost,       \* history: the words no sample holds
  read,       \* the lines memgaze-xtrace-normalize has read
  current,    \* str_output and prev_ip, prev_addr, prev_cpu, prev_time
  callpath,   \* the call-path file: the samples of its lines
  final       \* the records written

runVars   == <<runs, ahead, recording, sampleCnt, ptTrace, lost>>
finalVars == <<read, current, callpath, final>>
vars      == <<classVars, stage, runVars, finalVars>>

\* The length of the ptwrite instruction.
PTWLen == 5

\* str_output before the first record.
NoRecord == [ip |-> 0, words |-> << >>, offsets |-> 0, scaled |-> FALSE,
             sample |-> 0]

Init ==
  /\ ClassInit
  /\ stage = "build"
  /\ runs = << >>
  /\ ahead = {}
  /\ recording \in BOOLEAN
  /\ sampleCnt = 0
  /\ ptTrace = << >>
  /\ lost = {}
  /\ read = 0
  /\ current = NoRecord
  /\ callpath = << >>
  /\ final = << >>

\* Between the last ptwrite in front of an instruction and the first in front
\* of another there is the instruction itself.
Placed ==
  \A a, c \in DOMAIN snippets :
    a # c => \/ Reloc[a] + PTWLen * Len(snippets[a]) < Reloc[c]
             \/ Reloc[c] + PTWLen * Len(snippets[c]) < Reloc[a]

Build ==
  /\ stage = "build"
  /\ \/ ClassNext /\ UNCHANGED stage
     \/ pass = 5 /\ Placed /\ stage' = "run" /\ UNCHANGED classVars
  /\ UNCHANGED <<runVars, finalVars>>

-----------------------------------------------------------------------------
(* The program and the recorder.                                           *)

\* Where the ptwrites of the instrumented program are: one after the other, in
\* front of the instruction.  exec is history: which execution it is.
Word(a, k, exec) == [ip |-> Reloc[a] + PTWLen * (k - 1), addr |-> a,
                     node |-> snippets[a][k].node, reg |-> snippets[a][k].reg,
                     exec |-> exec]

\* The words block b writes.
Instructions(b) == {routine[i].addr : i \in {j \in DOMAIN routine : routine[j].block = b}}

WordsOf(b, exec) ==
  UNION {{Word(a, k, exec) : k \in DOMAIN snippets[a]} : a \in Instructions(b)}

RunBlock(b) ==
  /\ stage = "run"
  /\ ahead = {}
  /\ Len(runs) < MaxRuns
  /\ runs' = Append(runs, b)
  /\ ahead' = WordsOf(b, Len(runs) + 1)
  /\ UNCHANGED <<classVars, stage, recording, sampleCnt, ptTrace, lost,
                 finalVars>>

\* The script adds the number of sample events before the word.
WordLine(w) == [kind |-> "word", sample |-> sampleCnt, ip |-> w.ip, addr |-> w.addr,
                node |-> w.node, reg |-> w.reg, exec |-> w.exec]

\* The block runs in the order it was moved to.
WriteWord ==
  /\ stage = "run"
  /\ \E w \in ahead :
       /\ \A v \in ahead : w.ip <= v.ip
       /\ ahead' = ahead \ {w}
       /\ \/ /\ recording
             /\ ptTrace' = Append(ptTrace, WordLine(w))
             /\ UNCHANGED lost
          \/ /\ ~recording
             /\ lost' = lost \cup {w}
             /\ UNCHANGED ptTrace
  /\ UNCHANGED <<classVars, stage, runs, recording, sampleCnt, finalVars>>

\* The period of the sampling event has passed.  The script counts the event
\* and prints its call path.
SampleEvent ==
  /\ stage = "run"
  /\ sampleCnt < MaxSamples
  /\ sampleCnt' = sampleCnt + 1
  /\ recording' = FALSE
  /\ ptTrace' = Append(ptTrace, [kind |-> "callpath", sample |-> sampleCnt + 1])
  /\ UNCHANGED <<classVars, stage, runs, ahead, lost, finalVars>>

\* The buffer of the next sample starts here: it holds the last words before
\* the next event.
BufferStarts ==
  /\ stage = "run"
  /\ ~recording
  /\ recording' = TRUE
  /\ UNCHANGED <<classVars, stage, runs, ahead, sampleCnt, ptTrace, lost,
                 finalVars>>

EndOfRun ==
  /\ stage = "run"
  /\ ahead = {}
  /\ stage' = "normalize"
  /\ UNCHANGED <<classVars, runVars, finalVars>>

-----------------------------------------------------------------------------
(* memgaze-xtrace-normalize.                                               *)

\* offsetMap and scaleMap have an entry for the IP.
InMaps(ip) == \E a \in DOMAIN fixed : Reloc[a] = ip

\* Slip: words of the same IP are merged too.
MergesNearby(w) == w.ip - current.ip \in {0, PTWLen}

\* prev_ip + 5 == IP.
Merges(w) == current.ip + PTWLen = w.ip

\* The record of a word that is not merged.
Fresh(w) == [ip |-> w.ip, words |-> <<w>>, sample |-> w.sample, scaled |-> FALSE,
             offsets |-> IF InMaps(w.ip) THEN 1 ELSE 0]

\* Addr + prev_addr * scale, plus the offset of the first IP: the address as
\* the words summed, the times the offset is in, whether scaleMap had the IP
\* of the second word.
Merged(w) == [current EXCEPT
                !.words = Append(@, w),
                !.sample = w.sample,
                !.scaled = InMaps(w.ip),
                !.offsets = @ + IF InMaps(current.ip) THEN 1 ELSE 0]

\* str_output is empty before the first record.
Write == IF current = NoRecord THEN final ELSE Append(final, current)

\* A call path goes to its own file and leaves prev_ip alone.
CopyCallPath ==
  /\ stage = "normalize"
  /\ read < Len(ptTrace)
  /\ ptTrace[read + 1].kind = "callpath"
  /\ read' = read + 1
  /\ callpath' = Append(callpath, ptTrace[read + 1].sample)
  /\ UNCHANGED <<classVars, stage, runVars, current, final>>

NormalizeWord ==
  /\ stage = "normalize"
  /\ read < Len(ptTrace)
  /\ read' = read + 1
  /\ LET w == ptTrace[read + 1]
     IN  /\ w.kind = "word"
         /\ \/ /\ Merges(w)
               /\ current' = Merged(w)
               /\ final' = final
            \/ /\ ~Merges(w)
               /\ current' = Fresh(w)
               /\ final' = Write
  /\ UNCHANGED <<classVars, stage, runVars, callpath>>

\* Slip: the last record is not written.
WriteNothing == final

\* What is written after the loop.
WriteLast == Write

EndOfTrace ==
  /\ stage = "normalize"
  /\ read = Len(ptTrace)
  /\ stage' = "done"
  /\ final' = WriteLast
  /\ UNCHANGED <<classVars, runVars, read, current, callpath>>

Next ==
  \/ Build
  \/ \E b \in Blocks : RunBlock(b)
  \/ WriteWord
  \/ SampleEvent
  \/ BufferStarts
  \/ EndOfRun
  \/ CopyCallPath
  \/ NormalizeWord
  \/ EndOfTrace

Spec == Init /\ [][Next]_vars
-----------------------------------------------------------------------------
(* Properties.                                                             *)

LinesOf(b) == {i \in DOMAIN lines : lines[i].block = b}

\* What a line says it stands for besides its own access; a frame load that
\* pass 3 instruments was counted itself.
StandsFor(l) == l.skips + IF l.class = 0 /\ ~mo.frame THEN 1 ELSE 0

\* What pass 1 counted in a block is in its count or in lines.
CountsCharged == \A b \in Blocks : counted[b] = charged[b] + count[b]

\* Every frame load pass 1 counted is either still in its block's count or in
\* the skips of one line of the same block: none is charged twice, or to
\* another block (the lower_bound look-ups and resets of DGBuilder.C:1401-1833).
SkipsCharged ==
  /\ CountsCharged
  /\ \A b \in Blocks :
       charged[b] = SumFunction([i \in LinesOf(b) |-> StandsFor(lines[i])])

LeftBlocks   == {b \in Blocks : count[b] > 0}
ServedBlocks == {b \in Blocks : \E i \in LinesOf(b) : lines[i].class = 0}

\* Pass 3 serves exactly one block when any block has loads left over, and
\* only then: the scan for the first of them uses up the node list, and no
\* later block gets its frame load (lnit of DGBuilder.C:1203 and 1764).
OneLeftoverServed ==
  pass = 5 /\ ~mo.frame =>
    /\ Cardinality(ServedBlocks) <= 1
    /\ LeftBlocks # {} => ServedBlocks # {}

\* What the code writes to its log for each block with a count: instrument a
\* frame load and let it stand for the others.
LeftoversInstrumented == pass = 5 => LeftBlocks = {}

\* memgaze-inst's own choice of what to instrument, and no constant load that
\* depends on the stack twice.
DefaultCase ==
  /\ mo.loads /\ mo.strided /\ mo.indirect /\ ~mo.frame /\ ~mo.stores
  /\ \A i \in DOMAIN routine : routine[i].stackEdges <= 1

LoadsIn(b) == {i \in DOMAIN routine :
                 routine[i].type = "load" /\ routine[i].block = b}

\* The loads a final record stands for, by the line of its IP.
LoadsOfRecord(r) ==
  1 + MapThenSumSet(LAMBDA a : fixed[a].skips,
                    {a \in DOMAIN fixed : Reloc[a] = r.ip})

\* Lines whose access has no ptwrite (no register ptwrite knows, or no point
\* to patch): no record will ever have their IP.
Untraced(b) == {a \in DOMAIN fixed : fixed[a].block = b /\ snippets[a] = << >>}

\* The purpose of the skip counts, end to end: if no word is lost, the final
\* records and their skips are exactly the loads the program executed, less
\* those of blocks pass 3 left out and those charged to an access that gets
\* no ptwrite (DGBuilder.C, memgaze-inst-cat and memgaze-xtrace-normalize).
ExecutionAccounted ==
  stage = "done" /\ DefaultCase /\ lost = {} =>
    MapThenSumSet(LAMBDA i : Cardinality(LoadsIn(runs[i])), DOMAIN runs) =
      MapThenSumSet(LAMBDA i : LoadsOfRecord(final[i]), DOMAIN final) +
      MapThenSumSet(LAMBDA i : count[runs[i]] +
                      MapThenSumSet(LAMBDA a : 1 + fixed[a].skips,
                                    Untraced(runs[i])), DOMAIN runs)

\* A record is about one instruction.  It mixes two executions only across a
\* sample boundary, where the second word of one can follow a whole access or
\* the first word of another (normalize:111 looks at nothing but the IP).
RecordsOfOneAccess ==
  \A i \in DOMAIN final :
    LET ws == final[i].words
    IN  \A j, k \in DOMAIN ws :
          /\ ws[j].addr = ws[k].addr
          /\ ws[j].exec # ws[k].exec => ws[j].sample # ws[k].sample

\* A record of one word that starts its access has the offset of its own
\* instruction, once, unless the instruction has no formulas or pass 3 wrote
\* its line (DGBuilder.C:1412-1430, normalize:129).
OffsetOfAccess ==
  \A i \in DOMAIN final :
    LET r == final[i]
        w == r.words[1]
    IN  Len(r.words) = 1 /\ w.ip = Reloc[w.addr] =>
          /\ r.offsets = 1 /\ ~r.scaled
          /\ routine[w.node].ref # "unknown" /\ fixed[w.addr].class # 0 =>
               routine[fixed[w.addr].of].addr = w.addr

\* Both: what normalize makes of the words it merges and of those it does not.
RecordsRebuilt == RecordsOfOneAccess /\ OffsetOfAccess

\* What README-notes.md says of a two-source load, dest <- [src1] + k [src2]
\* + o: its two words become one record whose address has the offset once.
OffsetOnce ==
  \A i \in DOMAIN final : final[i].offsets <= 1
=============================================================================
