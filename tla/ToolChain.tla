------------------------------ MODULE ToolChain ------------------------------
(***************************************************************************)
(* The scripts a user runs one after the other: memgaze-inst, memgaze-run  *)
(* (Collector) and memgaze-xtrace.  memgaze-inst and memgaze-xtrace run    *)
(* one program after the other, look at no exit code, and move the output  *)
(* of a step over its input.  Any step may fail, the user may interrupt a  *)
(* script and run it again over what the interrupted run left; perf and    *)
(* the application of memgaze-run go on beside whatever is run then.       *)
(***************************************************************************)
EXTENDS Collector

CONSTANTS
  MaxRuns,     \* bound on how often memgaze-inst and memgaze-xtrace are started
  MaxCollects  \* the same for memgaze-run

ASSUME ToolChainAssumption == MaxRuns \in Nat /\ MaxCollects \in Nat

VARIABLES
  tool,      \* the script that runs or ran last: "inst", "run" or "xtrace"
  step,      \* its next step, "start" before and "end" after the script
  runs,      \* history: how often memgaze-inst or memgaze-xtrace has been started
  failed,    \* history: a step of this run of the script, other than perf record,
             \* has failed
  binary,    \* the instrumented program exists
  log,       \* .binanlys.log: "none", "empty", "part" or "full"
  lc,        \* .binanlys: "none", "part", "raw", "fixed" or "renamed"
  lcFixed,   \* .binanlys_Fixed, the same and "none" for no such file
  trace,     \* .trace
  clean,     \* .trace.clean
  final,     \* .trace.final
  cg,        \* .trace.final_callGraph
  callpath   \* .callpath

instVars  == <<binary, log, lc, lcFixed>>
traceVars == <<trace, clean, final, cg, callpath>>
toolVars  == <<tool, step, runs, failed>>
vars      == <<toolVars, instVars, traceVars, runVars>>

\* What a file of memgaze-xtrace holds: the output of which program, of which
\* run, all of it or a part, with the offsets of which classification file.
NoFile == [kind |-> "none", run |-> 0, whole |-> FALSE, lc |-> "none"]
File(kind, whole, class) ==
  [kind |-> kind, run |-> runs, whole |-> whole, lc |-> class]

Init ==
  /\ RunInit
  /\ tool = "inst" /\ step = "start" /\ runs = 0 /\ failed = FALSE
  /\ binary = FALSE /\ log = "none" /\ lc = "none" /\ lcFixed = "none"
  /\ trace = NoFile /\ clean = NoFile /\ final = NoFile
  /\ cg = NoFile /\ callpath = NoFile

\* The user starts a script, or starts it again.
Start(t, first) ==
  /\ tool = t
  /\ step \in {"start", "end"}
  /\ runs < MaxRuns
  /\ runs' = runs + 1
  /\ step' = first
  /\ failed' = FALSE
  /\ UNCHANGED <<tool, instVars, traceVars, runVars>>

\* One program of a script: the next one follows whether it failed or not.
Do(t, this, next, ok) ==
  /\ tool = t
  /\ step = this
  /\ step' = next
  /\ failed' = (failed \/ ~ok)
  /\ UNCHANGED <<tool, runs, runVars>>

\* Ctrl-C between two programs; during one, it is the program that fails.
Interrupt ==
  /\ step \notin {"start", "end", "run"}
  /\ step' = "end"
  /\ failed' = TRUE
  /\ UNCHANGED <<tool, runs, instVars, traceVars, runVars>>

-----------------------------------------------------------------------------
(* memgaze-inst: its mkdir, cp and hpcstruct touch none of these files.    *)

\* The instrumentor writes the classification and the program; its messages
\* are the log.  It may not start at all, or stop half-way.
Instrument ==
  \/ /\ Do("inst", "instrument", "cat", TRUE)
     /\ binary' = TRUE /\ log' = "full" /\ lc' = "raw"
     /\ UNCHANGED <<lcFixed, traceVars>>
  \/ /\ Do("inst", "instrument", "cat", FALSE)
     /\ log' = "part" /\ lc' = "part"
     /\ UNCHANGED <<binary, lcFixed, traceVars>>
  \/ /\ Do("inst", "instrument", "cat", FALSE)
     /\ log' = "empty"
     /\ UNCHANGED <<binary, lc, lcFixed, traceVars>>

\* The addresses of the log, put into the classification: on a file that has
\* them already, without a log, the names go.
Cat == IF lc = "raw" /\ log = "full" THEN "fixed"
       ELSE IF lc \in {"raw", "part"} THEN "part" ELSE "renamed"

\* memgaze-inst-cat writes its output at its end, and needs the program.
InstCat ==
  \/ /\ Do("inst", "cat", "move", TRUE)
     /\ binary /\ lc # "none"
     /\ lcFixed' = Cat
     /\ UNCHANGED <<binary, log, lc, traceVars>>
  \/ /\ Do("inst", "cat", "move", FALSE)
     /\ UNCHANGED <<instVars, traceVars>>

MoveFixed ==
  /\ Do("inst", "move", "end", lcFixed # "none")
  /\ lc' = IF lcFixed = "none" THEN lc ELSE lcFixed
  /\ lcFixed' = "none"
  /\ UNCHANGED <<binary, log, traceVars>>

\* An instrumented program to run.
ToRun ==
  /\ tool = "inst" /\ step = "end" /\ binary
  /\ tool' = "run" /\ step' = "start" /\ runs' = 0
  /\ failed' = FALSE
  /\ UNCHANGED <<instVars, traceVars, runVars>>

-----------------------------------------------------------------------------
(* memgaze-run.                                                            *)

\* The user takes longer to start it again than perf of an interrupted run
\* takes to write the first bytes of its output.
StartRun ==
  /\ tool = "run"
  /\ step \in {"start", "end"}
  /\ nth < MaxCollects
  /\ perf # "starting"
  /\ Launch
  /\ step' = "run"
  /\ failed' = FALSE
  /\ UNCHANGED <<tool, runs, instVars, traceVars>>

Collect ==
  /\ tool = "run" /\ step = "run"
  /\ Script
  /\ step' = IF script' = "idle" THEN "end" ELSE "run"
  /\ failed' = (script' = "idle" /\ ~config'.written)
  /\ UNCHANGED <<tool, runs, instVars, traceVars>>

StopRun ==
  /\ tool = "run" /\ step = "run"
  /\ InterruptRun
  /\ step' = "end"
  /\ failed' = TRUE
  /\ UNCHANGED <<tool, runs, instVars, traceVars>>

BesideScripts == Background /\ UNCHANGED <<toolVars, instVars, traceVars>>

ToExtract ==
  /\ tool = "run" /\ step = "end" /\ config.written
  /\ tool' = "xtrace" /\ step' = "start" /\ runs' = 0
  /\ UNCHANGED <<failed, instVars, traceVars, runVars>>

-----------------------------------------------------------------------------
(* memgaze-xtrace.                                                         *)

\* perf script > .trace
PerfScript ==
  \/ /\ Do("xtrace", "script", "grep", TRUE)
     /\ data.state = "complete"
     /\ trace' = File("script", TRUE, "none")
     /\ UNCHANGED <<instVars, clean, final, cg, callpath>>
  \/ /\ Do("xtrace", "script", "grep", FALSE)
     /\ trace' = File("script", FALSE, "none")
     /\ UNCHANGED <<instVars, clean, final, cg, callpath>>

\* grep -v error, on whatever .trace is.
Grep ==
  /\ Do("xtrace", "grep", "moveClean", TRUE)
  /\ clean' = trace
  /\ UNCHANGED <<instVars, trace, final, cg, callpath>>

MoveClean ==
  /\ Do("xtrace", "moveClean", "normalize", TRUE)
  /\ trace' = clean
  /\ clean' = NoFile
  /\ UNCHANGED <<instVars, final, cg, callpath>>

\* Slip: the outputs are opened for appending.
Appended(old, new) == IF old = NoFile THEN new ELSE [new EXCEPT !.whole = FALSE]

\* The outputs are opened with "w".
Written(old, new) == new

\* memgaze-xtrace-normalize stops before it opens its outputs (it cannot read
\* .binanlys), on the way (a line it cannot split), or succeeds.
Normalize ==
  \/ /\ Do("xtrace", "normalize", "moveFinal", FALSE)
     /\ UNCHANGED <<instVars, traceVars>>
  \/ /\ Do("xtrace", "normalize", "moveFinal", FALSE)
     /\ lc # "none"
     /\ final' = Written(final, File("final", FALSE, lc))
     /\ cg' = Written(cg, File("callpath", FALSE, "none"))
     /\ UNCHANGED <<instVars, trace, clean, callpath>>
  \/ /\ Do("xtrace", "normalize", "moveFinal", TRUE)
     /\ lc # "none"
     /\ final' = Written(final, File("final", trace.whole, lc))
     /\ cg' = Written(cg, File("callpath", trace.whole, "none"))
     /\ UNCHANGED <<instVars, trace, clean, callpath>>

MoveFinal ==
  /\ Do("xtrace", "moveFinal", "moveCallPath", final # NoFile)
  /\ trace' = IF final = NoFile THEN trace ELSE final
  /\ final' = NoFile
  /\ UNCHANGED <<instVars, clean, cg, callpath>>

MoveCallPath ==
  /\ Do("xtrace", "moveCallPath", "end", cg # NoFile)
  /\ callpath' = IF cg = NoFile THEN callpath ELSE cg
  /\ cg' = NoFile
  /\ UNCHANGED <<instVars, trace, clean, final>>

Next ==
  \/ Start("inst", "instrument") \/ Instrument \/ InstCat \/ MoveFixed
  \/ ToRun \/ StartRun \/ Collect \/ StopRun \/ ToExtract
  \/ Start("xtrace", "script") \/ PerfScript \/ Grep \/ MoveClean
  \/ Normalize \/ MoveFinal \/ MoveCallPath
  \/ Interrupt \/ BesideScripts

\* Each process of memgaze-run goes on when it can.  The application need not
\* end, perf need not fail while it records.
Fairness ==
  /\ WF_vars(Collect)
  /\ WF_vars(Perf /\ UNCHANGED <<toolVars, instVars, traceVars>>)
  /\ WF_vars(AppExecs /\ UNCHANGED <<toolVars, instVars, traceVars>>)

Spec == Init /\ [][Next]_vars /\ Fairness
-----------------------------------------------------------------------------
(* Properties.                                                             *)

Lcs   == {"none", "part", "raw", "fixed", "renamed"}
Files == [kind : {"none", "script", "final", "callpath"}, run : 0 .. MaxRuns,
          whole : BOOLEAN, lc : Lcs]

TypeOK ==
  /\ RunTypeOK
  /\ tool \in {"inst", "run", "xtrace"}
  /\ step \in {"start", "instrument", "cat", "move", "script", "grep",
               "moveClean", "normalize", "moveFinal", "moveCallPath", "run", "end"}
  /\ runs \in 0 .. MaxRuns
  /\ failed \in BOOLEAN
  /\ binary \in BOOLEAN
  /\ log \in {"none", "empty", "part", "full"}
  /\ lc \in Lcs /\ lcFixed \in Lcs
  /\ {trace, clean, final, cg, callpath} \subseteq Files

\* A script of which no step failed leaves what it promises, whatever earlier
\* runs of it, failed or interrupted anywhere, have left behind: the rewritten
\* classification; the whole final trace and call paths of this run, made with
\* that classification, and no intermediate file (memgaze-inst:196-214,
\* memgaze-xtrace:134-146).
Repeatable ==
  step = "end" /\ ~failed =>
    /\ tool = "inst" => lc = "fixed" /\ lcFixed = "none" /\ binary
    /\ tool = "xtrace" =>
         /\ trace = File("final", TRUE, lc)
         /\ callpath = File("callpath", TRUE, "none")
         /\ {clean, final, cg} = {NoFile}

\* If perf has failed, or the application ends, while memgaze-run is on, then
\* that run writes its config, unless it is interrupted or cannot write it: the
\* look for the application blocks nothing, whatever it finds, and however
\* earlier runs were ended (memgaze-run:273-308).
ConfigWritten ==
  \A n \in 1 .. MaxCollects :
    (nth = n /\ script # "idle" /\ (PerfGone \/ app = "ended"))
      ~> (config.run = n \/ failed)
=============================================================================
