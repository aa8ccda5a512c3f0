---------------------------- MODULE ToolChainProofs ----------------------------
(***************************************************************************)
(* Proofs about ToolChain: the state is well formed, what memgaze.config    *)
(* says of the data beside it however often memgaze-run was started and     *)
(* interrupted, and a script of which no step fails leaves what it promises.*)
(* None depends on fairness.                                                *)
(***************************************************************************)
EXTENDS ToolChain, TLAPS

\* What memgaze-run relies on between its steps.  Only the last run's config can
\* have perf of the last run gone, so a perf that opens its output makes the data
\* later than any config; perf of an earlier run only writes to earlier data.
DataInv ==
  /\ data.run <= nth
  /\ oldPerf => data.run < nth
  /\ perf = "recording" \/ (perf = "starting" /\ app # "none") => data.run = nth
  /\ perf = "ended" => data.run = nth /\ data.state = "complete"

ConfigInv ==
  /\ script = "waited" => PerfGone
  /\ config.written =>
       /\ config.run <= nth
       /\ config.run = nth => PerfGone /\ script = "idle"
       /\ config.perf = "ended" =>
            \/ config.run = data.run /\ data.state = "complete"
            \/ config.run < data.run

\* The addresses are read in order, and an image is only replaced once.
AddrInv ==
  /\ script \in {"idle", "launched", "found"} => stack = ""
  /\ script \in {"idle", "launched", "found", "stackRead"} => heap = ""
  /\ stack = "app" => app \in {"running", "ended"}
  /\ stack = "app" => heap # "perf"
  /\ config.stack = "app" => config.heap # "perf"

CollectInv == DataInv /\ ConfigInv /\ AddrInv

\* What each step of memgaze-inst finds if none before it has failed.
InstInv ==
  tool = "inst" =>
    /\ step \in {"start", "instrument", "cat", "move", "end"}
    /\ ~failed =>
         /\ step = "cat" => lc = "raw" /\ log = "full" /\ binary
         /\ step = "move" => lcFixed = "fixed" /\ binary
         /\ step = "end" => lc = "fixed" /\ lcFixed = "none" /\ binary

\* The same for memgaze-xtrace.
Script0   == File("script", TRUE, "none")
Final0    == File("final", TRUE, lc)
CallPath0 == File("callpath", TRUE, "none")
XtraceInv ==
  tool = "xtrace" =>
    /\ step \in {"start", "script", "grep", "moveClean", "normalize",
                 "moveFinal", "moveCallPath", "end"}
    /\ ~failed =>
         /\ step = "grep" => trace = Script0
         /\ step = "moveClean" => clean = Script0
         /\ step = "normalize" => trace = Script0 /\ clean = NoFile
         /\ step = "moveFinal" => final = Final0 /\ cg = CallPath0 /\ clean = NoFile
         /\ step = "moveCallPath" =>
              /\ trace = Final0 /\ cg = CallPath0
              /\ clean = NoFile /\ final = NoFile
         /\ step = "end" =>
              /\ trace = Final0 /\ callpath = CallPath0
              /\ clean = NoFile /\ final = NoFile /\ cg = NoFile

RunStep == tool = "run" => step \in {"start", "run", "end"}

IInv == TypeOK /\ CollectInv /\ InstInv /\ XtraceInv /\ RunStep

LEMMA MaxRunsType == MaxRuns \in Nat
BY ToolChainAssumption DEF ToolChainAssumption

LEMMA ZeroRuns == 0 \in 0 .. MaxRuns
BY MaxRunsType

LEMMA NoFileType == NoFile \in Files
BY ZeroRuns DEF NoFile, Files, Lcs

LEMMA NoDataRun == NoData.run <= 0
BY DEF NoData

LEMMA SuccNat == \A n \in Nat : n + 1 \in Nat
OBVIOUS

LEMMA FilesType ==
  ASSUME NEW k \in {"script", "final", "callpath"}, NEW w \in BOOLEAN,
         NEW c \in Lcs, TypeOK
  PROVE  File(k, w, c) \in Files
<1>1. runs \in 0 .. MaxRuns
  BY DEF TypeOK
<1> QED BY <1>1 DEF File, Files

LEMMA InitInv == Init => IInv
<1> SUFFICES ASSUME Init PROVE IInv
  OBVIOUS
<1> USE DEF Init, RunInit
<1>1. {trace, clean, final, cg, callpath} \subseteq Files
  BY NoFileType
<1>2. RunTypeOK
  BY DEF RunTypeOK, NoConfig, NoData, Steps, Owners
<1>6. runs \in 0 .. MaxRuns
  BY ZeroRuns, Zenon
<1>3. TypeOK
  BY <1>1, <1>2, <1>6 DEF TypeOK, Lcs
<1>4. CollectInv
  <2>1. DataInv
    <3>1. data.run <= nth
      BY NoDataRun, Zenon
    <3> QED BY <3>1 DEF DataInv
  <2>2. ConfigInv
    BY DEF ConfigInv, NoConfig
  <2>3. AddrInv
    BY DEF AddrInv, NoConfig
  <2> QED BY <2>1, <2>2, <2>3 DEF CollectInv
<1>5. InstInv /\ XtraceInv /\ RunStep
  BY DEF InstInv, XtraceInv, RunStep
<1> QED BY <1>3, <1>4, <1>5 DEF IInv

-----------------------------------------------------------------------------
(* memgaze-run.                                                            *)

LEMMA ScriptType ==
  ASSUME RunTypeOK, ConfigInv, Script
  PROVE  RunTypeOK'
<1> USE DEF RunTypeOK, Steps, Owners
<1>1. ASSUME UNCHANGED <<nth, perf, app, hasHeap, oldPerf, data>>,
             script' \in Steps, pid' \in BOOLEAN, stack' \in Owners, heap' \in Owners,
             config' \in [written : BOOLEAN, run : Nat, perf : {"none", "ended", "failed"},
                          stack : Owners, heap : Owners]
      PROVE  RunTypeOK'
  BY <1>1
<1>2. Image \in Owners
  BY DEF Image
<1>3. CASE FindApp
  <2>1. HasChild \in BOOLEAN
    BY DEF HasChild
  <2> QED BY <1>1, <1>3, <2>1 DEF FindApp, procVars
<1>4. CASE ReadStack
  BY <1>1, <1>2, <1>4 DEF ReadStack, procVars
<1>5. CASE ReadHeap
  BY <1>1, <1>2, <1>5 DEF ReadHeap, procVars
<1>6. CASE Wait
  BY <1>1, <1>6 DEF Wait, procVars
<1>7. CASE WriteConfig
  <2>1. config' \in [written : BOOLEAN, run : Nat, perf : {"none", "ended", "failed"},
                     stack : Owners, heap : Owners]
    BY <1>7 DEF WriteConfig, ConfigInv, PerfGone
  <2> QED BY <1>1, <1>7, <2>1 DEF WriteConfig, Exit
<1>8. CASE FailToWriteConfig
  BY <1>1, <1>8 DEF FailToWriteConfig, Exit, NoConfig
<1> QED BY <1>3, <1>4, <1>5, <1>6, <1>7, <1>8 DEF Script

LEMMA RunType ==
  ASSUME RunTypeOK, Launch \/ InterruptRun
  PROVE  RunTypeOK'
<1> USE DEF RunTypeOK, Steps, Owners
<1>1. CASE Launch
  <2>1. oldPerf' \in BOOLEAN
    BY <1>1 DEF Launch
  <2>2. nth' \in Nat
    BY <1>1, SuccNat, Zenon DEF Launch
  <2> QED BY ZenonT(30), <1>1, <2>1, <2>2 DEF Launch
<1>2. CASE InterruptRun
  <2>1. app' \in {"none", "forked", "running", "ended"}
    BY <1>2 DEF InterruptRun
  <2> QED BY ZenonT(30), <1>2, <2>1 DEF InterruptRun, Exit
<1> QED BY <1>1, <1>2

LEMMA BackgroundType ==
  ASSUME RunTypeOK, Background
  PROVE  RunTypeOK'
<1> USE DEF RunTypeOK
<1>1. UNCHANGED <<nth, scriptVars>>
  BY DEF Background, Perf, PerfForks, PerfRecords, PerfFailsAtStart,
         PerfFailsRecording, PerfEnds, OldPerfEnds, AppExecs, AppAllocates, AppEnds
<1>2. /\ nth' \in Nat /\ script' \in Steps /\ pid' \in BOOLEAN
      /\ stack' \in Owners /\ heap' \in Owners
      /\ config' \in [written : BOOLEAN, run : Nat, perf : {"none", "ended", "failed"},
                      stack : Owners, heap : Owners]
  BY ZenonT(30), <1>1 DEF scriptVars
<1>3. /\ perf' \in {"none", "starting", "recording", "ended", "failed"}
      /\ app' \in {"none", "forked", "running", "ended"}
      /\ hasHeap' \in BOOLEAN
      /\ oldPerf' \in BOOLEAN
  BY DEF Background, Perf, PerfForks, PerfRecords, PerfFailsAtStart,
         PerfFailsRecording, PerfEnds, OldPerfEnds, AppExecs, AppAllocates, AppEnds
<1>4. data' \in [run : Nat, state : {"none", "partial", "complete"}]
  BY DEF Background, Perf, PerfForks, PerfRecords, PerfFailsAtStart,
         PerfFailsRecording, PerfEnds, OldPerfEnds, AppExecs, AppAllocates, AppEnds
<1> QED BY <1>2, <1>3, <1>4

LEMMA LaunchStep ==
  ASSUME RunTypeOK, CollectInv, Launch
  PROVE  CollectInv'
<1> USE DEF CollectInv, Launch, RunTypeOK
<1>1. DataInv'
  BY DEF DataInv
<1>2. ConfigInv'
  BY DEF ConfigInv
<1>3. AddrInv'
  BY DEF AddrInv
<1> QED BY <1>1, <1>2, <1>3

LEMMA InterruptStep ==
  ASSUME RunTypeOK, CollectInv, InterruptRun
  PROVE  CollectInv'
<1> USE DEF CollectInv, InterruptRun, Exit, RunTypeOK
<1>1. DataInv'
  BY DEF DataInv
<1>2. ConfigInv'
  BY DEF ConfigInv, PerfGone
<1>3. AddrInv'
  BY DEF AddrInv
<1> QED BY <1>1, <1>2, <1>3

LEMMA ScriptStep ==
  ASSUME RunTypeOK, CollectInv, Script
  PROVE  CollectInv'
<1> USE DEF CollectInv, RunTypeOK
<1>1. DataInv'
  <2>1. UNCHANGED <<nth, procVars>>
    BY DEF Script, FindApp, ReadStack, ReadHeap, Wait, WriteConfig,
           FailToWriteConfig, Exit, procVars
  <2> QED BY <2>1 DEF DataInv, procVars
<1>2. ConfigInv'
  <2> USE DEF ConfigInv, PerfGone
  <2>1. CASE FindApp \/ ReadStack \/ ReadHeap
    BY <2>1 DEF FindApp, ReadStack, ReadHeap, procVars
  <2>2. CASE Wait
    BY <2>2 DEF Wait, procVars
  <2>3. CASE WriteConfig
    <3>1. /\ config'.run = nth /\ config'.perf = perf
          /\ script' = "idle" /\ nth' = nth /\ data' = data /\ perf' = perf
          /\ PerfGone
      BY <2>3 DEF WriteConfig, Exit
    <3> QED BY <3>1 DEF DataInv
  <2>4. CASE FailToWriteConfig
    BY <2>4 DEF FailToWriteConfig, Exit, NoConfig
  <2> QED BY <2>1, <2>2, <2>3, <2>4 DEF Script
<1>3. AddrInv'
  <2> USE DEF AddrInv
  <2>1. CASE FindApp \/ Wait
    BY <2>1 DEF FindApp, Wait, procVars
  <2>2. CASE ReadStack
    BY <2>2 DEF ReadStack, procVars, Image
  <2>3. CASE ReadHeap
    BY <2>3 DEF ReadHeap, procVars, Image
  <2>4. CASE WriteConfig \/ FailToWriteConfig
    <3>1. script' = "idle" /\ stack' = "" /\ heap' = ""
      BY <2>4 DEF WriteConfig, FailToWriteConfig, Exit
    <3>2. config'.stack = "app" => config'.heap # "perf"
      <4>1. CASE WriteConfig
        BY <4>1 DEF WriteConfig
      <4>2. CASE FailToWriteConfig
        BY <4>2 DEF FailToWriteConfig, NoConfig
      <4> QED BY <2>4, <4>1, <4>2
    <3> QED BY <3>1, <3>2
  <2> QED BY <2>1, <2>2, <2>3, <2>4 DEF Script
<1> QED BY <1>1, <1>2, <1>3

LEMMA BackgroundStep ==
  ASSUME RunTypeOK, CollectInv, Background
  PROVE  CollectInv'
<1> USE DEF CollectInv, RunTypeOK
<1>1. CASE PerfForks
  <2>1. DataInv'
    BY <1>1 DEF PerfForks, DataInv
  <2>2. ConfigInv'
    BY <1>1 DEF PerfForks, ConfigInv, PerfGone, scriptVars
  <2>3. AddrInv'
    BY <1>1 DEF PerfForks, AddrInv, scriptVars
  <2> QED BY <2>1, <2>2, <2>3
<1>2. CASE PerfRecords \/ PerfFailsAtStart \/ PerfFailsRecording
  <2> USE DEF PerfRecords, PerfFailsAtStart, PerfFailsRecording, scriptVars
  <2>1. DataInv'
    BY <1>2 DEF DataInv
  <2>2. ConfigInv'
    BY <1>2 DEF ConfigInv, PerfGone
  <2>3. AddrInv'
    BY <1>2 DEF AddrInv
  <2> QED BY <2>1, <2>2, <2>3
<1>3. CASE PerfEnds \/ OldPerfEnds
  <2> USE DEF PerfEnds, OldPerfEnds, scriptVars
  <2>1. /\ data'.run = data.run
        /\ data.state = "complete" => data'.state = "complete"
        /\ PerfEnds => data'.state = "complete"
    BY <1>3
  <2>2. DataInv'
    BY <1>3, <2>1 DEF DataInv
  <2>3. ConfigInv'
    BY <1>3, <2>1 DEF ConfigInv, PerfGone
  <2>4. AddrInv'
    BY <1>3 DEF AddrInv
  <2> QED BY <2>2, <2>3, <2>4
<1>4. CASE AppExecs \/ AppAllocates \/ AppEnds
  <2> USE DEF AppExecs, AppAllocates, AppEnds, scriptVars
  <2>1. DataInv'
    BY <1>4 DEF DataInv
  <2>2. ConfigInv'
    BY <1>4 DEF ConfigInv, PerfGone
  <2>3. AddrInv'
    BY <1>4 DEF AddrInv
  <2> QED BY <2>1, <2>2, <2>3
<1> QED BY <1>1, <1>2, <1>3, <1>4 DEF Background, Perf

LEMMA CollectKept ==
  ASSUME RunTypeOK, CollectInv, UNCHANGED runVars
  PROVE  RunTypeOK' /\ CollectInv'
<1> USE DEF runVars, procVars, scriptVars
<1>1. RunTypeOK'
  BY ZenonT(30) DEF RunTypeOK
<1>2. DataInv'
  BY DEF CollectInv, DataInv
<1>3. ConfigInv'
  BY DEF CollectInv, ConfigInv, PerfGone
<1>4. AddrInv'
  BY DEF CollectInv, AddrInv
<1> QED BY <1>1, <1>2, <1>3, <1>4 DEF CollectInv

-----------------------------------------------------------------------------
(* One step of the tool chain.                                             *)

LEMMA CollectInvStep ==
  ASSUME IInv, StartRun \/ Collect \/ StopRun
  PROVE  IInv'
<1> USE DEF IInv
<1>1. RunTypeOK' /\ CollectInv'
  BY ScriptType, RunType, LaunchStep, ScriptStep, InterruptStep
     DEF StartRun, Collect, StopRun, TypeOK, CollectInv
<1>2. /\ tool = "run" /\ UNCHANGED <<tool, runs, instVars, traceVars>>
      /\ step' \in {"run", "end"}
  BY DEF StartRun, Collect, StopRun
<1>3. failed' \in BOOLEAN
  <2>1. CASE StartRun \/ StopRun
    BY <2>1 DEF StartRun, StopRun
  <2>2. CASE Collect
    BY <2>2 DEF Collect
  <2> QED BY <2>1, <2>2
<1>4. TypeOK'
  BY <1>1, <1>2, <1>3 DEF TypeOK, instVars, traceVars
<1>5. InstInv' /\ XtraceInv' /\ RunStep'
  BY <1>2 DEF InstInv, XtraceInv, RunStep
<1> QED BY <1>1, <1>4, <1>5

\* What goes on beside the scripts.
LEMMA BesideStep ==
  ASSUME IInv, BesideScripts
  PROVE  IInv'
<1> USE DEF IInv, BesideScripts, toolVars, instVars, traceVars
<1>1. RunTypeOK' /\ CollectInv'
  BY BackgroundType, BackgroundStep DEF TypeOK
<1>2. TypeOK'
  BY <1>1 DEF TypeOK
<1>3. InstInv' /\ XtraceInv' /\ RunStep'
  BY DEF InstInv, XtraceInv, RunStep, Script0, Final0, CallPath0, File
<1> QED BY <1>1, <1>2, <1>3

\* The steps that start, end or change a script.
LEMMA ControlStep ==
  ASSUME IInv,
         \/ Start("inst", "instrument") \/ Start("xtrace", "script")
         \/ ToRun \/ ToExtract \/ Interrupt
  PROVE  IInv'
<1> USE DEF IInv
<1>1. RunTypeOK' /\ CollectInv'
  BY CollectKept DEF Start, ToRun, ToExtract, Interrupt, TypeOK
<1>2. runs' \in 0 .. MaxRuns
  BY MaxRunsType DEF Start, ToRun, ToExtract, Interrupt, TypeOK
<1>3. TypeOK'
  BY <1>1, <1>2 DEF Start, ToRun, ToExtract, Interrupt, TypeOK, instVars, traceVars
<1>4. InstInv'
  BY DEF Start, ToRun, ToExtract, Interrupt, InstInv
<1>5. XtraceInv'
  BY DEF Start, ToRun, ToExtract, Interrupt, XtraceInv
<1>6. RunStep'
  BY DEF Start, ToRun, ToExtract, Interrupt, RunStep
<1> QED BY <1>1, <1>3, <1>4, <1>5, <1>6

\* The programs of memgaze-inst.
LEMMA InstStep ==
  ASSUME IInv, Instrument \/ InstCat \/ MoveFixed
  PROVE  IInv'
<1> USE DEF IInv, Do
<1>1. tool = "inst" /\ tool' = tool /\ UNCHANGED <<runs, runVars, traceVars>>
  BY DEF Instrument, InstCat, MoveFixed
<1>2. RunTypeOK' /\ CollectInv'
  BY <1>1, CollectKept DEF TypeOK
<1>3. XtraceInv' /\ RunStep'
  BY <1>1 DEF XtraceInv, RunStep
<1>4. Cat \in Lcs
  BY DEF Cat, Lcs
<1>5. CASE Instrument
  <2>1. TypeOK'
    BY <1>1, <1>2, <1>5 DEF Instrument, TypeOK, Lcs, traceVars
  <2>2. InstInv'
    BY <1>5 DEF Instrument, InstInv
  <2> QED BY <1>2, <1>3, <2>1, <2>2
<1>6. CASE InstCat
  <2>1. TypeOK'
    BY <1>1, <1>2, <1>4, <1>6 DEF InstCat, TypeOK, instVars, traceVars
  <2>2. InstInv'
    BY <1>6 DEF InstCat, InstInv, Cat, instVars
  <2> QED BY <1>2, <1>3, <2>1, <2>2
<1>7. CASE MoveFixed
  <2>1. TypeOK'
    BY <1>1, <1>2, <1>7 DEF MoveFixed, TypeOK, Lcs, traceVars
  <2>2. InstInv'
    BY <1>7 DEF MoveFixed, InstInv
  <2> QED BY <1>2, <1>3, <2>1, <2>2
<1> QED BY <1>5, <1>6, <1>7

\* The programs of memgaze-xtrace.
LEMMA XtraceStep ==
  ASSUME IInv,
         PerfScript \/ Grep \/ MoveClean \/ Normalize \/ MoveFinal \/ MoveCallPath
  PROVE  IInv'
<1> USE DEF IInv
<1>1. /\ tool = "xtrace" /\ tool' = tool /\ UNCHANGED <<runs, runVars, instVars>>
      /\ failed' \in BOOLEAN
  BY DEF PerfScript, Grep, MoveClean, Normalize, MoveFinal, MoveCallPath, Do, TypeOK
<1>2. RunTypeOK' /\ CollectInv'
  BY <1>1, CollectKept DEF TypeOK
<1>3. InstInv' /\ RunStep'
  BY <1>1 DEF InstInv, RunStep
<1>4. /\ runs' = runs /\ lc' = lc /\ lc \in Lcs /\ "none" \in Lcs
      /\ {trace, clean, final, cg, callpath} \subseteq Files
  BY <1>1 DEF instVars, TypeOK, Lcs
<1>5. ASSUME {trace', clean', final', cg', callpath'} \subseteq Files,
             step' \in {"grep", "moveClean", "normalize", "moveFinal",
                        "moveCallPath", "end"}
      PROVE  TypeOK'
  BY <1>1, <1>2, <1>5 DEF TypeOK, instVars
<1>6. CASE PerfScript
  <2>1. \A w \in BOOLEAN : File("script", w, "none") \in Files
    BY <1>4, FilesType
  <2>2. TypeOK'
    BY <1>4, <1>5, <1>6, <2>1 DEF PerfScript, Do
  <2>3. XtraceInv'
    BY <1>6, <1>4 DEF PerfScript, Do, XtraceInv, Script0, File
  <2> QED BY <1>2, <1>3, <2>2, <2>3
<1>7. CASE Grep
  <2>1. TypeOK'
    BY <1>4, <1>5, <1>7 DEF Grep, Do
  <2>2. XtraceInv'
    BY <1>7, <1>4 DEF Grep, Do, XtraceInv, Script0, File
  <2> QED BY <1>2, <1>3, <2>1, <2>2
<1>8. CASE MoveClean
  <2>1. NoFile \in Files
    BY NoFileType
  <2>2. TypeOK'
    BY <1>4, <1>5, <1>8, <2>1 DEF MoveClean, Do
  <2>3. XtraceInv'
    BY <1>8, <1>4 DEF MoveClean, Do, XtraceInv, Script0, File
  <2> QED BY <1>2, <1>3, <2>2, <2>3
<1>9. CASE Normalize
  <2>1. trace.whole \in BOOLEAN
    BY <1>4 DEF Files
  <2>2. \A w \in BOOLEAN : /\ File("final", w, lc) \in Files
                           /\ File("callpath", w, "none") \in Files
    BY <1>4, FilesType
  <2>3. TypeOK'
    BY <1>4, <1>5, <1>9, <2>1, <2>2 DEF Normalize, Do, Written, traceVars
  <2>4. ASSUME failed' PROVE XtraceInv'
    BY <2>4, <1>9, <1>1 DEF Normalize, Do, XtraceInv
  <2>5. ASSUME ~failed' PROVE XtraceInv'
    <3>1. /\ step = "normalize" /\ step' = "moveFinal" /\ ~failed
          /\ final' = File("final", trace.whole, lc)
          /\ cg' = File("callpath", trace.whole, "none")
          /\ clean' = clean
      BY <2>5, <1>9 DEF Normalize, Do, Written
    <3>2. trace.whole = TRUE /\ clean = NoFile
      BY <3>1, <1>1 DEF XtraceInv, Script0, File
    <3>3. final' = Final0' /\ cg' = CallPath0' /\ clean' = NoFile
      BY <3>1, <3>2, <1>4 DEF Final0, CallPath0, File
    <3> QED BY <3>1, <3>3 DEF XtraceInv
  <2>6. XtraceInv'
    BY <2>4, <2>5
  <2> QED BY <1>2, <1>3, <2>3, <2>6
<1>10. CASE MoveFinal
  <2>1. NoFile \in Files
    BY NoFileType
  <2>2. TypeOK'
    BY <1>4, <1>5, <1>10, <2>1 DEF MoveFinal, Do
  <2>3. XtraceInv'
    BY <1>10, <1>4 DEF MoveFinal, Do, XtraceInv, Final0, CallPath0, File
  <2> QED BY <1>2, <1>3, <2>2, <2>3
<1>11. CASE MoveCallPath
  <2>1. NoFile \in Files
    BY NoFileType
  <2>2. TypeOK'
    BY <1>4, <1>5, <1>11, <2>1 DEF MoveCallPath, Do
  <2>3. XtraceInv'
    BY <1>11, <1>4 DEF MoveCallPath, Do, XtraceInv, Final0, CallPath0, File
  <2> QED BY <1>2, <1>3, <2>2, <2>3
<1> QED BY <1>6, <1>7, <1>8, <1>9, <1>10, <1>11

LEMMA StutterStep ==
  ASSUME IInv, UNCHANGED vars
  PROVE  IInv'
<1> USE DEF IInv, vars, toolVars, instVars, traceVars
<1>1. RunTypeOK' /\ CollectInv'
  BY CollectKept DEF TypeOK
<1>2. TypeOK'
  BY <1>1 DEF TypeOK
<1>3. InstInv' /\ XtraceInv' /\ RunStep'
  BY DEF InstInv, XtraceInv, RunStep, Script0, Final0, CallPath0, File
<1> QED BY <1>1, <1>2, <1>3

LEMMA NextInv == IInv /\ [Next]_vars => IInv'
<1> SUFFICES ASSUME IInv, [Next]_vars PROVE IInv'
  OBVIOUS
<1> QED BY CollectInvStep, BesideStep, ControlStep, InstStep, XtraceStep, StutterStep DEF Next

LEMMA Invariance == Spec => []IInv
<1> QED BY InitInv, NextInv, PTL DEF Spec

-----------------------------------------------------------------------------
(* Theorems.                                                               *)

\* The state of the scripts, of perf and of the files is well formed, for any
\* number of runs.
THEOREM TypeCorrect == Spec => []TypeOK
<1>1. IInv => TypeOK
  BY DEF IInv
<1> QED BY <1>1, Invariance, PTL

\* However often memgaze-run was started and interrupted in a directory:
\* memgaze.config is from a run whose perf is gone, and if that perf did not fail,
\* the data beside it are complete or those of a later run (memgaze-run:162,
\* 283-308).
THEOREM ConfigAfterDataCorrect == Spec => []ConfigAfterData
<1>1. IInv => ConfigAfterData
  BY DEF IInv, CollectInv, ConfigInv, AddrInv, ConfigAfterData
<1> QED BY <1>1, Invariance, PTL

\* However often the scripts were started and interrupted before, a run of
\* which no step failed leaves the files it promises (memgaze-inst:196-214,
\* memgaze-xtrace:134-146).
THEOREM RepeatableCorrect == Spec => []Repeatable
<1>1. IInv => Repeatable
  BY DEF IInv, InstInv, XtraceInv, Repeatable, Final0, CallPath0
<1> QED BY <1>1, Invariance, PTL
=============================================================================
