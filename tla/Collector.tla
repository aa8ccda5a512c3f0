------------------------------ MODULE Collector ------------------------------
(***************************************************************************)
(* memgaze-run: a shell script that starts perf in the background, looks   *)
(* for the application among perf's children a second later, reads two     *)
(* addresses from its memory map, waits for perf and writes                *)
(* memgaze.config, which the other tools start from.                       *)
(*                                                                         *)
(* The script, perf and the application run side by side.  Nothing but the *)
(* wait orders them: the sleeps of the script are no more than a time, so  *)
(* any step of the others may come before or after them.                   *)
(*                                                                         *)
(* The script can be interrupted and run again into the same directory,    *)
(* which it does not look at: memgaze.config of an earlier run stays until *)
(* it is overwritten, and perf of an interrupted run may still record.     *)
(* perf record renames a file of its output's name before it opens its     *)
(* own.                                                                    *)
(***************************************************************************)
EXTENDS Naturals

VARIABLES
  nth,      \* history: how often memgaze-run has been started
  script,   \* "idle", then the step memgaze-run is at
  perf,     \* "none", "starting", "recording", "ended" or "failed"
  app,      \* "none", "forked" (still perf's image), "running", "ended"
  hasHeap,  \* the application has a heap in its map
  pid,      \* correct_app_pid is the child of perf: FALSE when empty
  stack,    \* stack_addr: whose stack it is, "" for none
  heap,     \* heap_addr
  oldPerf,  \* perf of an earlier run still records into the perf data file
  data,     \* the perf data file: whose run, and "none", "partial" or "complete"
  config    \* memgaze.config; history: the run that wrote it, and how perf was

procVars   == <<perf, app, hasHeap, oldPerf, data>>
scriptVars == <<script, pid, stack, heap, config>>
runVars    == <<nth, procVars, scriptVars>>

Steps  == {"idle", "launched", "found", "stackRead", "heapRead", "waited"}
Owners == {"", "perf", "app"}

NoConfig == [written |-> FALSE, run |-> 0, perf |-> "none", stack |-> "", heap |-> ""]
NoData   == [run |-> 0, state |-> "none"]

RunInit ==
  /\ nth = 0
  /\ script = "idle"
  /\ perf = "none"
  /\ app = "none"
  /\ hasHeap = FALSE
  /\ pid = FALSE
  /\ stack = ""
  /\ heap = ""
  /\ oldPerf = FALSE
  /\ data = NoData
  /\ config = NoConfig

-----------------------------------------------------------------------------
(* The script.                                                             *)

\* mkdir -p and perf record ... &, whatever is in the directory.  perf of an
\* earlier run is nobody's child now.
Launch ==
  /\ script = "idle"
  /\ nth' = nth + 1
  /\ script' = "launched"
  /\ perf' = "starting"
  /\ app' = "none"
  /\ hasHeap' = FALSE
  /\ oldPerf' = (oldPerf \/ perf = "recording")
  /\ UNCHANGED <<data, pid, stack, heap, config>>

\* perf has a child that it has not waited for.
HasChild == app # "none" /\ perf \in {"starting", "recording"}

\* Slip: the look is repeated until there is a child.
LookAgain == ~HasChild

\* Whatever ps answers, the script goes on.
LookAgainNever == FALSE

\* After sleep 1: ps --ppid, once.
FindApp ==
  /\ script = "launched"
  /\ ~LookAgainNever
  /\ script' = "found"
  /\ pid' = HasChild
  /\ UNCHANGED <<nth, procVars, stack, heap, config>>

\* Whose image /proc/<pid>/maps shows: perf's before the child has called
\* exec, none when the process is gone or the pid is empty.
Image == IF ~pid THEN ""
         ELSE IF app = "forked" THEN "perf"
         ELSE IF app = "running" THEN "app" ELSE ""

ReadStack ==
  /\ script = "found"
  /\ script' = "stackRead"
  /\ stack' = Image
  /\ UNCHANGED <<nth, procVars, pid, heap, config>>

\* A second grep, on whatever the map is by then.
ReadHeap ==
  /\ script = "stackRead"
  /\ script' = "heapRead"
  /\ heap' = IF Image = "app" /\ ~hasHeap THEN "" ELSE Image
  /\ UNCHANGED <<nth, procVars, pid, stack, config>>

\* Slip: the script waits for the application it has found.
AppGone == app \in {"none", "ended"}

\* wait $app_pid: the process of perf, which has written its data by then.
PerfGone == perf \in {"ended", "failed"}

Wait ==
  /\ script = "heapRead"
  /\ PerfGone
  /\ script' = "waited"
  /\ UNCHANGED <<nth, procVars, pid, stack, heap, config>>

\* The variables of the shell end with it.
Exit ==
  /\ script' = "idle"
  /\ pid' = FALSE /\ stack' = "" /\ heap' = ""
  /\ UNCHANGED <<nth, oldPerf, data>>

\* cat <<EOF > memgaze.config, over what is there.
WriteConfig ==
  /\ script = "waited"
  /\ config' = [written |-> TRUE, run |-> nth, perf |-> perf,
                stack |-> stack, heap |-> heap]
  /\ Exit
  /\ UNCHANGED <<perf, app, hasHeap>>

\* The file is emptied, then the text cannot be written.
FailToWriteConfig ==
  /\ script = "waited"
  /\ config' = NoConfig
  /\ Exit
  /\ UNCHANGED <<perf, app, hasHeap>>

\* The script is stopped.  perf may get the signal too and end the application,
\* or both go on.
InterruptRun ==
  /\ script # "idle"
  /\ Exit
  /\ app' \in {app, IF app = "none" THEN "none" ELSE "ended"}
  /\ UNCHANGED <<perf, hasHeap, config>>

Script == FindApp \/ ReadStack \/ ReadHeap \/ Wait \/ WriteConfig \/ FailToWriteConfig

-----------------------------------------------------------------------------
(* perf and the application.                                               *)

\* perf opens its output and forks the child that will become the application.
PerfForks ==
  /\ perf = "starting"
  /\ app = "none"
  /\ app' = "forked"
  /\ oldPerf' = FALSE
  /\ data' = [run |-> nth, state |-> "partial"]
  /\ UNCHANGED <<nth, perf, hasHeap, scriptVars>>

\* The events are open: the child may call exec.
PerfRecords ==
  /\ perf = "starting"
  /\ app = "forked"
  /\ perf' = "recording"
  /\ UNCHANGED <<nth, app, hasHeap, oldPerf, data, scriptVars>>

\* No such event, no permission, no such program; the child goes too.
PerfFailsAtStart ==
  /\ perf = "starting"
  /\ perf' = "failed"
  /\ app' = IF app = "none" THEN "none" ELSE "ended"
  /\ UNCHANGED <<nth, hasHeap, oldPerf, data, scriptVars>>

\* No space on the disk, or killed: the data stay as they are, with the
\* application or without it.
PerfFailsRecording ==
  /\ perf = "recording"
  /\ perf' = "failed"
  /\ app' \in {app, "ended"}
  /\ UNCHANGED <<nth, hasHeap, oldPerf, data, scriptVars>>

\* perf of an earlier run ends, completing its data or not.
OldPerfEnds ==
  /\ oldPerf
  /\ oldPerf' = FALSE
  /\ data' \in {data, [data EXCEPT !.state = "complete"]}
  /\ UNCHANGED <<nth, perf, app, hasHeap, scriptVars>>

\* The application can be there without perf.
AppExecs ==
  /\ perf # "starting"
  /\ app = "forked"
  /\ app' = "running"
  /\ UNCHANGED <<nth, perf, hasHeap, oldPerf, data, scriptVars>>

AppAllocates ==
  /\ app = "running"
  /\ ~hasHeap
  /\ hasHeap' = TRUE
  /\ UNCHANGED <<nth, perf, app, oldPerf, data, scriptVars>>

AppEnds ==
  /\ app = "running"
  /\ app' = "ended"
  /\ UNCHANGED <<nth, perf, hasHeap, oldPerf, data, scriptVars>>

\* perf notices the end of its child and writes what it has buffered.
PerfEnds ==
  /\ perf = "recording"
  /\ app = "ended"
  /\ perf' = "ended"
  /\ data' = [data EXCEPT !.state = "complete"]
  /\ UNCHANGED <<nth, app, hasHeap, oldPerf, scriptVars>>

\* What perf does by itself.
Perf == PerfForks \/ PerfRecords \/ PerfFailsAtStart \/ PerfEnds

Background == Perf \/ PerfFailsRecording \/ OldPerfEnds \/ AppExecs \/ AppAllocates \/ AppEnds
-----------------------------------------------------------------------------
(* Properties.                                                             *)

RunTypeOK ==
  /\ nth \in Nat
  /\ script \in Steps
  /\ perf \in {"none", "starting", "recording", "ended", "failed"}
  /\ app \in {"none", "forked", "running", "ended"}
  /\ hasHeap \in BOOLEAN
  /\ pid \in BOOLEAN
  /\ stack \in Owners
  /\ heap \in Owners
  /\ oldPerf \in BOOLEAN
  /\ data \in [run : Nat, state : {"none", "partial", "complete"}]
  /\ config \in [written : BOOLEAN, run : Nat, perf : {"none", "ended", "failed"},
                 stack : Owners, heap : Owners]

\* What memgaze.config says of the data beside it.  It is written when perf of
\* its run is gone.  If that perf did not fail, the data are complete and of its
\* run, or of a later run that has written no config: the addresses are then not
\* those of the data, and these may be partial.  The config does not tell which
\* it is, nor whether perf has failed.  And as the stack is read first and an
\* image is only replaced once, a config with the application's stack has no
\* address of perf (memgaze-run:162, 283-308).
ConfigAfterData ==
  config.written =>
    /\ config.run = nth => PerfGone
    /\ config.perf = "ended" =>
         \/ config.run = data.run /\ data.state = "complete"
         \/ config.run < data.run
    /\ config.stack = "app" => config.heap # "perf"
=============================================================================
