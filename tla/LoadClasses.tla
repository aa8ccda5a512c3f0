----------------------------- MODULE LoadClasses -----------------------------
(***************************************************************************)
(* The instrumenter's treatment of one routine:                            *)
(* DGBuilder::printLoadClassifications of bin-anlys, with addPTWSnippet,   *)
(* then memgaze-inst-cat, which rewrites the classification file.          *)
(*                                                                         *)
(* Frame and constant loads are not instrumented by default.  Pass 1       *)
(* counts them for each basic block; pass 2 instruments the other accesses *)
(* and writes a line for each, the first of a block with the block's       *)
(* count; pass 3 looks for a frame load to instrument in the blocks whose  *)
(* count no line took.  One action visits one node of the routine's        *)
(* dependence graph.  Only the memory accesses are nodes here: no pass     *)
(* does anything with the others.                                          *)
(***************************************************************************)
EXTENDS Integers, Sequences, SequencesExt, FiniteSetsExt

CONSTANTS
  Blocks,    \* the basic blocks of a routine, in the order of their addresses
  Routines,  \* the routines looked at, sequences of accesses
  Options    \* the options of memgaze-inst looked at

\* An access.  Formulas give it a stack reference, a stride, or neither, or
\* are missing; stackEdges are its incoming dependences from stack references;
\* regs are its source registers ptwrite knows (RIP is none of them).
Node == [addr : Nat, block : Blocks, type : {"load", "store"},
         ref : {"frame", "strided", "irregular", "unknown"},
         stackEdges : Nat, regs : Nat, point : BOOLEAN]

\* funcExists: Dyninst finds the function by its name.
Option == [loads : BOOLEAN, stores : BOOLEAN, strided : BOOLEAN,
           indirect : BOOLEAN, frame : BOOLEAN, funcExists : BOOLEAN]

ASSUME LoadClassesAssumption ==
  /\ Blocks \subseteq Nat
  /\ Routines \subseteq Seq(Node)
  /\ Options \subseteq Option

VARIABLES
  routine,         \* the nodes in the order of the graph's node list
  mo,              \* the options
  pass,            \* 1, 2, 3, then 4 (the file is rewritten) and 5 (done)
  pos,             \* bnit, fnit: the node visited next in passes 1 and 2
  count,           \* blockInstrumentedMap
  disp,            \* the node whose disp and scale pass 2 holds, 0 for none
  lines,           \* the classification file
  snippets,        \* for each address, the ptwrites inserted there
  leftover,        \* instBl: the blocks pass 3 has still to look at
  scanning,        \* inside of the scan of pass 3
  lnit,            \* the node pass 3 visits next
  isInstrumented,  \* is_instrumented
  fixed,           \* the rewritten file: the lines by address
  counted,         \* history: what pass 1 counted in each block
  charged          \* history: what the lines of each block stand for

passVars == <<pass, pos>>
scanVars == <<leftover, scanning, lnit, isInstrumented>>
fileVars == <<lines, snippets, charged>>
classVars == <<routine, mo, passVars, count, disp, fileVars, scanVars, fixed,
               counted>>

\* of and block are history: the node whose offset and scale the line has, 0
\* for the zeros pass 3 writes, and the block of the access.
Line == [addr : Nat, class : {0, 1, 2, 90}, of : Nat, skips : Int,
         block : Blocks]

Snippet == [node : Nat, reg : Nat]

Addrs(nodes) == {nodes[i].addr : i \in DOMAIN nodes}

ClassInit ==
  /\ routine \in Routines
  /\ mo \in Options
  /\ pass = 1
  /\ pos = 1
  /\ count = [b \in Blocks |-> 0]
  /\ disp = 0
  /\ lines = << >>
  /\ snippets = [a \in Addrs(routine) |-> << >>]
  /\ leftover = Blocks
  /\ scanning = FALSE
  /\ lnit = 1
  /\ isInstrumented = FALSE
  /\ fixed = << >>
  /\ counted = [b \in Blocks |-> 0]
  /\ charged = [b \in Blocks |-> 0]

-----------------------------------------------------------------------------
(* Pass 1: the loads that will not be instrumented.                        *)

\* A frame load counts once, a constant load (strided, from an address on the
\* stack) once for each of its dependences on a stack reference.
FrameLoads(n) ==
  IF n.ref = "frame" THEN 1 ELSE IF n.ref = "strided" THEN n.stackEdges ELSE 0

CountNode ==
  /\ pass = 1
  /\ pos \in DOMAIN routine
  /\ LET n == routine[pos]
         k == IF n.type = "load" /\ mo.loads /\ ~mo.frame
                THEN FrameLoads(n) ELSE 0
     IN  /\ count' = [count EXCEPT ![n.block] = @ + k]
         /\ counted' = [counted EXCEPT ![n.block] = @ + k]
  /\ pos' = pos + 1
  /\ UNCHANGED <<routine, mo, pass, disp, fileVars, scanVars, fixed>>

-----------------------------------------------------------------------------
(* Pass 2: the accesses that are instrumented.                             *)

\* addPTWSnippet: a ptwrite for each source register of a load; the first
\* source register of a store is the value it stores.
PTWRegs(n) == IF n.type = "load" THEN n.regs ELSE IF n.regs = 0 THEN 0 ELSE n.regs - 1

\* The ptwrites of node i, `times' times.
PTWs(i, times) ==
  LET k == PTWRegs(routine[i])
  IN  [j \in 1 .. times * k |-> [node |-> i, reg |-> ((j - 1) % k) + 1]]

\* They are put in front of its instruction.
Insert(i, times) ==
  snippets' =
    IF mo.funcExists /\ routine[i].point
      THEN [snippets EXCEPT ![routine[i].addr] = @ \o PTWs(i, times)]
      ELSE snippets

Selected(n) == IF n.type = "load" THEN mo.loads ELSE mo.stores

IsFrame(n) == FrameLoads(n) > 0

\* Slip: the count stays for the block's next line.
KeepCount(b) == count

\* The line of an access takes the count of its block.
TakeCount(b) == [count EXCEPT ![b] = 0]

\* disp and scale are variables of the function: a node without formulas
\* finds those of the node before it.
DispAfter(i) == IF routine[i].ref = "unknown" THEN disp ELSE i

\* A frame access or a constant one: with -f, a line and ptwrites for a frame
\* access, and for each of the stack references a constant one depends on.
VisitFrame ==
  /\ pass = 2
  /\ pos \in DOMAIN routine
  /\ LET n == routine[pos]
         k == IF Selected(n) /\ mo.frame THEN FrameLoads(n) ELSE 0
         line == [addr |-> n.addr, class |-> IF n.type = "load" THEN 0 ELSE 90,
                  of |-> DispAfter(pos), skips |-> 0, block |-> n.block]
     IN  /\ IsFrame(n)
         /\ lines' = lines \o [c \in 1 .. k |-> line]
         /\ Insert(pos, k)
  /\ disp' = DispAfter(pos)
  /\ pos' = pos + 1
  /\ UNCHANGED <<routine, mo, pass, count, scanVars, fixed, counted, charged>>

\* Any other access, strided or indirect.  Stores have the classes of loads.
VisitAccess ==
  /\ pass = 2
  /\ pos \in DOMAIN routine
  /\ LET n == routine[pos]
         b == n.block
         class == IF n.ref = "strided" THEN 1 ELSE 2
         line == [addr |-> n.addr, class |-> class, of |-> DispAfter(pos),
                  skips |-> count[b], block |-> b]
     IN  /\ ~IsFrame(n)
         /\ \/ /\ Selected(n)
               /\ IF class = 1 THEN mo.strided ELSE mo.indirect
               /\ lines' = Append(lines, line)
               /\ charged' = [charged EXCEPT ![b] = @ + count[b]]
               /\ count' = TakeCount(b)
               /\ Insert(pos, 1)
            \/ /\ ~Selected(n) \/ ~IF class = 1 THEN mo.strided ELSE mo.indirect
               /\ UNCHANGED <<lines, charged, count, snippets>>
  /\ disp' = DispAfter(pos)
  /\ pos' = pos + 1
  /\ UNCHANGED <<routine, mo, pass, scanVars, fixed, counted>>

\* The end of the node list starts the next pass.
NextPass ==
  /\ pass \in {1, 2}
  /\ pos \notin DOMAIN routine
  /\ pass' = pass + 1
  /\ pos' = 1
  /\ UNCHANGED <<routine, mo, count, disp, fileVars, scanVars, fixed, counted>>

-----------------------------------------------------------------------------
(* Pass 3: blocks whose frame loads no line took.                          *)

\* The next block in the order of addresses.
NextLeftover ==
  /\ pass = 3
  /\ ~scanning
  /\ leftover # {}
  /\ LET b == Min(leftover)
     IN  /\ leftover' = leftover \ {b}
         /\ scanning' = (count[b] > 0)
  /\ isInstrumented' = FALSE
  /\ UNCHANGED <<routine, mo, passVars, count, disp, fileVars, lnit, fixed,
                 counted>>

\* The first frame or constant load of a block with a count, which need not be
\* the block the scan is for.
ScanPicks(n) ==
  /\ n.type = "load" /\ mo.loads
  /\ count[n.block] > 0
  /\ ~isInstrumented
  /\ IsFrame(n)

\* The load stands for itself and skips the others.  A constant load gets a
\* line for each stack reference, the ones after the first with -1 skips.
ScanNode ==
  /\ scanning
  /\ lnit \in DOMAIN routine
  /\ LET n == routine[lnit]
         b == n.block
         Copy(c) == [addr |-> n.addr, class |-> 0, of |-> 0, block |-> b,
                     skips |-> IF c = 1 THEN count[b] - 1 ELSE 0 - 1]
     IN  \/ /\ ScanPicks(n)
            /\ lines' = lines \o [c \in 1 .. FrameLoads(n) |-> Copy(c)]
            /\ charged' = [charged EXCEPT ![b] = @ + count[b]]
            /\ count' = TakeCount(b)
            /\ Insert(lnit, FrameLoads(n))
            /\ isInstrumented' = TRUE
         \/ /\ ~ScanPicks(n)
            /\ UNCHANGED <<lines, charged, count, snippets, isInstrumented>>
  /\ lnit' = lnit + 1
  /\ UNCHANGED <<routine, mo, passVars, disp, leftover, scanning, fixed, counted>>

\* Slip, or what the code may have meant: each block's scan starts anew.
LnitRestarted == 1

\* lnit is set before the loop over the blocks: the next scan finds it at the
\* end of the list.
LnitAfterScan == lnit

EndScan ==
  /\ scanning
  /\ lnit \notin DOMAIN routine
  /\ scanning' = FALSE
  /\ lnit' = LnitAfterScan
  /\ UNCHANGED <<routine, mo, passVars, count, disp, fileVars, leftover,
                 isInstrumented, fixed, counted>>

EndPass3 ==
  /\ pass = 3
  /\ ~scanning
  /\ leftover = {}
  /\ pass' = 4
  /\ UNCHANGED <<routine, mo, pos, count, disp, fileVars, scanVars, fixed,
                 counted>>

-----------------------------------------------------------------------------
(* memgaze-inst-cat.                                                       *)

LineIndices(a) == {i \in DOMAIN lines : lines[i].addr = a}

\* loadClassMap: the last line of an address wins.
Kept(a) == Max(LineIndices(a))

\* The file is keyed by relocated address from here on: the first place the
\* instruction was moved to, where its ptwrites start.
Fix ==
  /\ pass = 4
  /\ fixed' = [a \in Addrs(lines) |-> lines[Kept(a)]]
  /\ pass' = 5
  /\ UNCHANGED <<routine, mo, pos, count, disp, fileVars, scanVars, counted>>

ClassNext ==
  \/ CountNode
  \/ VisitFrame
  \/ VisitAccess
  \/ NextPass
  \/ NextLeftover
  \/ ScanNode
  \/ EndScan
  \/ EndPass3
  \/ Fix

ClassSpec == ClassInit /\ [][ClassNext]_classVars
=============================================================================
