--------------------------- MODULE LoadClassesProofs ---------------------------
(***************************************************************************)
(* Proofs about LoadClasses and TraceExtraction, for any routine, options, *)
(* relocation, executions and samples.                                     *)
(*                                                                         *)
(* Of the instrumenter: what pass 1 counts is charged once, to lines of    *)
(* its block, and pass 3 serves one block only. Of the whole pipeline:     *)
(* ptwrites are for the nodes of their instruction and its last line has   *)
(* an offset of one of them (PtwsInv), words next to each other in the     *)
(* trace are so in the program (StreamInv), and a record has the words of  *)
(* one access (RecordInv).                                                 *)
(***************************************************************************)
EXTENDS TraceExtraction, SetsOfNumbers, FiniteSetTheorems, SequenceTheorems, TLAPS

ClassType ==
  /\ routine \in Seq(Node)
  /\ mo \in Option
  /\ pass \in 1 .. 5
  /\ pos \in Nat
  /\ count \in [Blocks -> Nat]
  /\ counted \in [Blocks -> Nat]
  /\ charged \in [Blocks -> Nat]
  /\ disp \in Nat
  /\ lines \in Seq(Line)
  /\ leftover \subseteq Blocks
  /\ scanning \in BOOLEAN
  /\ lnit \in Nat \ {0}
  /\ isInstrumented \in BOOLEAN

\* A frame or constant load of block b, that a scan for it can pick.
Candidate(i, b) ==
  /\ routine[i].type = "load"
  /\ routine[i].block = b
  /\ IsFrame(routine[i])

\* A count stands for loads that are still to be found.
CountsHaveLoads ==
  \A b \in Blocks :
    count[b] > 0 =>
      /\ mo.loads /\ ~mo.frame
      /\ \E i \in DOMAIN routine : Candidate(i, b)

FrameLines == {l \in Range(lines) : l.class = 0}

\* After the first scan there is nothing left to scan.
ServedOnce ==
  ~mo.frame =>
    /\ FrameLines # {} =>
         pass >= 3 /\ (lnit \in DOMAIN routine => scanning /\ isInstrumented)
    /\ \A l, m \in FrameLines : l.block = m.block

\* The first scan has found nothing before lnit, for any block with a count.
FirstScan ==
  /\ scanning => pass = 3
  /\ pass < 3 => lnit = 1 /\ leftover = Blocks
  /\ pass > 3 => leftover = {}
  /\ ~mo.frame /\ FrameLines = {} =>
       /\ ~scanning => lnit = 1 /\ \A b \in Blocks \ leftover : count[b] = 0
       /\ scanning =>
            /\ ~isInstrumented
            /\ \E b \in Blocks : count[b] > 0
            /\ \A i \in DOMAIN routine, b \in Blocks :
                 i < lnit /\ count[b] > 0 => ~Candidate(i, b)

IInv == ClassType /\ CountsCharged /\ CountsHaveLoads /\ ServedOnce /\ FirstScan

-----------------------------------------------------------------------------
(* Nodes and lines.                                                        *)

LEMMA NodeType ==
  ASSUME ClassType, NEW i \in DOMAIN routine
  PROVE  /\ i \in Nat /\ i > 0
         /\ routine[i] \in Node
         /\ routine[i].block \in Blocks
         /\ routine[i].addr \in Nat
         /\ FrameLoads(routine[i]) \in Nat
<1>1. routine \in Seq(Node) /\ DOMAIN routine = 1 .. Len(routine) /\ Len(routine) \in Nat
  BY DEF ClassType
<1>2. routine[i] \in Node
  BY <1>1
<1> QED BY <1>1, <1>2 DEF Node, FrameLoads

LEMMA MoreLines ==
  ASSUME ClassType, NEW more \in Seq(Line), lines' = lines \o more
  PROVE  /\ lines' \in Seq(Line)
         /\ Range(lines') = Range(lines) \cup Range(more)
<1>1. lines \in Seq(Line)
  BY DEF ClassType
<1> QED BY <1>1, ConcatProperties, RangeConcatenation

-----------------------------------------------------------------------------
(* One lemma for each action.                                              *)

LEMMA InitInv ==
  ASSUME ClassInit
  PROVE  IInv
<1>1. ClassType
  <2>1. routine \in Seq(Node) /\ mo \in Option
    BY LoadClassesAssumption DEF ClassInit
  <2>2. /\ count \in [Blocks -> Nat] /\ counted \in [Blocks -> Nat]
        /\ charged \in [Blocks -> Nat] /\ lines \in Seq(Line)
    BY DEF ClassInit
  <2>3. /\ pass \in 1 .. 5 /\ pos \in Nat /\ disp \in Nat /\ lnit \in Nat \ {0}
        /\ leftover \subseteq Blocks
    BY DEF ClassInit
  <2>4. scanning = FALSE /\ isInstrumented = FALSE
    BY DEF ClassInit
  <2> QED BY <2>1, <2>2, <2>3, <2>4 DEF ClassType
<1>2. FrameLines = {}
  <2>1. Range(lines) = {}
    BY DEF ClassInit, Range
  <2> QED BY <2>1 DEF FrameLines
<1>3. CountsCharged /\ CountsHaveLoads
  BY DEF ClassInit, CountsCharged, CountsHaveLoads
<1>4. ServedOnce
  BY <1>2 DEF ServedOnce
<1>5. FirstScan
  BY <1>2 DEF FirstScan, ClassInit
<1> QED BY <1>1, <1>3, <1>4, <1>5 DEF IInv

LEMMA CountStep ==
  ASSUME IInv, CountNode
  PROVE  IInv'
<1> USE DEF IInv
<1> DEFINE n == routine[pos]
           k == IF n.type = "load" /\ mo.loads /\ ~mo.frame THEN FrameLoads(n) ELSE 0
<1>1. /\ pass = 1 /\ pos \in DOMAIN routine /\ pos' = pos + 1
      /\ routine' = routine /\ mo' = mo /\ pass' = pass /\ disp' = disp
      /\ lines' = lines /\ charged' = charged /\ leftover' = leftover
      /\ scanning' = scanning /\ lnit' = lnit /\ isInstrumented' = isInstrumented
  BY DEF CountNode, fileVars, scanVars
<1>2. /\ count' = [count EXCEPT ![n.block] = @ + k]
      /\ counted' = [counted EXCEPT ![n.block] = @ + k]
  BY DEF CountNode
<1>3. n \in Node /\ n.block \in Blocks /\ FrameLoads(n) \in Nat /\ k \in Nat
  BY <1>1, NodeType
<1>4. k > 0 => mo.loads /\ ~mo.frame /\ Candidate(pos, n.block)
  BY DEF Candidate, IsFrame
<1>5. ClassType'
  <2>1. count' \in [Blocks -> Nat] /\ counted' \in [Blocks -> Nat]
    <3> HIDE DEF k, n
    <3> QED BY SMTT(30), <1>2, <1>3 DEF ClassType
  <2> QED BY <1>1, <2>1 DEF ClassType
<1>6. \A b \in Blocks : /\ b # n.block => count'[b] = count[b] /\ counted'[b] = counted[b]
                        /\ b = n.block => /\ count'[b] = count[b] + k
                                          /\ counted'[b] = counted[b] + k
  <2> HIDE DEF k, n
  <2> QED BY <1>2, <1>3 DEF ClassType
<1>7. CountsCharged'
  <2> SUFFICES ASSUME NEW b \in Blocks
               PROVE  counted'[b] = charged'[b] + count'[b]
    BY DEF CountsCharged
  <2>1. counted[b] = charged[b] + count[b] /\ charged' = charged
    BY <1>1 DEF CountsCharged
  <2>2. counted[b] \in Nat /\ charged[b] \in Nat /\ count[b] \in Nat
    BY DEF ClassType
  <2> HIDE DEF k, n
  <2> QED BY <2>1, <2>2, <1>3, <1>6
<1>8. CountsHaveLoads'
  <2> SUFFICES ASSUME NEW b \in Blocks, count'[b] > 0
               PROVE  mo.loads /\ ~mo.frame /\ \E i \in DOMAIN routine : Candidate(i, b)
    BY <1>1 DEF CountsHaveLoads, Candidate
  <2>1. CASE count[b] > 0
    BY <2>1 DEF CountsHaveLoads
  <2>2. CASE ~(count[b] > 0)
    <3>1. b = n.block /\ k > 0
      <4> HIDE DEF k, n
      <4> QED BY <2>2, <1>6, <1>3 DEF ClassType
    <3> QED BY <3>1, <1>1, <1>4
  <2> QED BY <2>1, <2>2
<1>9. ServedOnce'
  <2>1. FrameLines' = FrameLines
    BY <1>1 DEF FrameLines
  <2>2. FrameLines = {} \/ mo.frame
    BY <1>1 DEF ServedOnce
  <2> QED BY <2>1, <2>2, <1>1 DEF ServedOnce
<1>10. FirstScan'
  <2>1. FrameLines' = FrameLines
    BY <1>1 DEF FrameLines
  <2>2. lnit = 1 /\ leftover = Blocks /\ ~scanning
    BY <1>1 DEF FirstScan
  <2> QED BY <2>1, <2>2, <1>1 DEF FirstScan
<1> QED BY <1>5, <1>7, <1>8, <1>9, <1>10

LEMMA FrameStep ==
  ASSUME IInv, VisitFrame
  PROVE  IInv'
<1> USE DEF IInv
<1> DEFINE n == routine[pos]
           k == IF Selected(n) /\ mo.frame THEN FrameLoads(n) ELSE 0
           line == [addr |-> n.addr, class |-> IF n.type = "load" THEN 0 ELSE 90,
                    of |-> DispAfter(pos), skips |-> 0, block |-> n.block]
           more == [c \in 1 .. k |-> line]
<1>1. /\ pass = 2 /\ pos \in DOMAIN routine /\ pos' = pos + 1
      /\ routine' = routine /\ mo' = mo /\ pass' = pass /\ disp' = DispAfter(pos)
      /\ count' = count /\ counted' = counted /\ charged' = charged
      /\ leftover' = leftover /\ scanning' = scanning /\ lnit' = lnit
      /\ isInstrumented' = isInstrumented
  BY DEF VisitFrame, scanVars
<1>2. lines' = lines \o more
  BY DEF VisitFrame
<1>3. n \in Node /\ n.block \in Blocks /\ n.addr \in Nat /\ k \in Nat /\ pos \in Nat
  BY <1>1, NodeType
<1>4. DispAfter(pos) \in Nat
  BY <1>3 DEF DispAfter, ClassType
<1>5. line \in Line
  BY <1>3, <1>4 DEF Line
<1>6. more \in Seq(Line) /\ (~mo.frame => Range(more) = {})
  <2>1. more \in Seq(Line)
    <3> HIDE DEF k, line
    <3> QED BY <1>3, <1>5
  <2>2. ~mo.frame => k = 0
    OBVIOUS
  <2>3. ~mo.frame => Range(more) = {}
    <3> HIDE DEF k, line
    <3> QED BY <2>2 DEF Range
  <2> QED BY <2>1, <2>3
<1>7. lines' \in Seq(Line) /\ Range(lines') = Range(lines) \cup Range(more)
  <2> HIDE DEF more
  <2> QED BY <1>2, <1>6, MoreLines
<1>8. ~mo.frame => FrameLines' = FrameLines
  <2> HIDE DEF more
  <2> QED BY <1>6, <1>7 DEF FrameLines
<1>9. ClassType'
  <2> HIDE DEF n, k, line, more
  <2>1. disp' \in Nat /\ pos' \in Nat
    BY <1>1, <1>3, <1>4
  <2> QED BY <1>1, <1>7, <2>1 DEF ClassType
<1>10. CountsCharged' /\ CountsHaveLoads'
  BY <1>1 DEF CountsCharged, CountsHaveLoads, Candidate
<1>11. ServedOnce' /\ FirstScan'
  BY <1>1, <1>8 DEF ServedOnce, FirstScan
<1> QED BY <1>9, <1>10, <1>11

LEMMA AccessStep ==
  ASSUME IInv, VisitAccess
  PROVE  IInv'
<1> USE DEF IInv
<1> DEFINE n == routine[pos]
           b == n.block
           class == IF n.ref = "strided" THEN 1 ELSE 2
           line == [addr |-> n.addr, class |-> class, of |-> DispAfter(pos),
                    skips |-> count[b], block |-> b]
<1>1. /\ pass = 2 /\ pos \in DOMAIN routine /\ pos' = pos + 1
      /\ routine' = routine /\ mo' = mo /\ pass' = pass /\ disp' = DispAfter(pos)
      /\ counted' = counted
      /\ leftover' = leftover /\ scanning' = scanning /\ lnit' = lnit
      /\ isInstrumented' = isInstrumented
  BY DEF VisitAccess, scanVars
<1>2. \/ /\ lines' = Append(lines, line)
         /\ charged' = [charged EXCEPT ![b] = @ + count[b]]
         /\ count' = [count EXCEPT ![b] = 0]
      \/ UNCHANGED <<lines, charged, count>>
  BY DEF VisitAccess, TakeCount
<1>3. n \in Node /\ b \in Blocks /\ n.addr \in Nat /\ pos \in Nat
  BY <1>1, NodeType
<1>4. DispAfter(pos) \in Nat
  BY <1>3 DEF DispAfter, ClassType
<1>5. line \in Line /\ line.class # 0
  BY <1>3, <1>4 DEF Line, ClassType
<1>6. lines' \in Seq(Line) /\ FrameLines' = FrameLines
  <2>1. CASE lines' = Append(lines, line)
    <3> HIDE DEF line
    <3>1. Append(lines, line) = lines \o <<line>> /\ <<line>> \in Seq(Line)
      BY <1>5, AppendIsConcat DEF ClassType
    <3>2. lines' \in Seq(Line) /\ Range(lines') = Range(lines) \cup Range(<<line>>)
      BY <2>1, <3>1, MoreLines
    <3>3. Range(<<line>>) = {line}
      BY DEF Range
    <3> QED BY <3>2, <3>3, <1>5 DEF FrameLines
  <2>2. CASE lines' = lines
    BY <2>2 DEF FrameLines, ClassType
  <2> QED BY <2>1, <2>2, <1>2
<1> HIDE DEF b, n, line, class
<1>7. /\ count' \in [Blocks -> Nat] /\ charged' \in [Blocks -> Nat]
      /\ \A c \in Blocks : /\ count'[c] <= count[c]
                           /\ charged'[c] + count'[c] = charged[c] + count[c]
  <2>1. count \in [Blocks -> Nat] /\ charged \in [Blocks -> Nat] /\ count[b] \in Nat
    BY <1>3 DEF ClassType
  <2>2. CASE /\ charged' = [charged EXCEPT ![b] = @ + count[b]]
             /\ count' = [count EXCEPT ![b] = 0]
    <3>1. count' \in [Blocks -> Nat] /\ charged' \in [Blocks -> Nat]
      BY <2>1, <2>2, <1>3
    <3>2. SUFFICES ASSUME NEW c \in Blocks
                   PROVE  /\ count'[c] <= count[c]
                          /\ charged'[c] + count'[c] = charged[c] + count[c]
      BY <3>1
    <3>3. count[c] \in Nat /\ charged[c] \in Nat
      BY <2>1
    <3>4. CASE c = b
      BY <3>3, <3>4, <2>1, <2>2, <1>3
    <3>5. CASE c # b
      BY <3>3, <3>5, <2>1, <2>2, <1>3
    <3> QED BY <3>4, <3>5
  <2>3. CASE count' = count /\ charged' = charged
    <3>1. \A c \in Blocks : count[c] \in Nat
      BY <2>1
    <3> QED BY <2>1, <2>3, <3>1
  <2> QED BY <2>2, <2>3, <1>2
<1>8. ClassType'
  BY SMTT(30), <1>1, <1>3, <1>4, <1>6, <1>7 DEF ClassType
<1>9. CountsCharged'
  BY <1>1, <1>7 DEF CountsCharged
<1>10. CountsHaveLoads'
  <2>1. \A c \in Blocks : count'[c] > 0 => count[c] > 0
    <3> SUFFICES ASSUME NEW c \in Blocks PROVE count'[c] > 0 => count[c] > 0
      OBVIOUS
    <3>1. count[c] \in Nat /\ count'[c] \in Nat /\ count'[c] <= count[c]
      BY <1>7 DEF ClassType
    <3> QED BY <3>1
  <2> QED BY <2>1, <1>1 DEF CountsHaveLoads, Candidate
<1>11. ServedOnce'
  BY <1>1, <1>6 DEF ServedOnce
<1>12. FirstScan'
  <2>1. lnit = 1 /\ leftover = Blocks /\ ~scanning
    BY <1>1 DEF FirstScan
  <2> QED BY <2>1, <1>1, <1>6 DEF FirstScan
<1> QED BY <1>8, <1>9, <1>10, <1>11, <1>12

LEMMA PassStep ==
  ASSUME IInv, NextPass
  PROVE  IInv'
<1> USE DEF IInv
<1>1. /\ pass \in {1, 2} /\ pass' = pass + 1 /\ pos' = 1
      /\ routine' = routine /\ mo' = mo /\ disp' = disp
      /\ count' = count /\ counted' = counted /\ charged' = charged
      /\ lines' = lines /\ leftover' = leftover /\ scanning' = scanning
      /\ lnit' = lnit /\ isInstrumented' = isInstrumented
  BY DEF NextPass, scanVars, fileVars
<1>2. FrameLines' = FrameLines
  BY <1>1 DEF FrameLines
<1>3. ClassType'
  BY <1>1 DEF ClassType
<1>4. CountsCharged' /\ CountsHaveLoads'
  BY <1>1 DEF CountsCharged, CountsHaveLoads, Candidate
<1>5. ServedOnce'
  BY <1>1, <1>2 DEF ServedOnce
<1>6. FirstScan'
  <2>1. lnit = 1 /\ leftover = Blocks /\ ~scanning /\ pass' \in {2, 3}
    BY <1>1 DEF FirstScan
  <2> QED BY <2>1, <1>1, <1>2 DEF FirstScan
<1> QED BY <1>3, <1>4, <1>5, <1>6

LEMMA LeftoverStep ==
  ASSUME IInv, NextLeftover
  PROVE  IInv'
<1> USE DEF IInv
<1> DEFINE b == Min(leftover)
<1>1. /\ pass = 3 /\ ~scanning /\ pass' = pass /\ pos' = pos
      /\ leftover' = leftover \ {b} /\ scanning' = (count[b] > 0)
      /\ isInstrumented' = FALSE
      /\ routine' = routine /\ mo' = mo /\ disp' = disp
      /\ count' = count /\ counted' = counted /\ charged' = charged
      /\ lines' = lines /\ lnit' = lnit
  BY DEF NextLeftover, passVars, fileVars
<1>2. leftover # {} /\ leftover \subseteq Blocks
  BY DEF NextLeftover, ClassType
<1>3. FrameLines' = FrameLines
  BY <1>1 DEF FrameLines
<1> HIDE DEF b
<1>4. ClassType'
  <2>1. scanning' \in BOOLEAN
    <3>1. scanning' = (count[b] > 0)
      BY <1>1
    <3>2. (count[b] > 0) \in BOOLEAN
      OBVIOUS
    <3> QED BY <3>1, <3>2, Zenon
  <2>2. isInstrumented' \in BOOLEAN /\ leftover' \subseteq Blocks
    BY <1>1, <1>2
  <2> QED BY <1>1, <2>1, <2>2 DEF ClassType
<1>5. CountsCharged' /\ CountsHaveLoads'
  BY <1>1 DEF CountsCharged, CountsHaveLoads, Candidate
<1>6. ServedOnce'
  BY <1>1, <1>3 DEF ServedOnce
<1>7. FirstScan'
  <2> SUFFICES ASSUME ~mo.frame, FrameLines = {}
               PROVE  /\ ~scanning' => /\ lnit = 1
                                       /\ \A c \in Blocks \ leftover' : count[c] = 0
                      /\ scanning' =>
                           /\ \E c \in Blocks : count[c] > 0
                           /\ \A i \in DOMAIN routine, c \in Blocks :
                                i < lnit /\ count[c] > 0 => ~Candidate(i, c)
    BY <1>1, <1>3 DEF FirstScan, Candidate
  <2>1. lnit = 1 /\ \A c \in Blocks \ leftover : count[c] = 0
    BY <1>1 DEF FirstScan
  <2>2. b \in leftover
    <3>1. leftover \subseteq Nat
      BY <1>2, LoadClassesAssumption DEF LoadClassesAssumption
    <3>2. \E c \in leftover : \A d \in leftover : c <= d
      BY <1>2, <3>1, LeastElement
    <3> QED BY <3>2 DEF b, Min
  <2>3. CASE scanning'
    <3>1. \A i \in DOMAIN routine : ~(i < lnit)
      <4>1. \A i \in DOMAIN routine : i \in Nat /\ i > 0
        BY NodeType
      <4> QED BY <4>1, <2>1
    <3> QED BY <2>2, <2>3, <3>1, <1>1, <1>2
  <2>4. CASE ~scanning'
    <3>1. count[b] = 0
      <4>1. count[b] \in Nat /\ ~(count[b] > 0)
        BY <2>2, <2>4, <1>1, <1>2 DEF ClassType
      <4> QED BY <4>1
    <3> QED BY <2>1, <2>4, <3>1, <1>1
  <2> QED BY <2>3, <2>4
<1> QED BY <1>4, <1>5, <1>6, <1>7

LEMMA ScanStep ==
  ASSUME IInv, ScanNode
  PROVE  IInv'
<1> USE DEF IInv
<1> DEFINE n == routine[lnit]
           b == n.block
           k == FrameLoads(n)
           Copy(c) == [addr |-> n.addr, class |-> 0, of |-> 0, block |-> b,
                       skips |-> IF c = 1 THEN count[b] - 1 ELSE 0 - 1]
           more == [c \in 1 .. k |-> Copy(c)]
<1>1. /\ scanning /\ lnit \in DOMAIN routine /\ lnit' = lnit + 1
      /\ pass' = pass /\ pos' = pos /\ leftover' = leftover /\ scanning' = scanning
      /\ routine' = routine /\ mo' = mo /\ disp' = disp /\ counted' = counted
  BY DEF ScanNode, passVars
<1>2. pass = 3
  BY <1>1 DEF FirstScan
<1>3. n \in Node /\ b \in Blocks /\ n.addr \in Nat /\ k \in Nat
      /\ lnit \in Nat \ {0}
  BY <1>1, NodeType DEF ClassType
<1>4. count \in [Blocks -> Nat] /\ charged \in [Blocks -> Nat] /\ count[b] \in Nat
  BY <1>3 DEF ClassType
<1>5. CASE ScanPicks(n)
  <2>1. /\ lines' = lines \o more
        /\ charged' = [charged EXCEPT ![b] = @ + count[b]]
        /\ count' = [count EXCEPT ![b] = 0]
        /\ isInstrumented' = TRUE
    BY <1>5 DEF ScanNode, TakeCount
  <2>2. count[b] > 0 /\ ~isInstrumented /\ k > 0 /\ mo.loads /\ ~mo.frame
    <3>1. count[b] > 0 /\ ~isInstrumented /\ k > 0
      BY <1>5 DEF ScanPicks, IsFrame
    <3> QED BY <3>1, <1>3 DEF CountsHaveLoads
  <2>3. more \in Seq(Line) /\ Range(more) = {Copy(c) : c \in 1 .. k}
    <3>1. \A c \in 1 .. k : Copy(c) \in Line
      BY <1>3, <1>4 DEF Line
    <3> HIDE DEF k, Copy
    <3> QED BY <3>1, <1>3 DEF Range
  <2>4. lines' \in Seq(Line) /\ Range(lines') = Range(lines) \cup {Copy(c) : c \in 1 .. k}
    <3> HIDE DEF more, Copy
    <3> QED BY <2>1, <2>3, MoreLines
  <2>5. FrameLines = {}
    BY <1>1, <2>2 DEF ServedOnce
  <2>6. FrameLines' = {Copy(c) : c \in 1 .. k}
    <3>1. \A c \in 1 .. k : Copy(c).class = 0
      OBVIOUS
    <3> HIDE DEF Copy, k
    <3> QED BY <2>4, <2>5, <3>1 DEF FrameLines
  <2>7. Copy(1) \in FrameLines' /\ \A l \in FrameLines' : l.block = b
    <3>1. 1 \in 1 .. k
      BY <2>2, <1>3
    <3>2. \A c \in 1 .. k : Copy(c).block = b
      OBVIOUS
    <3> HIDE DEF Copy, k
    <3> QED BY <2>6, <3>1, <3>2
  <2> HIDE DEF n, b, k, Copy, more
  <2>8. /\ count' \in [Blocks -> Nat] /\ charged' \in [Blocks -> Nat]
        /\ \A c \in Blocks : /\ count'[c] > 0 => count[c] > 0
                             /\ charged'[c] + count'[c] = charged[c] + count[c]
    <3>1. count' \in [Blocks -> Nat] /\ charged' \in [Blocks -> Nat]
      BY <2>1, <1>3, <1>4
    <3>2. SUFFICES ASSUME NEW c \in Blocks
                   PROVE  /\ count'[c] > 0 => count[c] > 0
                          /\ charged'[c] + count'[c] = charged[c] + count[c]
      BY <3>1
    <3>3. count[c] \in Nat /\ charged[c] \in Nat
      BY <1>4
    <3>4. CASE c = b
      BY <3>3, <3>4, <2>1, <1>3, <1>4
    <3>5. CASE c # b
      BY <3>3, <3>5, <2>1, <1>3, <1>4
    <3> QED BY <3>4, <3>5
  <2>9. ClassType'
    <3>1. lnit' \in Nat \ {0} /\ isInstrumented' \in BOOLEAN
      BY <1>1, <1>3, <2>1
    <3> QED BY <1>1, <2>4, <2>8, <3>1 DEF ClassType
  <2>10. CountsCharged'
    BY <1>1, <2>8 DEF CountsCharged
  <2>11. CountsHaveLoads'
    BY <1>1, <2>8 DEF CountsHaveLoads, Candidate
  <2>12. ServedOnce'
    BY <1>1, <1>2, <2>1, <2>7 DEF ServedOnce
  <2>13. FirstScan'
    BY <1>1, <1>2, <2>7 DEF FirstScan
  <2> QED BY <2>9, <2>10, <2>11, <2>12, <2>13
<1>6. CASE ~ScanPicks(n)
  <2>1. /\ lines' = lines /\ charged' = charged /\ count' = count
        /\ isInstrumented' = isInstrumented
    BY <1>6 DEF ScanNode
  <2>2. FrameLines' = FrameLines
    BY <2>1 DEF FrameLines
  <2>3. ClassType'
    <3>1. lnit' \in Nat \ {0}
      BY <1>1, <1>3
    <3> QED BY <1>1, <2>1, <3>1 DEF ClassType
  <2>4. CountsCharged' /\ CountsHaveLoads'
    BY <1>1, <2>1 DEF CountsCharged, CountsHaveLoads, Candidate
  <2>5. ServedOnce'
    BY <1>1, <2>1, <2>2 DEF ServedOnce
  <2>6. FirstScan'
    <3> SUFFICES ASSUME ~mo.frame, FrameLines = {}
                 PROVE  /\ ~isInstrumented
                        /\ \E c \in Blocks : count[c] > 0
                        /\ \A i \in DOMAIN routine, c \in Blocks :
                             i < lnit + 1 /\ count[c] > 0 => ~Candidate(i, c)
      BY <1>1, <1>2, <2>1, <2>2 DEF FirstScan, Candidate
    <3>1. /\ ~isInstrumented
          /\ \E c \in Blocks : count[c] > 0
          /\ \A i \in DOMAIN routine, c \in Blocks :
               i < lnit /\ count[c] > 0 => ~Candidate(i, c)
      BY <1>1 DEF FirstScan
    <3>2. \A c \in Blocks : count[c] > 0 => ~Candidate(lnit, c)
      BY <1>6, <3>1 DEF ScanPicks, Candidate, CountsHaveLoads
    <3>3. \A i \in DOMAIN routine : i < lnit + 1 => i < lnit \/ i = lnit
      <4>1. \A i \in DOMAIN routine : i \in Nat
        BY NodeType
      <4> QED BY <4>1, <1>3
    <3> QED BY <3>1, <3>2, <3>3
  <2> QED BY <2>3, <2>4, <2>5, <2>6
<1> QED BY <1>5, <1>6

LEMMA EndScanStep ==
  ASSUME IInv, EndScan
  PROVE  IInv'
<1> USE DEF IInv
<1>1. /\ scanning /\ lnit \notin DOMAIN routine /\ scanning' = FALSE /\ lnit' = lnit
      /\ pass' = pass /\ pos' = pos /\ leftover' = leftover
      /\ routine' = routine /\ mo' = mo /\ disp' = disp
      /\ count' = count /\ counted' = counted /\ charged' = charged
      /\ lines' = lines /\ isInstrumented' = isInstrumented
  BY DEF EndScan, LnitAfterScan, passVars, fileVars
<1>2. FrameLines' = FrameLines
  BY <1>1 DEF FrameLines
<1>3. ClassType'
  BY <1>1 DEF ClassType
<1>4. CountsCharged' /\ CountsHaveLoads'
  BY <1>1 DEF CountsCharged, CountsHaveLoads, Candidate
<1>5. ServedOnce'
  BY <1>1, <1>2 DEF ServedOnce
<1>6. FirstScan'
  \* A block with a count has a candidate, and the whole list was scanned.
  <2>1. ~mo.frame => FrameLines # {}
    <3> SUFFICES ASSUME ~mo.frame, FrameLines = {} PROVE FALSE
      OBVIOUS
    <3>1. PICK c \in Blocks : count[c] > 0
      BY <1>1 DEF FirstScan
    <3>2. PICK i \in DOMAIN routine : Candidate(i, c)
      BY <3>1 DEF CountsHaveLoads
    <3>3. ~(i < lnit)
      BY <1>1, <3>1, <3>2 DEF FirstScan
    <3>4. /\ i \in Nat /\ lnit \in Nat \ {0} /\ Len(routine) \in Nat
          /\ DOMAIN routine = 1 .. Len(routine)
      BY NodeType DEF ClassType
    <3> QED BY <3>2, <3>3, <3>4, <1>1
  <2> QED BY <2>1, <1>1, <1>2 DEF FirstScan
<1> QED BY <1>3, <1>4, <1>5, <1>6

LEMMA EndPassStep ==
  ASSUME IInv, EndPass3
  PROVE  IInv'
<1> USE DEF IInv
<1>1. /\ pass = 3 /\ pass' = 4 /\ ~scanning /\ leftover = {}
      /\ routine' = routine /\ mo' = mo /\ disp' = disp /\ pos' = pos
      /\ count' = count /\ counted' = counted /\ charged' = charged
      /\ lines' = lines /\ leftover' = leftover /\ scanning' = scanning
      /\ lnit' = lnit /\ isInstrumented' = isInstrumented
  BY DEF EndPass3, scanVars, fileVars
<1>2. FrameLines' = FrameLines
  BY <1>1 DEF FrameLines
<1>3. ClassType'
  BY <1>1 DEF ClassType
<1>4. CountsCharged' /\ CountsHaveLoads'
  BY <1>1 DEF CountsCharged, CountsHaveLoads, Candidate
<1>5. ServedOnce' /\ FirstScan'
  BY <1>1, <1>2 DEF ServedOnce, FirstScan
<1> QED BY <1>3, <1>4, <1>5

LEMMA FixStep ==
  ASSUME IInv, Fix
  PROVE  IInv'
<1> USE DEF IInv
<1>1. /\ pass = 4 /\ pass' = 5
      /\ routine' = routine /\ mo' = mo /\ disp' = disp /\ pos' = pos
      /\ count' = count /\ counted' = counted /\ charged' = charged
      /\ lines' = lines /\ leftover' = leftover /\ scanning' = scanning
      /\ lnit' = lnit /\ isInstrumented' = isInstrumented
  BY DEF Fix, scanVars, fileVars
<1>2. FrameLines' = FrameLines
  BY <1>1 DEF FrameLines
<1>3. ClassType'
  BY <1>1 DEF ClassType
<1>4. CountsCharged' /\ CountsHaveLoads'
  BY <1>1 DEF CountsCharged, CountsHaveLoads, Candidate
<1>5. ServedOnce' /\ FirstScan'
  BY <1>1, <1>2 DEF ServedOnce, FirstScan
<1> QED BY <1>3, <1>4, <1>5

LEMMA UnchangedStep ==
  ASSUME IInv, UNCHANGED classVars
  PROVE  IInv'
<1> USE DEF IInv
<1>1. /\ pass' = pass
      /\ routine' = routine /\ mo' = mo /\ disp' = disp /\ pos' = pos
      /\ count' = count /\ counted' = counted /\ charged' = charged
      /\ lines' = lines /\ leftover' = leftover /\ scanning' = scanning
      /\ lnit' = lnit /\ isInstrumented' = isInstrumented
  BY DEF classVars, passVars, scanVars, fileVars
<1>2. FrameLines' = FrameLines
  BY <1>1 DEF FrameLines
<1>3. ClassType'
  BY <1>1 DEF ClassType
<1>4. CountsCharged' /\ CountsHaveLoads'
  BY <1>1 DEF CountsCharged, CountsHaveLoads, Candidate
<1>5. ServedOnce'
  BY <1>1, <1>2 DEF ServedOnce
<1>6. FirstScan'
  BY <1>1, <1>2 DEF FirstScan, Candidate
<1> QED BY <1>3, <1>4, <1>5, <1>6

-----------------------------------------------------------------------------
(* What the lines of a block stand for.                                    *)

Stands(l, frame) == l.skips + IF l.class = 0 /\ ~frame THEN 1 ELSE 0
LinesFor(ls, b)  == {i \in DOMAIN ls : ls[i].block = b}
StandsIn(ls, frame, b) ==
  SumFunction([i \in LinesFor(ls, b) |-> Stands(ls[i], frame)])

\* These lines stand for d loads of block b, if the first one does.
FirstStands(more, frame, b, d) ==
  /\ d \in Int
  /\ d # 0 => 1 \in DOMAIN more /\ more[1].block = b
  /\ \A j \in DOMAIN more :
       more[j].block = b => Stands(more[j], frame) = IF j = 1 THEN d ELSE 0

LEMMA StandsType ==
  ASSUME NEW ls \in Seq(Line), NEW frame, NEW b
  PROVE  /\ IsFiniteSet(LinesFor(ls, b))
         /\ \A i \in LinesFor(ls, b) : Stands(ls[i], frame) \in Int
         /\ StandsIn(ls, frame, b) \in Int
<1> DEFINE S == LinesFor(ls, b)
           f == [i \in S |-> Stands(ls[i], frame)]
<1>1. IsFiniteSet(S)
  <2>1. S \subseteq 1 .. Len(ls) /\ Len(ls) \in Nat
    BY DEF LinesFor
  <2>2. IsFiniteSet(1 .. Len(ls))
    BY <2>1, FS_Interval
  <2> QED BY <2>1, <2>2, FS_Subset
<1>2. \A i \in S : Stands(ls[i], frame) \in Int
  <2>1. \A i \in S : ls[i] \in Line
    BY DEF LinesFor
  <2>2. \A l \in Line : Stands(l, frame) \in Int
    BY DEF Line, Stands
  <2> QED BY <2>1, <2>2
<1>3. StandsIn(ls, frame, b) = SumFunctionOnSet(f, S)
  BY Zenon DEF StandsIn, SumFunction
<1>4. \A i \in S : f[i] \in Int
  BY <1>2
<1> HIDE DEF f, S
<1>5. SumFunctionOnSet(f, S) \in Int
  BY <1>1, <1>4, SumType
<1> QED BY <1>1, <1>2, <1>3, <1>5 DEF S

LEMMA StandsMore ==
  ASSUME NEW ls \in Seq(Line), NEW more \in Seq(Line), NEW frame, NEW b, NEW d,
         FirstStands(more, frame, b, d)
  PROVE  StandsIn(ls \o more, frame, b) = StandsIn(ls, frame, b) + d
<1> DEFINE out == ls \o more
           n == Len(ls)
           m == Len(more)
           S == LinesFor(ls, b)
           U == LinesFor(out, b)
           T == {i \in n + 1 .. n + m : more[i - n].block = b}
           f == [i \in S |-> Stands(ls[i], frame)]
           g == [i \in U |-> Stands(out[i], frame)]
<1>1. /\ n \in Nat /\ m \in Nat /\ DOMAIN ls = 1 .. n /\ DOMAIN more = 1 .. m
      /\ DOMAIN out = 1 .. n + m
      /\ \A i \in 1 .. n : out[i] = ls[i]
      /\ \A i \in n + 1 .. n + m : out[i] = more[i - n]
  BY ConcatProperties
<1>2. out \in Seq(Line)
  OBVIOUS
<1>3. IsFiniteSet(S) /\ IsFiniteSet(U) /\ \A i \in U : g[i] \in Int
  BY <1>2, StandsType
<1> HIDE DEF out, n, m
<1>4. U = S \cup T /\ S \cap T = {}
  BY <1>1 DEF LinesFor
<1>5. IsFiniteSet(T)
  BY <1>3, <1>4, FS_Subset
<1>6. \A i \in S : f[i] \in Int /\ f[i] = g[i]
  <2> SUFFICES ASSUME NEW i \in S PROVE f[i] \in Int /\ f[i] = g[i]
    OBVIOUS
  <2>1. i \in U /\ i \in 1 .. n
    BY <1>1, <1>4 DEF LinesFor
  <2>2. f[i] = Stands(ls[i], frame) /\ g[i] = Stands(out[i], frame)
    BY <2>1
  <2> QED BY <1>1, <1>3, <2>1, <2>2
<1>7. \A i \in T : g[i] = IF i = n + 1 THEN d ELSE 0
  <2> SUFFICES ASSUME NEW i \in T PROVE g[i] = IF i = n + 1 THEN d ELSE 0
    OBVIOUS
  <2>1. i \in U /\ i \in n + 1 .. n + m /\ more[i - n].block = b
    BY <1>4
  <2>2. g[i] = Stands(more[i - n], frame)
    BY <1>1, <2>1
  <2>3. i - n \in DOMAIN more /\ (i - n = 1 <=> i = n + 1)
    BY <1>1, <2>1
  <2> HIDE DEF g
  <2> QED BY <2>1, <2>2, <2>3 DEF FirstStands
<1>8. d # 0 => n + 1 \in T
  BY <1>1 DEF FirstStands
<1>9. StandsIn(ls, frame, b) = SumFunctionOnSet(f, S)
  BY Zenon DEF StandsIn, SumFunction
<1>10. StandsIn(out, frame, b) = SumFunctionOnSet(g, U)
  BY Zenon DEF StandsIn, SumFunction
<1>11. d \in Int
  BY DEF FirstStands
<1> HIDE DEF f, g, S, T, U
<1>12. SumFunctionOnSet(g, S) = SumFunctionOnSet(f, S)
  <2>1. \A i \in S : f[i] \in Int /\ f[i] = g[i]
    BY <1>6
  <2> QED BY <1>3, <2>1, SumEqual
<1>13. SumFunctionOnSet(g, U) = SumFunctionOnSet(g, S) + SumFunctionOnSet(g, T)
  <2>1. \A i \in S \cup T : g[i] \in Int
    BY <1>3, <1>4
  <2> QED BY <1>3, <1>4, <1>5, <2>1, SumUnion
<1>14. SumFunctionOnSet(g, T) = d
  <2>1. CASE d = 0
    <3>1. \A i \in T : g[i] = 0
      BY <1>7, <2>1
    <3> QED BY <1>5, <2>1, <3>1, SumZero
  <2>2. CASE d # 0
    <3> DEFINE a == n + 1
    <3>1. a \in T /\ g[a] = d /\ \A i \in T : i # a => g[i] = 0
      BY <1>7, <1>8, <2>2
    <3> HIDE DEF a
    <3>2. g[a] \in Int
      BY <1>11, <3>1
    <3>3. SumFunctionOnSet(g, T) = g[a]
      BY <1>5, <3>1, <3>2, SumSingle
    <3> QED BY <3>1, <3>3
  <2> QED BY <2>1, <2>2
<1> QED BY <1>9, <1>10, <1>12, <1>13, <1>14 DEF out

\* What is charged to a block is what its lines stand for.
SkipsInv == \A b \in Blocks : charged[b] = StandsIn(lines, mo.frame, b)

LEMMA SkipsInit ==
  ASSUME ClassInit
  PROVE  SkipsInv
<1> SUFFICES ASSUME NEW b \in Blocks PROVE charged[b] = StandsIn(lines, mo.frame, b)
  BY DEF SkipsInv
<1> DEFINE f == [i \in LinesFor(lines, b) |-> Stands(lines[i], mo.frame)]
<1>1. StandsIn(lines, mo.frame, b) = SumFunctionOnSet(f, LinesFor(lines, b))
  BY Zenon DEF StandsIn, SumFunction
<1>2. LinesFor(lines, b) = {} /\ charged[b] = 0
  BY DEF LinesFor, ClassInit
<1> HIDE DEF f
<1> QED BY <1>1, <1>2, SumEmpty

\* Lines are added, for d loads of one block.
LEMMA SkipsMore ==
  ASSUME IInv, SkipsInv, mo' = mo, NEW more \in Seq(Line), lines' = lines \o more,
         NEW c \in Blocks, NEW d \in Int, charged' = [charged EXCEPT ![c] = @ + d],
         \A b \in Blocks : FirstStands(more, mo.frame, b, IF b = c THEN d ELSE 0)
  PROVE  SkipsInv'
<1>1. lines \in Seq(Line) /\ charged \in [Blocks -> Nat]
  BY DEF IInv, ClassType
<1>2. SUFFICES ASSUME NEW b \in Blocks PROVE charged'[b] = StandsIn(lines', mo.frame, b)
  BY DEF SkipsInv
<1> DEFINE k == IF b = c THEN d ELSE 0
<1>3. FirstStands(more, mo.frame, b, k)
  OBVIOUS
<1> HIDE DEF k
<1>4. StandsIn(lines', mo.frame, b) = StandsIn(lines, mo.frame, b) + k
  BY <1>1, <1>3, StandsMore
<1>5. charged[b] = StandsIn(lines, mo.frame, b) /\ charged[b] \in Nat
  BY <1>1 DEF SkipsInv
<1>6. charged'[b] = charged[b] + k
  BY <1>1, <1>5 DEF k
<1> QED BY <1>4, <1>5, <1>6

LEMMA SkipsSame ==
  ASSUME SkipsInv, mo' = mo, lines' = lines, charged' = charged
  PROVE  SkipsInv'
BY DEF SkipsInv

LEMMA SkipsOfFrame ==
  ASSUME IInv, SkipsInv, VisitFrame
  PROVE  SkipsInv'
<1> DEFINE n == routine[pos]
           k == IF Selected(n) /\ mo.frame THEN FrameLoads(n) ELSE 0
           line == [addr |-> n.addr, class |-> IF n.type = "load" THEN 0 ELSE 90,
                    of |-> DispAfter(pos), skips |-> 0, block |-> n.block]
           more == [c \in 1 .. k |-> line]
<1>1. pos \in DOMAIN routine /\ mo' = mo /\ charged' = charged /\ lines' = lines \o more
  BY DEF VisitFrame
<1>2. n \in Node /\ n.block \in Blocks /\ n.addr \in Nat /\ k \in Nat /\ pos \in Nat
  BY <1>1, NodeType DEF IInv
<1>3. line \in Line
  BY <1>2 DEF Line, DispAfter, IInv, ClassType
<1>4. more \in Seq(Line)
  <2> HIDE DEF line, k
  <2> QED BY <1>2, <1>3
<1>5. \A c \in 1 .. k : more[c] = line
  OBVIOUS
<1>6. k > 0 => mo.frame
  OBVIOUS
<1>7. line.skips = 0
  OBVIOUS
<1>8. DOMAIN more = 1 .. k
  OBVIOUS
<1>9. charged' = [charged EXCEPT ![n.block] = @ + 0]
  <2>1. charged \in [Blocks -> Nat]
    BY DEF IInv, ClassType
  <2> QED BY <1>1, <1>2, <2>1
<1> HIDE DEF line, k, more
<1>10. ASSUME NEW b \in Blocks
       PROVE  FirstStands(more, mo.frame, b, 0)
  <2>1. \A j \in DOMAIN more : Stands(more[j], mo.frame) = 0
    <3> SUFFICES ASSUME NEW j \in DOMAIN more PROVE Stands(more[j], mo.frame) = 0
      OBVIOUS
    <3>1. k > 0 /\ more[j] = line
      BY <1>2, <1>5, <1>8
    <3> QED BY <1>6, <1>7, <3>1 DEF Stands
  <2> QED BY <2>1 DEF FirstStands
<1> DEFINE b0 == n.block
           d  == 0
<1>11. \A b \in Blocks : FirstStands(more, mo.frame, b, IF b = b0 THEN d ELSE 0)
  BY <1>10
<1>12. /\ b0 \in Blocks /\ d \in Int
       /\ charged' = [charged EXCEPT ![b0] = @ + d]
  BY <1>2, <1>9
<1> HIDE DEF n, b0, d
<1> QED BY <1>1, <1>4, <1>11, <1>12, SkipsMore

LEMMA SkipsOfAccess ==
  ASSUME IInv, SkipsInv, VisitAccess
  PROVE  SkipsInv'
<1> DEFINE n == routine[pos]
           c == n.block
           class == IF n.ref = "strided" THEN 1 ELSE 2
           line == [addr |-> n.addr, class |-> class, of |-> DispAfter(pos),
                    skips |-> count[c], block |-> c]
<1>1. pos \in DOMAIN routine /\ mo' = mo
  BY DEF VisitAccess
<1>2. \/ /\ lines' = Append(lines, line)
         /\ charged' = [charged EXCEPT ![c] = @ + count[c]]
      \/ UNCHANGED <<lines, charged>>
  BY DEF VisitAccess
<1>3. n \in Node /\ c \in Blocks /\ n.addr \in Nat /\ pos \in Nat /\ count[c] \in Nat
  BY <1>1, NodeType DEF IInv, ClassType
<1>4. line \in Line
  BY <1>3 DEF Line, DispAfter, IInv, ClassType
<1>5. line.class # 0 /\ line.skips = count[c] /\ line.block = c
  OBVIOUS
<1> HIDE DEF line, class, n, c
<1>6. CASE /\ lines' = Append(lines, line)
           /\ charged' = [charged EXCEPT ![c] = @ + count[c]]
  <2> DEFINE more == <<line>>
  <2>1. more \in Seq(Line) /\ lines' = lines \o more
    BY <1>4, <1>6, AppendIsConcat DEF IInv, ClassType
  <2>2. DOMAIN more = {1} /\ more[1] = line
    OBVIOUS
  <2> HIDE DEF more
  <2>3. Stands(line, mo.frame) = count[c]
    BY <1>3, <1>5 DEF Stands
  <2>4. \A b \in Blocks : FirstStands(more, mo.frame, b, IF b = c THEN count[c] ELSE 0)
    BY <1>3, <1>5, <2>2, <2>3 DEF FirstStands
  <2>5. count[c] \in Int
    BY <1>3
  <2> QED BY <1>1, <1>3, <1>6, <2>1, <2>4, <2>5, SkipsMore
<1>7. CASE UNCHANGED <<lines, charged>>
  BY <1>1, <1>7, SkipsSame
<1> QED BY <1>2, <1>6, <1>7

LEMMA SkipsOfScan ==
  ASSUME IInv, SkipsInv, ScanNode
  PROVE  SkipsInv'
<1> DEFINE n == routine[lnit]
           c == n.block
           k == FrameLoads(n)
           Copy(j) == [addr |-> n.addr, class |-> 0, of |-> 0, block |-> c,
                       skips |-> IF j = 1 THEN count[c] - 1 ELSE 0 - 1]
           more == [j \in 1 .. k |-> Copy(j)]
<1>1. lnit \in DOMAIN routine /\ mo' = mo
  BY DEF ScanNode
<1>2. n \in Node /\ c \in Blocks /\ n.addr \in Nat /\ k \in Nat /\ count[c] \in Nat
  BY <1>1, NodeType DEF IInv, ClassType
<1>3. CASE ScanPicks(n)
  <2>1. lines' = lines \o more /\ charged' = [charged EXCEPT ![c] = @ + count[c]]
    BY <1>3 DEF ScanNode
  <2>2. count[c] > 0 /\ k > 0 /\ ~mo.frame
    <3>1. count[c] > 0 /\ k > 0
      BY <1>3 DEF ScanPicks, IsFrame
    <3> QED BY <3>1, <1>2 DEF CountsHaveLoads, IInv
  <2>3. \A j \in 1 .. k : Copy(j) \in Line
    BY <1>2 DEF Line
  <2>4. more \in Seq(Line)
    <3> HIDE DEF k, Copy
    <3> QED BY <2>3, <1>2
  <2>5. DOMAIN more = 1 .. k /\ \A j \in 1 .. k : more[j] = Copy(j)
    OBVIOUS
  <2>6. \A j \in 1 .. k :
          /\ Copy(j).block = c
          /\ Stands(Copy(j), mo.frame) = IF j = 1 THEN count[c] ELSE 0
    <3> SUFFICES ASSUME NEW j \in 1 .. k
                 PROVE  /\ Copy(j).block = c
                        /\ Stands(Copy(j), mo.frame) = IF j = 1 THEN count[c] ELSE 0
      OBVIOUS
    <3>1. /\ Copy(j).block = c /\ Copy(j).class = 0
          /\ Copy(j).skips = IF j = 1 THEN count[c] - 1 ELSE 0 - 1
      OBVIOUS
    <3> HIDE DEF Copy, c, n
    <3>2. Stands(Copy(j), mo.frame) = Copy(j).skips + 1
      BY <2>2, <3>1 DEF Stands
    <3> QED BY <1>2, <3>1, <3>2
  <2>7. 1 \in 1 .. k
    BY <1>2, <2>2
  <2> HIDE DEF more, Copy, k, n, c
  <2>8. \A b \in Blocks : FirstStands(more, mo.frame, b, IF b = c THEN count[c] ELSE 0)
    BY <1>2, <2>5, <2>6, <2>7 DEF FirstStands
  <2>9. count[c] \in Int
    BY <1>2
  <2> QED BY <1>1, <1>2, <2>1, <2>4, <2>8, <2>9, SkipsMore
<1>4. CASE ~ScanPicks(n)
  <2>1. lines' = lines /\ charged' = charged
    BY <1>4 DEF ScanNode
  <2> QED BY <1>1, <2>1, SkipsSame
<1> QED BY <1>3, <1>4

LEMMA SkipsStep ==
  ASSUME IInv, SkipsInv, ClassNext
  PROVE  SkipsInv'
<1>1. CASE VisitFrame
  BY <1>1, SkipsOfFrame
<1>2. CASE VisitAccess
  BY <1>2, SkipsOfAccess
<1>3. CASE ScanNode
  BY <1>3, SkipsOfScan
<1>4. CASE CountNode \/ NextPass \/ NextLeftover \/ EndScan \/ EndPass3 \/ Fix
  <2>1. mo' = mo /\ lines' = lines /\ charged' = charged
    BY <1>4 DEF CountNode, NextPass, NextLeftover, EndScan, EndPass3, Fix, fileVars
  <2> QED BY <2>1, SkipsSame
<1> QED BY <1>1, <1>2, <1>3, <1>4 DEF ClassNext

-----------------------------------------------------------------------------
(* The ptwrites of an instruction, and its last line.                      *)

NodesOf(s) == {s[k].node : k \in DOMAIN s}

\* The last of the lines of an address.
LinesAt(ls, a) == {i \in DOMAIN ls : ls[i].addr = a}
LastLine(ls, a) == ls[Max(LinesAt(ls, a))]

Known(i) == routine[i].ref # "unknown"

\* Ptwrites are for nodes of their instruction, which has a line; the last line
\* has the offset of a node of the instruction, if one with ptwrites has any.
LineOfPtws(a) ==
  /\ \A n \in NodesOf(snippets[a]) : n \in DOMAIN routine /\ routine[n].addr = a
  /\ \A n \in NodesOf(snippets[a]) : pass = 2 => n < pos
  /\ pass < 2 => NodesOf(snippets[a]) = {}
  /\ NodesOf(snippets[a]) # {} => LinesAt(lines, a) # {}
  /\ LinesAt(lines, a) # {} /\ LastLine(lines, a).class # 0 =>
       \A n \in NodesOf(snippets[a]) :
         Known(n) => routine[LastLine(lines, a).of].addr = a

\* Pass 2 holds the offset of the last node that has one.
OffsetHeld ==
  /\ pass < 3 => pos > 0
  /\ pass = 1 => disp = 0
  /\ pass = 2 =>
       /\ disp < pos /\ (disp # 0 => disp \in DOMAIN routine)
       /\ \A n \in DOMAIN routine : n < pos /\ Known(n) => n <= disp

PtwsInv ==
  /\ routine \in Routines
  /\ snippets \in [Addrs(routine) -> Seq(Snippet)]
  /\ \A a \in Addrs(routine) : LineOfPtws(a)
  /\ OffsetHeld
  /\ pass = 5 => fixed = [a \in Addrs(lines) |-> lines[Kept(a)]]

LEMMA MaxOfSet ==
  ASSUME NEW n \in Nat, NEW S, S \subseteq 1 .. n, S # {}
  PROVE  Max(S) \in S /\ \A i \in S : i <= Max(S)
<1>1. S \subseteq 0 .. n
  OBVIOUS
<1>2. \E x \in S : \A y \in S : y <= x
  BY <1>1, GreatestElement
<1>3. PICK x \in S : \A y \in S : x >= y
  BY <1>1, <1>2
<1> QED BY <1>1, <1>3 DEF Max

\* New lines are of one instruction: the last line of the others stays.
LEMMA LastLineMore ==
  ASSUME NEW ls \in Seq(Line), NEW more \in Seq(Line), NEW c,
         \A j \in DOMAIN more : more[j].addr = c, NEW a
  PROVE  /\ a # c \/ more = << >> =>
              /\ LinesAt(ls \o more, a) = LinesAt(ls, a)
              /\ LinesAt(ls, a) # {} => LastLine(ls \o more, a) = LastLine(ls, a)
         /\ more # << >> => /\ LinesAt(ls \o more, c) # {}
                            /\ LastLine(ls \o more, c) = more[Len(more)]
<1> DEFINE out == ls \o more
           n == Len(ls)
           m == Len(more)
<1>1. /\ n \in Nat /\ m \in Nat /\ DOMAIN ls = 1 .. n /\ DOMAIN more = 1 .. m
      /\ DOMAIN out = 1 .. n + m
      /\ \A i \in 1 .. n : out[i] = ls[i]
      /\ \A i \in n + 1 .. n + m : out[i] = more[i - n]
      /\ more # << >> => m > 0
  BY ConcatProperties
<1>2. more = << >> => m = 0
  OBVIOUS
<1> HIDE DEF out, n, m
<1>3. ASSUME a # c \/ m = 0
      PROVE  /\ LinesAt(out, a) = LinesAt(ls, a)
             /\ LinesAt(ls, a) # {} => LastLine(out, a) = LastLine(ls, a)
  <2>1. \A i \in n + 1 .. n + m : i - n \in DOMAIN more
    BY <1>1
  <2>2. \A i \in n + 1 .. n + m : out[i].addr # a
    BY <1>1, <1>3, <2>1
  <2>3. LinesAt(out, a) = LinesAt(ls, a)
    BY <1>1, <2>2 DEF LinesAt
  <2>4. ASSUME LinesAt(ls, a) # {} PROVE LastLine(out, a) = LastLine(ls, a)
    <3>1. LinesAt(ls, a) \subseteq 1 .. n
      BY <1>1 DEF LinesAt
    <3>2. Max(LinesAt(ls, a)) \in 1 .. n
      BY <1>1, <2>4, <3>1, MaxOfSet
    <3> QED BY <1>1, <2>3, <3>2 DEF LastLine
  <2> QED BY <2>3, <2>4
<1>4. ASSUME m > 0
      PROVE  LinesAt(out, c) # {} /\ LastLine(out, c) = more[m]
  <2>1. n + m \in DOMAIN out /\ out[n + m] = more[m] /\ m \in DOMAIN more
    BY <1>1, <1>4
  <2>2. n + m \in LinesAt(out, c) /\ LinesAt(out, c) \subseteq 1 .. n + m
    BY <1>1, <2>1 DEF LinesAt
  <2> DEFINE x == Max(LinesAt(out, c))
  <2>3. x \in LinesAt(out, c) /\ n + m <= x
    BY <1>1, <2>2, MaxOfSet
  <2>4. x = n + m
    BY <1>1, <2>2, <2>3
  <2> QED BY <2>1, <2>2, <2>4 DEF LastLine
<1> QED BY <1>1, <1>2, <1>3, <1>4 DEF out, m

LEMMA PTWsType ==
  ASSUME ClassType, NEW i \in DOMAIN routine, NEW times \in Nat
  PROVE  /\ PTWs(i, times) \in Seq(Snippet)
         /\ NodesOf(PTWs(i, times)) \subseteq {i}
         /\ times = 0 => NodesOf(PTWs(i, times)) = {}
<1> DEFINE k == PTWRegs(routine[i])
           S(j) == [node |-> i, reg |-> ((j - 1) % k) + 1]
<1>1. k \in Nat /\ i \in Nat
  BY NodeType DEF PTWRegs, Node
<1> HIDE DEF k
<1>2. times * k \in Nat /\ (times = 0 => times * k = 0)
  BY <1>1
<1>3. ASSUME NEW j \in 1 .. times * k PROVE S(j) \in Snippet
  <2>1. k # 0
    <3>1. k = 0 => times * k = 0
      BY <1>1
    <3> QED BY <3>1, <1>2
  <2>2. (j - 1) % k \in Nat
    BY <1>1, <2>1
  <2> QED BY <1>1, <2>2 DEF Snippet
<1>4. PTWs(i, times) = [j \in 1 .. times * k |-> S(j)]
  BY DEF PTWs, k
<1> DEFINE n == times * k
<1>5. n \in Nat /\ PTWs(i, times) = [j \in 1 .. n |-> S(j)]
  BY <1>2, <1>4
<1>6. \A j \in 1 .. n : S(j) \in Snippet /\ S(j).node = i
  BY <1>3
<1>7. times = 0 => n = 0
  BY <1>2
<1> HIDE DEF n, S
<1> QED BY <1>5, <1>6, <1>7 DEF NodesOf

LEMMA InsertedNodes ==
  ASSUME ClassType, snippets \in [Addrs(routine) -> Seq(Snippet)],
         NEW i \in DOMAIN routine, NEW times \in Nat, Insert(i, times)
  PROVE  /\ snippets' \in [Addrs(routine) -> Seq(Snippet)]
         /\ \A a \in Addrs(routine) :
              /\ a # routine[i].addr \/ times = 0 =>
                   NodesOf(snippets'[a]) = NodesOf(snippets[a])
              /\ NodesOf(snippets'[a]) \subseteq NodesOf(snippets[a]) \cup {i}
<1> DEFINE c == routine[i].addr
           more == PTWs(i, times)
<1>1. c \in Addrs(routine)
  BY DEF Addrs
<1>2. more \in Seq(Snippet) /\ NodesOf(more) \subseteq {i} /\ (times = 0 => NodesOf(more) = {})
  BY PTWsType
<1>3. \/ snippets' = [snippets EXCEPT ![c] = @ \o more]
      \/ snippets' = snippets
  BY DEF Insert
<1> HIDE DEF c, more
<1>4. snippets[c] \in Seq(Snippet)
  BY <1>1
<1>5. /\ snippets[c] \o more \in Seq(Snippet)
      /\ NodesOf(snippets[c] \o more) = NodesOf(snippets[c]) \cup NodesOf(more)
  <2> DEFINE s == snippets[c]
             n == Len(s)
             m == Len(more)
             out == s \o more
  <2>1. /\ n \in Nat /\ m \in Nat /\ DOMAIN s = 1 .. n /\ DOMAIN more = 1 .. m
        /\ DOMAIN out = 1 .. n + m
        /\ \A j \in 1 .. n : out[j] = s[j]
        /\ \A j \in n + 1 .. n + m : out[j] = more[j - n]
    BY <1>2, <1>4, ConcatProperties
  <2>2. out \in Seq(Snippet)
    BY <1>2, <1>4
  <2> HIDE DEF s, n, m, out
  <2>3. \A j \in 1 .. m : n + j \in n + 1 .. n + m /\ (n + j) - n = j
    BY <2>1
  <2>4. \A j \in 1 .. m : out[n + j] = more[j] /\ n + j \in DOMAIN out
    BY <2>1, <2>3
  <2>5. \A j \in n + 1 .. n + m : j - n \in 1 .. m
    BY <2>1
  <2>6. NodesOf(out) \subseteq NodesOf(s) \cup NodesOf(more)
    <3> SUFFICES ASSUME NEW j \in DOMAIN out
                 PROVE  out[j].node \in NodesOf(s) \cup NodesOf(more)
      BY DEF NodesOf
    <3>1. CASE j \in 1 .. n
      BY <2>1, <3>1 DEF NodesOf
    <3>2. CASE j \in n + 1 .. n + m
      BY <2>1, <2>5, <3>2 DEF NodesOf
    <3> QED BY <2>1, <3>1, <3>2
  <2>7. NodesOf(s) \subseteq NodesOf(out)
    BY <2>1 DEF NodesOf
  <2>8. NodesOf(more) \subseteq NodesOf(out)
    <3> SUFFICES ASSUME NEW j \in 1 .. m PROVE more[j].node \in NodesOf(out)
      BY <2>1 DEF NodesOf
    <3>1. out[n + j] = more[j] /\ n + j \in DOMAIN out
      BY <2>4
    <3>2. out[n + j].node \in NodesOf(out)
      BY <3>1 DEF NodesOf
    <3> QED BY <3>1, <3>2
  <2>9. NodesOf(out) = NodesOf(s) \cup NodesOf(more)
    BY <2>6, <2>7, <2>8
  <2> QED BY <2>2, <2>9 DEF s, out
<1>6. CASE snippets' = snippets
  BY <1>6
<1>7. CASE snippets' = [snippets EXCEPT ![c] = @ \o more]
  <2>1. snippets' \in [Addrs(routine) -> Seq(Snippet)]
    BY <1>1, <1>5, <1>7
  <2>2. snippets'[c] = snippets[c] \o more
    BY <1>1, <1>7
  <2>3. \A a \in Addrs(routine) : a # c => snippets'[a] = snippets[a]
    BY <1>7
  <2>4. NodesOf(snippets'[c]) = NodesOf(snippets[c]) \cup NodesOf(more)
    BY <1>5, <2>2
  <2> QED BY <1>2, <2>1, <2>3, <2>4 DEF c
<1> QED BY <1>3, <1>6, <1>7

\* An instruction is instrumented: its lines are added with its ptwrites.
LEMMA Instrumented ==
  ASSUME IInv, PtwsInv, routine' = routine,
         NEW i \in DOMAIN routine, NEW times \in Nat, Insert(i, times),
         NEW more \in Seq(Line), lines' = lines \o more,
         times > 0 => more # << >>,
         \A j \in DOMAIN more : more[j].addr = routine[i].addr,
         pass >= 2, pass' = pass,
         pass = 2 => i = pos /\ pos' = pos + 1,
         \A j \in DOMAIN more : more[j].class # 0 =>
           /\ pass = 2
           /\ \A n \in DOMAIN routine :
                n <= pos /\ Known(n) /\ routine[n].addr = routine[i].addr =>
                  routine[more[j].of].addr = routine[i].addr
  PROVE  /\ snippets' \in [Addrs(routine) -> Seq(Snippet)]
         /\ \A a \in Addrs(routine) : LineOfPtws(a)'
<1> DEFINE c == routine[i].addr
<1>1. ClassType /\ lines \in Seq(Line) /\ i \in Nat
  BY NodeType DEF IInv, ClassType
<1>2. /\ snippets' \in [Addrs(routine) -> Seq(Snippet)]
      /\ \A a \in Addrs(routine) :
           /\ a # c \/ times = 0 => NodesOf(snippets'[a]) = NodesOf(snippets[a])
           /\ NodesOf(snippets'[a]) \subseteq NodesOf(snippets[a]) \cup {i}
  BY <1>1, InsertedNodes DEF PtwsInv
<1>3. SUFFICES ASSUME NEW a \in Addrs(routine) PROVE LineOfPtws(a)'
  BY <1>2
<1>4. LineOfPtws(a)
  BY DEF PtwsInv
<1> DEFINE old == NodesOf(snippets[a])
           new == NodesOf(snippets'[a])
<1>5. /\ a # c \/ more = << >> =>
           /\ LinesAt(lines', a) = LinesAt(lines, a)
           /\ LinesAt(lines, a) # {} => LastLine(lines', a) = LastLine(lines, a)
      /\ more # << >> => /\ LinesAt(lines', c) # {}
                         /\ LastLine(lines', c) = more[Len(more)]
  <2>1. /\ lines' = lines \o more /\ lines \in Seq(Line) /\ more \in Seq(Line)
        /\ \A j \in DOMAIN more : more[j].addr = c
    BY <1>1
  <2> HIDE DEF c
  <2>2. /\ a # c \/ more = << >> =>
             /\ LinesAt(lines \o more, a) = LinesAt(lines, a)
             /\ LinesAt(lines, a) # {} =>
                  LastLine(lines \o more, a) = LastLine(lines, a)
        /\ more # << >> => /\ LinesAt(lines \o more, c) # {}
                           /\ LastLine(lines \o more, c) = more[Len(more)]
    BY SMTT(30), <2>1, LastLineMore
  <2> QED BY <2>1, <2>2
<1>6. /\ a # c \/ times = 0 => new = old
      /\ new \subseteq old \cup {i}
  BY <1>2
<1>7. pass \in Nat /\ pos \in Nat
  BY <1>1 DEF ClassType
<1>8. /\ \A n \in old : n \in DOMAIN routine /\ routine[n].addr = a
      /\ \A n \in old : pass = 2 => n < pos
      /\ old # {} => LinesAt(lines, a) # {}
      /\ LinesAt(lines, a) # {} /\ LastLine(lines, a).class # 0 =>
           \A n \in old : Known(n) => routine[LastLine(lines, a).of].addr = a
  BY <1>4 DEF LineOfPtws
<1> SUFFICES /\ \A n \in new : n \in DOMAIN routine /\ routine[n].addr = a
             /\ \A n \in new : pass' = 2 => n < pos'
             /\ new # {} => LinesAt(lines', a) # {}
             /\ LinesAt(lines', a) # {} /\ LastLine(lines', a).class # 0 =>
                  \A n \in new : Known(n) => routine[LastLine(lines', a).of].addr = a
  BY <1>7 DEF LineOfPtws, Known
<1> HIDE DEF old, new
<1>9. ASSUME a # c \/ more = << >>
      PROVE  /\ new = old
             /\ LinesAt(lines', a) = LinesAt(lines, a)
             /\ LinesAt(lines, a) # {} => LastLine(lines', a) = LastLine(lines, a)
  BY <1>5, <1>6, <1>9
<1>10. CASE a # c \/ more = << >>
  <2>1. \A n \in new : pass' = 2 => n < pos'
    <3> SUFFICES ASSUME NEW n \in new, pass = 2 PROVE n < pos'
      OBVIOUS
    <3>1. n \in DOMAIN routine /\ n < pos /\ pos' = pos + 1
      BY <1>8, <1>9, <1>10
    <3>2. n \in Nat
      BY <1>1, <3>1, NodeType
    <3> QED BY <1>7, <3>1, <3>2
  <2> QED BY <1>8, <1>9, <1>10, <2>1
<1>11. CASE a = c /\ more # << >>
  <2>1. \A n \in new : n \in DOMAIN routine /\ routine[n].addr = a
    BY <1>6, <1>8, <1>11
  <2>2. \A n \in new : pass = 2 => n <= pos /\ n < pos'
    <3>1. \A n \in new : n \in Nat
      BY <1>1, <2>1, NodeType
    <3> QED BY <1>6, <1>7, <1>8, <3>1
  <2>3. Len(more) \in DOMAIN more
    BY <1>11
  <2>4. LastLine(lines', a) = more[Len(more)] /\ LinesAt(lines', a) # {}
    BY <1>5, <1>11
  <2>5. ASSUME LastLine(lines', a).class # 0, NEW n \in new, Known(n)
        PROVE  routine[LastLine(lines', a).of].addr = a
    <3>1. more[Len(more)].class # 0
      BY <2>4, <2>5
    <3>2. pass = 2
      BY <2>3, <3>1
    <3>3. n \in DOMAIN routine /\ n <= pos /\ routine[n].addr = c
      BY <1>11, <2>1, <2>2, <2>5, <3>2
    <3>4. routine[more[Len(more)].of].addr = c
      BY <2>3, <2>5, <3>1, <3>3
    <3> QED BY <1>11, <2>4, <3>4
  <2> QED BY <2>1, <2>2, <2>4, <2>5
<1> QED BY <1>10, <1>11

\* The offset pass 2 holds at a node is that of its instruction, if a node of
\* the instruction that has one came before or is this one.
LEMMA OffsetOfInstruction ==
  ASSUME IInv, PtwsInv, pass = 2, pos \in DOMAIN routine,
         NEW n \in DOMAIN routine, n <= pos, Known(n),
         routine[n].addr = routine[pos].addr
  PROVE  routine[DispAfter(pos)].addr = routine[pos].addr
<1>1. pos \in Nat /\ n \in Nat /\ ClassType
  BY NodeType DEF IInv
<1>2. CASE Known(pos)
  BY <1>2 DEF DispAfter, Known
<1>3. CASE ~Known(pos)
  <2>1. DispAfter(pos) = disp
    BY <1>3 DEF DispAfter, Known
  <2>2. n < pos
    BY <1>1, <1>3
  <2>3. disp < pos /\ (disp # 0 => disp \in DOMAIN routine) /\ n <= disp /\ disp \in Nat
    BY <1>1, <2>2 DEF PtwsInv, OffsetHeld, ClassType
  <2>4. disp \in DOMAIN routine
    BY <2>3, <1>1, NodeType
  <2>5. CASE disp = n
    BY <2>1, <2>5
  <2>6. CASE n < disp
    <3>1. \A i, j, k \in DOMAIN routine :
            i < j /\ j < k /\ routine[i].addr = routine[k].addr =>
              routine[j].addr = routine[i].addr
      BY ExtractionAssumption DEF ExtractionAssumption, PtwsInv
    <3>2. n < disp /\ disp < pos
      BY <2>3, <2>6
    <3>3. routine[disp].addr = routine[n].addr
      BY <2>4, <3>1, <3>2
    <3> QED BY <2>1, <3>3
  <2>7. disp = n \/ n < disp
    BY <1>1, <2>3
  <2> QED BY <2>5, <2>6, <2>7
<1> QED BY <1>2, <1>3

\* Visiting a node in pass 2.
LEMMA OffsetStep ==
  ASSUME IInv, PtwsInv, pass = 2, pos \in DOMAIN routine, routine' = routine,
         pass' = pass, pos' = pos + 1, disp' = DispAfter(pos)
  PROVE  OffsetHeld'
<1>1. pos \in Nat /\ ClassType /\ pass \in Nat /\ disp \in Nat /\ pos > 0
  BY NodeType DEF IInv, ClassType
<1>2. disp < pos /\ (disp # 0 => disp \in DOMAIN routine)
      /\ \A n \in DOMAIN routine : n < pos /\ Known(n) => n <= disp
  BY DEF PtwsInv, OffsetHeld
<1>3. \A n \in DOMAIN routine : n \in Nat
  BY <1>1, NodeType
<1>4. CASE Known(pos)
  <2>1. disp' = pos
    BY <1>4 DEF DispAfter, Known
  <2> QED BY <1>1, <1>3, <2>1 DEF OffsetHeld, Known
<1>5. CASE ~Known(pos)
  <2>1. disp' = disp
    BY <1>5 DEF DispAfter, Known
  <2>2. \A n \in DOMAIN routine : n < pos + 1 /\ Known(n) => n <= disp
    <3> SUFFICES ASSUME NEW n \in DOMAIN routine, n < pos + 1, Known(n)
                 PROVE  n <= disp
      OBVIOUS
    <3>1. n < pos \/ n = pos
      BY <1>1, <1>3
    <3> QED BY <1>2, <1>5, <3>1
  <2> QED BY <1>1, <1>2, <2>1, <2>2 DEF OffsetHeld, Known
<1> QED BY <1>4, <1>5

\* The lines and ptwrites stay, between the passes or while loads are counted.
LEMMA PtwsSame ==
  ASSUME IInv, PtwsInv, UNCHANGED <<routine, snippets, lines>>,
         \/ pass' = pass /\ pass = 1 /\ pos' = pos + 1 /\ disp' = disp
         \/ pass' = pass /\ pass = 2 /\ pos' = pos + 1
         \/ pass' = 2 /\ pass = 1 /\ pos' = 1 /\ disp' = disp
         \/ pass' >= 3 /\ pass' \in 1 .. 5 /\ pass >= 2
  PROVE  \A a \in Addrs(routine) : LineOfPtws(a)'
<1> SUFFICES ASSUME NEW a \in Addrs(routine) PROVE LineOfPtws(a)'
  OBVIOUS
<1>1. pass \in Nat /\ pass' \in Nat /\ pos \in Nat /\ ClassType
  BY DEF IInv, ClassType
<1>2. LineOfPtws(a)
  BY DEF PtwsInv
<1>3. /\ NodesOf(snippets'[a]) = NodesOf(snippets[a])
      /\ LinesAt(lines', a) = LinesAt(lines, a)
      /\ LastLine(lines', a) = LastLine(lines, a)
  OBVIOUS
<1>4. \A n \in NodesOf(snippets[a]) : n \in Nat
  BY <1>1, <1>2, NodeType DEF LineOfPtws
<1>5. \A n \in NodesOf(snippets[a]) : pass' = 2 => n < pos'
  BY <1>1, <1>2, <1>4 DEF LineOfPtws
<1>6. pass' < 2 => NodesOf(snippets[a]) = {}
  BY <1>1, <1>2 DEF LineOfPtws
<1> QED BY <1>2, <1>3, <1>5, <1>6 DEF LineOfPtws, Known

LEMMA PtwsOfCount ==
  ASSUME IInv, PtwsInv, CountNode
  PROVE  PtwsInv'
<1>1. /\ UNCHANGED <<routine, snippets, lines>> /\ disp' = disp
      /\ pass' = pass /\ pass = 1 /\ pos' = pos + 1
  BY DEF CountNode, fileVars
<1>2. \A a \in Addrs(routine) : LineOfPtws(a)'
  BY <1>1, PtwsSame
<1>3. OffsetHeld'
  <2>1. pos \in Nat
    BY DEF IInv, ClassType
  <2> QED BY <1>1, <2>1 DEF PtwsInv, OffsetHeld
<1> QED BY <1>1, <1>2, <1>3 DEF PtwsInv, Addrs

LEMMA PtwsOfNext ==
  ASSUME IInv, PtwsInv, NextPass \/ NextLeftover \/ EndScan \/ EndPass3
  PROVE  PtwsInv'
<1>1. UNCHANGED <<routine, snippets, lines, disp>>
  BY DEF NextPass, NextLeftover, EndScan, EndPass3, fileVars
<1>2. pass \in 1 .. 5 /\ ClassType /\ (scanning => pass = 3)
  BY DEF IInv, ClassType, FirstScan
<1>3. \/ pass' = 2 /\ pass = 1 /\ pos' = 1
      \/ pass' \in {3, 4} /\ pass >= 2
  BY <1>2 DEF NextPass, NextLeftover, EndScan, EndPass3, passVars
<1>4. \A a \in Addrs(routine) : LineOfPtws(a)'
  BY <1>1, <1>2, <1>3, PtwsSame
<1>5. OffsetHeld'
  <2>1. CASE pass' = 2 /\ pass = 1 /\ pos' = 1
    <3>1. disp' = 0
      BY <1>1, <2>1 DEF PtwsInv, OffsetHeld
    <3>2. \A n \in DOMAIN routine : ~(n < 1)
      BY <1>2, NodeType
    <3> QED BY <1>1, <2>1, <3>1, <3>2 DEF OffsetHeld
  <2>2. CASE pass' \in {3, 4}
    BY <2>2 DEF OffsetHeld
  <2> QED BY <1>3, <2>1, <2>2
<1>6. pass' # 5
  BY <1>3
<1> QED BY <1>1, <1>4, <1>5, <1>6 DEF PtwsInv, Addrs

LEMMA PtwsOfFix ==
  ASSUME IInv, PtwsInv, Fix
  PROVE  PtwsInv'
<1>1. /\ UNCHANGED <<routine, snippets, lines, disp, pos>> /\ pass = 4 /\ pass' = 5
      /\ fixed' = [a \in Addrs(lines) |-> lines[Kept(a)]]
  BY DEF Fix, fileVars
<1>2. \A a \in Addrs(routine) : LineOfPtws(a)'
  BY <1>1, PtwsSame
<1>3. OffsetHeld'
  BY <1>1 DEF OffsetHeld
<1> QED BY <1>1, <1>2, <1>3 DEF PtwsInv, Addrs, Kept, LineIndices

LEMMA PtwsOfFrame ==
  ASSUME IInv, PtwsInv, VisitFrame
  PROVE  PtwsInv'
<1> DEFINE n == routine[pos]
           k == IF Selected(n) /\ mo.frame THEN FrameLoads(n) ELSE 0
           line == [addr |-> n.addr, class |-> IF n.type = "load" THEN 0 ELSE 90,
                    of |-> DispAfter(pos), skips |-> 0, block |-> n.block]
           more == [c \in 1 .. k |-> line]
<1>1. /\ pass = 2 /\ pass' = pass /\ pos \in DOMAIN routine /\ pos' = pos + 1
      /\ routine' = routine /\ disp' = DispAfter(pos)
      /\ lines' = lines \o more /\ Insert(pos, k)
  BY DEF VisitFrame
<1>2. n \in Node /\ n.block \in Blocks /\ n.addr \in Nat /\ k \in Nat /\ pos \in Nat
  BY <1>1, NodeType DEF IInv
<1>3. line \in Line
  BY <1>2 DEF Line, DispAfter, IInv, ClassType
<1>4. more \in Seq(Line) /\ (k > 0 => more # << >>) /\ \A j \in DOMAIN more : more[j] = line
  <2> HIDE DEF line, k
  <2>1. more \in Seq(Line) /\ \A j \in DOMAIN more : more[j] = line
    BY <1>2, <1>3
  <2>2. k > 0 => 1 \in DOMAIN more
    BY <1>2
  <2> QED BY <2>1, <2>2
<1>5. line.addr = n.addr /\ line.of = DispAfter(pos)
  OBVIOUS
<1> HIDE DEF line, k, more
<1>6. \A j \in DOMAIN more :
        /\ more[j].addr = routine[pos].addr
        /\ pass = 2
        /\ \A m \in DOMAIN routine :
             m <= pos /\ Known(m) /\ routine[m].addr = routine[pos].addr =>
               routine[more[j].of].addr = routine[pos].addr
  BY <1>1, <1>4, <1>5, OffsetOfInstruction
<1>7. /\ snippets' \in [Addrs(routine) -> Seq(Snippet)]
      /\ \A a \in Addrs(routine) : LineOfPtws(a)'
  BY SMTT(30), <1>1, <1>2, <1>4, <1>6, Instrumented
<1>8. OffsetHeld'
  BY <1>1, OffsetStep
<1> QED BY <1>1, <1>7, <1>8 DEF PtwsInv, Addrs

LEMMA PtwsOfAccess ==
  ASSUME IInv, PtwsInv, VisitAccess
  PROVE  PtwsInv'
<1> DEFINE n == routine[pos]
           b == n.block
           class == IF n.ref = "strided" THEN 1 ELSE 2
           line == [addr |-> n.addr, class |-> class, of |-> DispAfter(pos),
                    skips |-> count[b], block |-> b]
           more == <<line>>
<1>1. /\ pass = 2 /\ pass' = pass /\ pos \in DOMAIN routine /\ pos' = pos + 1
      /\ routine' = routine /\ disp' = DispAfter(pos)
      /\ \/ lines' = Append(lines, line) /\ Insert(pos, 1)
         \/ UNCHANGED <<lines, snippets>>
  BY DEF VisitAccess
<1>2. n \in Node /\ b \in Blocks /\ n.addr \in Nat /\ pos \in Nat /\ count[b] \in Nat
  BY <1>1, NodeType DEF IInv, ClassType
<1>3. line \in Line
  BY <1>2 DEF Line, DispAfter, IInv, ClassType
<1>4. OffsetHeld'
  BY <1>1, OffsetStep
<1>5. line.addr = n.addr /\ line.of = DispAfter(pos)
  OBVIOUS
<1> HIDE DEF line, b, class
<1>6. CASE lines' = Append(lines, line) /\ Insert(pos, 1)
  <2>1. /\ more \in Seq(Line) /\ more # << >> /\ lines' = lines \o more
        /\ DOMAIN more = {1} /\ more[1] = line
    BY <1>3, <1>6, AppendIsConcat DEF IInv, ClassType
  <2> HIDE DEF more
  <2>2. \A j \in DOMAIN more :
          /\ more[j].addr = routine[pos].addr
          /\ pass = 2
          /\ \A m \in DOMAIN routine :
               m <= pos /\ Known(m) /\ routine[m].addr = routine[pos].addr =>
                 routine[more[j].of].addr = routine[pos].addr
    BY <1>1, <1>5, <2>1, OffsetOfInstruction
  <2>3. /\ snippets' \in [Addrs(routine) -> Seq(Snippet)]
        /\ \A a \in Addrs(routine) : LineOfPtws(a)'
    <3> DEFINE once == 1
    <3>1. once \in Nat /\ Insert(pos, once) /\ (once > 0 => more # << >>)
      BY <1>6, <2>1
    <3> HIDE DEF once
    <3> QED BY SMTT(30), <1>1, <2>1, <2>2, <3>1, Instrumented
  <2> QED BY <1>1, <1>4, <2>3 DEF PtwsInv, Addrs
<1>7. CASE UNCHANGED <<lines, snippets>>
  <2>1. \A a \in Addrs(routine) : LineOfPtws(a)'
    BY <1>1, <1>7, PtwsSame
  <2> QED BY <1>1, <1>4, <1>7, <2>1 DEF PtwsInv, Addrs
<1> QED BY <1>1, <1>6, <1>7

LEMMA PtwsOfScan ==
  ASSUME IInv, PtwsInv, ScanNode
  PROVE  PtwsInv'
<1> DEFINE n == routine[lnit]
           b == n.block
           k == FrameLoads(n)
           Copy(j) == [addr |-> n.addr, class |-> 0, of |-> 0, block |-> b,
                       skips |-> IF j = 1 THEN count[b] - 1 ELSE 0 - 1]
           more == [j \in 1 .. k |-> Copy(j)]
<1>1. /\ lnit \in DOMAIN routine /\ scanning /\ pass' = pass
      /\ routine' = routine /\ UNCHANGED <<disp, pos>>
      /\ \/ lines' = lines \o more /\ Insert(lnit, k)
         \/ UNCHANGED <<lines, snippets>>
  BY DEF ScanNode, passVars
<1>2. pass = 3
  BY <1>1 DEF IInv, FirstScan
<1>3. n \in Node /\ b \in Blocks /\ n.addr \in Nat /\ k \in Nat /\ count[b] \in Nat
  BY <1>1, NodeType DEF IInv, ClassType
<1>4. OffsetHeld'
  BY <1>1, <1>2 DEF OffsetHeld
<1>5. \A j \in 1 .. k : Copy(j) \in Line /\ Copy(j).addr = n.addr /\ Copy(j).class = 0
  BY <1>3 DEF Line
<1>6. CASE lines' = lines \o more /\ Insert(lnit, k)
  <2>1. more \in Seq(Line) /\ \A j \in DOMAIN more : j \in 1 .. k /\ more[j] = Copy(j)
    <3> HIDE DEF k, Copy
    <3> QED BY <1>3, <1>5
  <2>2. k > 0 => 1 \in DOMAIN more
    <3> HIDE DEF k, Copy
    <3> QED BY <1>3
  <2> HIDE DEF more, k, Copy
  <2>3. \A j \in DOMAIN more : more[j].addr = routine[lnit].addr /\ more[j].class = 0
    BY <1>5, <2>1
  <2>4. k > 0 => more # << >>
    BY <2>2
  <2>5. /\ snippets' \in [Addrs(routine) -> Seq(Snippet)]
        /\ \A a \in Addrs(routine) : LineOfPtws(a)'
    BY <1>1, <1>2, <1>3, <1>6, <2>1, <2>3, <2>4, Instrumented
  <2> QED BY <1>1, <1>2, <1>4, <2>5 DEF PtwsInv, Addrs
<1>7. CASE UNCHANGED <<lines, snippets>>
  <2>1. \A a \in Addrs(routine) : LineOfPtws(a)'
    BY <1>1, <1>2, <1>7, PtwsSame
  <2> QED BY <1>1, <1>2, <1>4, <1>7, <2>1 DEF PtwsInv, Addrs
<1> QED BY <1>1, <1>6, <1>7

LEMMA PtwsUnchanged ==
  ASSUME PtwsInv, UNCHANGED classVars
  PROVE  PtwsInv'
<1>1. /\ routine' = routine /\ snippets' = snippets /\ lines' = lines
      /\ pass' = pass /\ pos' = pos /\ disp' = disp /\ fixed' = fixed
  BY DEF classVars, passVars, fileVars
<1>2. \A a : LineOfPtws(a)' <=> LineOfPtws(a)
  BY <1>1 DEF LineOfPtws, Known
<1>3. OffsetHeld' <=> OffsetHeld
  BY <1>1 DEF OffsetHeld, Known
<1> QED BY <1>1, <1>2, <1>3 DEF PtwsInv, Kept, LineIndices

LEMMA PtwsStep ==
  ASSUME IInv, PtwsInv, ClassNext
  PROVE  PtwsInv'
BY PtwsOfCount, PtwsOfNext, PtwsOfFix, PtwsOfFrame, PtwsOfAccess, PtwsOfScan
   DEF ClassNext

LEMMA PtwsInit ==
  ASSUME ClassInit
  PROVE  PtwsInv
<1>1. routine \in Routines /\ pass = 1 /\ pos = 1 /\ disp = 0
  BY DEF ClassInit
<1>2. /\ snippets \in [Addrs(routine) -> Seq(Snippet)]
      /\ \A a \in Addrs(routine) : NodesOf(snippets[a]) = {}
  BY DEF ClassInit, NodesOf
<1>3. lines = << >>
  BY DEF ClassInit
<1>4. \A a \in Addrs(routine) : LineOfPtws(a)
  BY <1>1, <1>2, <1>3 DEF LineOfPtws, LinesAt
<1> QED BY <1>1, <1>2, <1>4 DEF PtwsInv, OffsetHeld

-----------------------------------------------------------------------------
(* The words of an execution.                                              *)

PtWord == [ip : Nat, addr : Nat, node : Nat, reg : Nat, exec : Nat]

\* A word of the instrumented program.
IsWord(w) ==
  /\ w.addr \in Addrs(routine)
  /\ \E k \in DOMAIN snippets[w.addr] :
       /\ w.ip = Reloc[w.addr] + PTWLen * (k - 1)
       /\ w.node = snippets[w.addr][k].node

StartsAccess(w) == w.ip = Reloc[w.addr]
Precedes(u, w)  == u.ip + PTWLen = w.ip /\ u.addr = w.addr /\ u.exec = w.exec
Follows(u, w)   == StartsAccess(w) \/ Precedes(u, w)

\* Words each in a place of its own: in front of each there is the word before
\* of its instruction, if there is one, and nothing in between.
OneExecution(W) ==
  /\ \A w \in W : w \in PtWord /\ IsWord(w)
  /\ \A v, w \in W : v.ip = w.ip => v = w
  /\ \A w \in W :
       \/ StartsAccess(w)
       \/ \E u \in W :
            Precedes(u, w) /\ \A v \in W : v.ip <= u.ip \/ w.ip <= v.ip

LEMMA Places ==
  ASSUME PtwsInv, Placed, NEW v, NEW w, IsWord(v), IsWord(w)
  PROVE  /\ v.ip \in Nat /\ w.ip \in Nat /\ Reloc[w.addr] \in Nat
         /\ v.ip > 5 /\ w.ip >= Reloc[w.addr]
         /\ v.ip = w.ip \/ v.ip + PTWLen = w.ip => v.addr = w.addr
         /\ v.addr = w.addr /\ v.ip < w.ip => v.ip + PTWLen <= w.ip
         /\ v.addr # w.addr /\ v.ip < w.ip => v.ip < Reloc[w.addr]
<1>1. /\ Addrs(routine) \subseteq DOMAIN Reloc
      /\ \A a \in DOMAIN Reloc : Reloc[a] \in Nat /\ Reloc[a] > 5
  BY ExtractionAssumption DEF ExtractionAssumption, PtwsInv
<1>2. snippets \in [Addrs(routine) -> Seq(Snippet)]
  BY DEF PtwsInv
<1> DEFINE a == v.addr
           c == w.addr
           m == Len(snippets[a])
           n == Len(snippets[c])
<1>3. a \in Addrs(routine) /\ c \in Addrs(routine)
  BY DEF IsWord
<1>4. m \in Nat /\ n \in Nat /\ DOMAIN snippets[a] = 1 .. m /\ DOMAIN snippets[c] = 1 .. n
  BY <1>2, <1>3
<1>5. PICK j \in 1 .. m : v.ip = Reloc[a] + PTWLen * (j - 1)
  BY <1>4 DEF IsWord
<1>6. PICK k \in 1 .. n : w.ip = Reloc[c] + PTWLen * (k - 1)
  BY <1>4 DEF IsWord
<1>7. a # c => \/ Reloc[a] + PTWLen * m < Reloc[c]
               \/ Reloc[c] + PTWLen * n < Reloc[a]
  BY <1>2, <1>3 DEF Placed
<1>8. /\ Reloc[a] \in Nat /\ Reloc[c] \in Nat /\ Reloc[a] > 5
      /\ j \in Nat /\ k \in Nat /\ 1 <= j /\ j <= m /\ 1 <= k /\ k <= n
  BY <1>1, <1>3, <1>4
<1> DEFINE x == Reloc[a]
           y == Reloc[c]
<1>9. /\ x \in Nat /\ y \in Nat /\ x > 5 /\ v.ip = x + 5 * (j - 1) /\ w.ip = y + 5 * (k - 1)
      /\ a # c => x + 5 * m < y \/ y + 5 * n < x
      /\ a = c => x = y
  BY <1>5, <1>6, <1>7, <1>8 DEF PTWLen
<1> HIDE DEF a, c, m, n, x, y
<1>10. /\ v.ip \in Nat /\ w.ip \in Nat /\ v.ip > 5 /\ w.ip >= y
  BY SMTT(30), <1>4, <1>8, <1>9
<1>11. v.ip = w.ip \/ v.ip + 5 = w.ip => a = c
  BY <1>4, <1>8, <1>9
<1>12. a = c /\ v.ip < w.ip => v.ip + 5 <= w.ip
  BY <1>4, <1>8, <1>9
<1>13. a # c /\ v.ip < w.ip => v.ip < y
  BY <1>4, <1>8, <1>9
<1> QED BY <1>9, <1>10, <1>11, <1>12, <1>13 DEF a, c, y, PTWLen

LEMMA ExecutionOfBlock ==
  ASSUME IInv, PtwsInv, Placed, NEW b, NEW e \in Nat
  PROVE  OneExecution(WordsOf(b, e))
<1> DEFINE W == WordsOf(b, e)
<1>1. snippets \in [Addrs(routine) -> Seq(Snippet)]
  BY DEF PtwsInv
<1>2. /\ Instructions(b) \subseteq Addrs(routine)
      /\ \A a \in Instructions(b) : a \in Nat
  BY NodeType DEF Instructions, Addrs, IInv
<1>3. /\ Addrs(routine) \subseteq DOMAIN Reloc
      /\ \A a \in DOMAIN Reloc : Reloc[a] \in Nat
  BY ExtractionAssumption DEF ExtractionAssumption, PtwsInv
<1>4. \A w \in W : \E a \in Instructions(b) : \E k \in DOMAIN snippets[a] : w = Word(a, k, e)
  BY DEF WordsOf
<1>5. \A a \in Instructions(b) : \A k \in DOMAIN snippets[a] : Word(a, k, e) \in W
  BY DEF WordsOf
<1>6. ASSUME NEW a \in Instructions(b), NEW k \in DOMAIN snippets[a]
      PROVE  /\ k \in Nat /\ k > 0 /\ Reloc[a] \in Nat /\ a \in Addrs(routine)
             /\ k # 1 => k - 1 \in DOMAIN snippets[a]
             /\ snippets[a][k] \in Snippet
             /\ Word(a, k, e) \in PtWord
             /\ Word(a, k, e).ip = Reloc[a] + PTWLen * (k - 1)
             /\ Word(a, k, e).addr = a /\ Word(a, k, e).exec = e
             /\ Word(a, k, e).node = snippets[a][k].node
  <2>1. snippets[a] \in Seq(Snippet) /\ a \in Nat /\ Reloc[a] \in Nat /\ a \in Addrs(routine)
    BY <1>1, <1>2, <1>3
  <2>2. /\ k \in Nat /\ k > 0 /\ snippets[a][k] \in Snippet
        /\ k # 1 => k - 1 \in DOMAIN snippets[a]
    BY <2>1
  <2>3. Reloc[a] + PTWLen * (k - 1) \in Nat
    BY <2>1, <2>2 DEF PTWLen
  <2> QED BY <2>1, <2>2, <2>3 DEF Word, PtWord, Snippet
<1> HIDE DEF W
<1>7. \A w \in W : w \in PtWord /\ IsWord(w)
  <2> SUFFICES ASSUME NEW w \in W PROVE w \in PtWord /\ IsWord(w)
    OBVIOUS
  <2>1. PICK a \in Instructions(b) : \E k \in DOMAIN snippets[a] : w = Word(a, k, e)
    BY <1>4
  <2>2. PICK k \in DOMAIN snippets[a] : w = Word(a, k, e)
    BY <2>1
  <2>3. /\ w.addr = a /\ a \in Addrs(routine) /\ w \in PtWord
        /\ w.ip = Reloc[a] + PTWLen * (k - 1) /\ w.node = snippets[a][k].node
    BY <1>6, <2>2
  <2> QED BY <2>2, <2>3 DEF IsWord
<1>8. ASSUME NEW v \in W, NEW w \in W, v.ip = w.ip PROVE v = w
  <2>1. PICK a \in Instructions(b) : \E k \in DOMAIN snippets[a] : v = Word(a, k, e)
    BY <1>4
  <2>2. PICK j \in DOMAIN snippets[a] : v = Word(a, j, e)
    BY <2>1
  <2>3. v.addr = a /\ v.ip = Reloc[a] + PTWLen * (j - 1) /\ j \in Nat /\ Reloc[a] \in Nat
    BY <1>6, <2>2
  <2>4. v.addr = w.addr
    BY <1>7, <1>8, Places
  <2>5. PICK c \in Instructions(b) : \E k \in DOMAIN snippets[c] : w = Word(c, k, e)
    BY <1>4
  <2>6. PICK k \in DOMAIN snippets[c] : w = Word(c, k, e)
    BY <2>5
  <2>7. w.addr = c /\ w.ip = Reloc[c] + PTWLen * (k - 1) /\ k \in Nat
    BY <1>6, <2>6
  <2>8. a = c
    BY <2>3, <2>4, <2>7
  <2>9. j = k
    <3> DEFINE x == Reloc[a]
    <3>1. x \in Nat /\ j \in Nat /\ k \in Nat /\ x + 5 * (j - 1) = x + 5 * (k - 1)
      BY <1>8, <2>3, <2>7, <2>8 DEF PTWLen
    <3> HIDE DEF x
    <3> QED BY <3>1
  <2> QED BY <2>2, <2>6, <2>8, <2>9
<1>9. ASSUME NEW w \in W
      PROVE  \/ StartsAccess(w)
             \/ \E u \in W :
                  Precedes(u, w) /\ \A v \in W : v.ip <= u.ip \/ w.ip <= v.ip
  <2>1. PICK a \in Instructions(b) : \E k \in DOMAIN snippets[a] : w = Word(a, k, e)
    BY <1>4
  <2>2. PICK k \in DOMAIN snippets[a] : w = Word(a, k, e)
    BY <2>1
  <2>3. /\ w.addr = a /\ w.ip = Reloc[a] + PTWLen * (k - 1) /\ w.exec = e
        /\ k \in Nat /\ k > 0 /\ Reloc[a] \in Nat /\ (k # 1 => k - 1 \in DOMAIN snippets[a])
    BY <1>6, <2>2
  <2>4. CASE k = 1
    <3>1. w.ip = Reloc[a]
      BY <2>3, <2>4 DEF PTWLen
    <3> QED BY <2>3, <3>1 DEF StartsAccess
  <2>5. CASE k # 1
    <3> DEFINE u == Word(a, k - 1, e)
    <3>1. u \in W
      BY <1>5, <2>3, <2>5
    <3>2. u.addr = a /\ u.ip = Reloc[a] + PTWLen * ((k - 1) - 1) /\ u.exec = e
      BY <1>6, <2>3, <2>5
    <3> HIDE DEF u
    <3>3. u.ip + PTWLen = w.ip
      BY <2>3, <3>2 DEF PTWLen
    <3>4. Precedes(u, w)
      BY <2>3, <3>2, <3>3 DEF Precedes
    <3>5. ASSUME NEW v \in W PROVE v.ip <= u.ip \/ w.ip <= v.ip
      <4>1. SUFFICES ASSUME ~(v.ip <= u.ip), ~(w.ip <= v.ip) PROVE FALSE
        OBVIOUS
      <4>2. IsWord(u) /\ IsWord(v) /\ IsWord(w)
        BY <1>7, <3>1
      <4>3. /\ v.ip \in Nat /\ w.ip \in Nat /\ u.ip \in Nat /\ Reloc[w.addr] \in Nat
            /\ v.addr # w.addr /\ v.ip < w.ip => v.ip < Reloc[w.addr]
        BY <4>2, Places
      <4>4. /\ u.ip >= Reloc[u.addr]
            /\ u.addr = v.addr /\ u.ip < v.ip => u.ip + PTWLen <= v.ip
        BY <4>2, Places
      <4>5. u.ip < v.ip /\ v.ip < w.ip
        BY <4>1, <4>3
      <4>6. CASE v.addr = w.addr
        BY <2>3, <3>2, <3>3, <4>3, <4>4, <4>5, <4>6
      <4>7. CASE v.addr # w.addr
        BY <2>3, <3>2, <4>3, <4>4, <4>5, <4>7
      <4> QED BY <4>6, <4>7
    <3> QED BY <3>1, <3>4, <3>5
  <2> QED BY <2>4, <2>5
<1> QED BY <1>7, <1>8, <1>9 DEF OneExecution, W

-----------------------------------------------------------------------------
(* The recorded stream.                                                    *)

PtLine == [kind : {"word"}, sample : Nat, ip : Nat, addr : Nat, node : Nat,
           reg : Nat, exec : Nat]
            \cup [kind : {"callpath"}, sample : Nat]

\* The lines of the script: samples in order, a call path at the start of each,
\* and a word directly after the one that comes before it in the program.
Recorded(t) ==
  /\ t \in Seq(PtLine)
  /\ \A i \in DOMAIN t : t[i].sample \in Nat /\ (t[i].kind = "word" => IsWord(t[i]))
  /\ \A i, j \in DOMAIN t :
       i < j => /\ t[i].sample <= t[j].sample
                /\ t[j].kind = "callpath" => t[i].sample < t[j].sample
  /\ \A i \in DOMAIN t :
       i + 1 \in DOMAIN t /\ t[i].kind = "word" /\ t[i + 1].kind = "word" =>
         Follows(t[i], t[i + 1])

\* The running block has a tail of its words still to write; the last line is
\* what comes before them, if it is a word.
StillAhead(W) ==
  /\ OneExecution(W)
  /\ ahead \subseteq W
  /\ \A w \in ahead, v \in W : w.ip < v.ip => v \in ahead
  /\ ptTrace # << >> /\ ptTrace[Len(ptTrace)].kind = "word" =>
       \A w \in ahead :
         (\A v \in ahead : w.ip <= v.ip) => Follows(ptTrace[Len(ptTrace)], w)

StreamInv ==
  /\ stage \in {"build", "run", "normalize", "done"}
  /\ stage = "build" => ahead = {} /\ ptTrace = << >>
  /\ stage # "build" => pass = 5 /\ Placed
  /\ runs \in Seq(Blocks)
  /\ sampleCnt \in Nat
  /\ Recorded(ptTrace)
  /\ \A i \in DOMAIN ptTrace : ptTrace[i].sample <= sampleCnt
  /\ ptTrace # << >> /\ ptTrace[Len(ptTrace)].kind = "word" => recording
  /\ \E W : StillAhead(W)

LEMMA RecordedMore ==
  ASSUME NEW t, Recorded(t), NEW l \in PtLine, l.kind = "word" => IsWord(l),
         l.sample \in Nat,
         \A i \in DOMAIN t : /\ t[i].sample <= l.sample
                             /\ l.kind = "callpath" => t[i].sample < l.sample,
         t # << >> /\ t[Len(t)].kind = "word" /\ l.kind = "word" => Follows(t[Len(t)], l)
  PROVE  /\ Recorded(Append(t, l))
         /\ Append(t, l) # << >> /\ Append(t, l)[Len(Append(t, l))] = l
         /\ \A i \in DOMAIN Append(t, l) : (i \in DOMAIN t /\ Append(t, l)[i] = t[i])
                                           \/ Append(t, l)[i] = l
<1> DEFINE s == Append(t, l)
           n == Len(t)
<1>1. t \in Seq(PtLine)
  BY DEF Recorded
<1>2. /\ n \in Nat /\ DOMAIN t = 1 .. n /\ DOMAIN s = 1 .. n + 1 /\ Len(s) = n + 1
      /\ s \in Seq(PtLine) /\ s[n + 1] = l /\ \A i \in 1 .. n : s[i] = t[i]
      /\ t = << >> <=> n = 0
  BY <1>1
<1> HIDE DEF s, n
<1>3. s # << >>
  BY <1>2
<1>4. /\ \A i \in 1 .. n : t[i].sample \in Nat /\ (t[i].kind = "word" => IsWord(t[i]))
      /\ \A i, j \in 1 .. n :
           i < j => /\ t[i].sample <= t[j].sample
                    /\ t[j].kind = "callpath" => t[i].sample < t[j].sample
      /\ \A i \in 1 .. n :
           i + 1 \in 1 .. n /\ t[i].kind = "word" /\ t[i + 1].kind = "word" =>
             Follows(t[i], t[i + 1])
      /\ \A i \in 1 .. n : /\ t[i].sample <= l.sample
                           /\ l.kind = "callpath" => t[i].sample < l.sample
  BY <1>2 DEF Recorded
<1>5. \A i \in 1 .. n + 1 : i \in 1 .. n \/ i = n + 1
  BY <1>2
<1>6. \A i \in 1 .. n + 1 : s[i].sample \in Nat /\ (s[i].kind = "word" => IsWord(s[i]))
  BY <1>2, <1>4, <1>5
<1>7. ASSUME NEW i \in 1 .. n + 1, NEW j \in 1 .. n + 1, i < j
      PROVE  /\ s[i].sample <= s[j].sample
             /\ s[j].kind = "callpath" => s[i].sample < s[j].sample
  <2>1. i \in 1 .. n /\ s[i] = t[i]
    BY <1>2, <1>7
  <2>2. CASE j \in 1 .. n
    BY <1>2, <1>4, <1>7, <2>1, <2>2
  <2>3. CASE j = n + 1
    BY <1>2, <1>4, <2>1, <2>3
  <2> QED BY <1>5, <2>2, <2>3
<1>8. ASSUME NEW i \in 1 .. n + 1, i + 1 \in 1 .. n + 1,
             s[i].kind = "word", s[i + 1].kind = "word"
      PROVE  Follows(s[i], s[i + 1])
  <2>1. i \in 1 .. n /\ s[i] = t[i]
    BY <1>2, <1>8
  <2>2. CASE i + 1 \in 1 .. n
    <3>1. s[i + 1] = t[i + 1]
      BY <1>2, <2>2
    <3> QED BY <1>4, <1>8, <2>1, <2>2, <3>1
  <2>3. CASE i + 1 = n + 1
    <3>1. i = n /\ s[i + 1] = l /\ t # << >>
      BY <1>2, <2>1, <2>3
    <3> QED BY <1>8, <2>1, <3>1 DEF n
  <2> QED BY <1>5, <1>8, <2>2, <2>3
<1>9. Recorded(s)
  BY <1>2, <1>6, <1>7, <1>8 DEF Recorded
<1> QED BY <1>2, <1>3, <1>5, <1>9 DEF s

LEMMA StreamInit ==
  ASSUME Init
  PROVE  StreamInv
<1>1. /\ stage = "build" /\ ahead = {} /\ ptTrace = << >> /\ runs = << >> /\ sampleCnt = 0
  BY DEF Init
<1>2. Recorded(ptTrace)
  BY <1>1 DEF Recorded
<1>3. StillAhead({})
  BY <1>1 DEF StillAhead, OneExecution
<1>4. runs \in Seq(Blocks)
  BY <1>1
<1> QED BY <1>1, <1>2, <1>3, <1>4 DEF StreamInv

\* Whatever leaves the routine and the stream alone.
LEMMA StreamSame ==
  ASSUME StreamInv, UNCHANGED <<routine, snippets, pass, runVars>>,
         stage' \in {"build", "run", "normalize", "done"},
         stage' = "build" => stage = "build",
         stage' # "build" => pass = 5 /\ Placed
  PROVE  StreamInv'
<1>1. UNCHANGED <<runs, ahead, recording, sampleCnt, ptTrace>>
  BY DEF runVars
<1>2. \A w : IsWord(w)' <=> IsWord(w)
  BY DEF IsWord, Addrs
<1>3. Recorded(ptTrace)' <=> Recorded(ptTrace)
  BY <1>1, <1>2 DEF Recorded
<1>4. \A W : OneExecution(W)' <=> OneExecution(W)
  BY <1>2 DEF OneExecution
<1>5. \A W : StillAhead(W)' <=> StillAhead(W)
  BY <1>1, <1>4 DEF StillAhead
<1>6. Placed' <=> Placed
  BY DEF Placed
<1> QED BY <1>1, <1>3, <1>5, <1>6 DEF StreamInv

LEMMA StreamOfBuild ==
  ASSUME StreamInv, Build
  PROVE  StreamInv'
<1>1. CASE ClassNext /\ UNCHANGED stage
  <2>1. /\ stage = "build" /\ stage' = "build"
        /\ UNCHANGED <<runs, ahead, recording, sampleCnt, ptTrace>>
    BY <1>1 DEF Build, runVars
  <2>2. ahead' = {} /\ ptTrace' = << >>
    BY <2>1 DEF StreamInv
  <2>3. Recorded(ptTrace)'
    BY <2>2 DEF Recorded
  <2>4. StillAhead({})'
    BY <2>2 DEF StillAhead, OneExecution
  <2> QED BY <2>1, <2>2, <2>3, <2>4 DEF StreamInv
<1>2. CASE pass = 5 /\ Placed /\ stage' = "run" /\ UNCHANGED classVars
  <2>1. UNCHANGED <<routine, snippets, pass, runVars>>
    BY <1>2 DEF Build, classVars, passVars, fileVars
  <2> QED BY <1>2, <2>1, StreamSame
<1> QED BY <1>1, <1>2 DEF Build

LEMMA StreamOfRun ==
  ASSUME IInv, PtwsInv, StreamInv, NEW b \in Blocks, RunBlock(b)
  PROVE  StreamInv'
<1>1. /\ stage = "run" /\ stage' = stage /\ ahead = {}
      /\ runs' = Append(runs, b) /\ ahead' = WordsOf(b, Len(runs) + 1)
      /\ UNCHANGED <<routine, snippets, pass, recording, sampleCnt, ptTrace>>
  BY DEF RunBlock, classVars, passVars, fileVars
<1>0. PICK W : W = WordsOf(b, Len(runs) + 1)
  OBVIOUS
<1>2. Placed /\ pass = 5 /\ runs \in Seq(Blocks) /\ Len(runs) + 1 \in Nat
  BY <1>1 DEF StreamInv
<1>3. OneExecution(W)
  BY <1>0, <1>2, ExecutionOfBlock
<1>4. \A w : IsWord(w)' <=> IsWord(w)
  BY <1>1 DEF IsWord, Addrs
<1>5. ahead' = W
  BY <1>0, <1>1
<1>6. OneExecution(W)'
  BY <1>3, <1>4 DEF OneExecution
<1>7. ASSUME NEW w \in W, \A v \in W : w.ip <= v.ip PROVE StartsAccess(w)
  <2>1. SUFFICES ASSUME NEW u \in W, Precedes(u, w) PROVE FALSE
    BY <1>3 DEF OneExecution
  <2>2. u.ip \in Nat /\ w.ip \in Nat
    BY <1>3 DEF OneExecution, PtWord
  <2>3. u.ip + 5 = w.ip /\ w.ip <= u.ip
    BY <1>7, <2>1 DEF Precedes, PTWLen
  <2> QED BY <2>2, <2>3
<1>8. StillAhead(W)'
  BY <1>1, <1>5, <1>6, <1>7 DEF StillAhead, Follows
<1>9. Recorded(ptTrace)'
  BY <1>1, <1>4 DEF StreamInv, Recorded
<1>10. runs' \in Seq(Blocks)
  BY <1>1, <1>2
<1>11. Placed'
  BY <1>1, <1>2 DEF Placed
<1> QED BY <1>1, <1>2, <1>8, <1>9, <1>10, <1>11 DEF StreamInv

LEMMA StreamOfWrite ==
  ASSUME PtwsInv, StreamInv, WriteWord
  PROVE  StreamInv'
<1>1. /\ stage = "run" /\ stage' = stage
      /\ UNCHANGED <<routine, snippets, pass, runs, recording, sampleCnt>>
  BY DEF WriteWord, classVars, passVars, fileVars
<1>2. PICK w \in ahead :
        /\ \A v \in ahead : w.ip <= v.ip
        /\ ahead' = ahead \ {w}
        /\ \/ recording /\ ptTrace' = Append(ptTrace, WordLine(w))
           \/ ~recording /\ ptTrace' = ptTrace
  BY DEF WriteWord
<1>3. PICK W : StillAhead(W)
  BY DEF StreamInv
<1>4. /\ OneExecution(W) /\ ahead \subseteq W
      /\ \A x \in ahead, v \in W : x.ip < v.ip => v \in ahead
  BY <1>3 DEF StillAhead
<1>5. \A v \in W : v.ip \in Nat
  BY <1>4 DEF OneExecution, PtWord
<1>6. \A v : IsWord(v)' <=> IsWord(v)
  BY <1>1 DEF IsWord, Addrs
<1>7. OneExecution(W)'
  BY <1>4, <1>6 DEF OneExecution
<1>8. ahead' \subseteq W /\ \A x \in ahead', v \in W : x.ip < v.ip => v \in ahead'
  BY <1>2, <1>4, <1>5
<1>9. Placed /\ pass = 5 /\ Placed'
  BY <1>1 DEF StreamInv, Placed
<1>10. CASE ~recording /\ ptTrace' = ptTrace
  <2>1. ~(ptTrace # << >> /\ ptTrace[Len(ptTrace)].kind = "word")
    BY <1>10 DEF StreamInv
  <2>2. StillAhead(W)'
    BY <1>7, <1>8, <1>10, <2>1 DEF StillAhead
  <2>3. Recorded(ptTrace)'
    BY <1>6, <1>10 DEF StreamInv, Recorded
  <2> QED BY <1>1, <1>9, <1>10, <2>1, <2>2, <2>3 DEF StreamInv
<1>11. CASE recording /\ ptTrace' = Append(ptTrace, WordLine(w))
  <2> DEFINE l == WordLine(w)
  <2>1. /\ l.kind = "word" /\ l.sample = sampleCnt /\ l.ip = w.ip /\ l.addr = w.addr
        /\ l.node = w.node /\ l.exec = w.exec
    BY DEF WordLine
  <2>2. w \in PtWord /\ IsWord(w) /\ sampleCnt \in Nat
    BY <1>4 DEF OneExecution, StreamInv
  <2>3. l \in PtLine
    BY <2>2 DEF PtLine, PtWord, WordLine
  <2> HIDE DEF l
  <2>4. IsWord(l)
    BY <2>1, <2>2 DEF IsWord
  <2>5. /\ Recorded(ptTrace) /\ \A i \in DOMAIN ptTrace : ptTrace[i].sample <= l.sample
        /\ l.sample \in Nat
    BY <2>1, <2>2 DEF StreamInv
  <2>6. ptTrace # << >> /\ ptTrace[Len(ptTrace)].kind = "word" =>
          Follows(ptTrace[Len(ptTrace)], l)
    <3>1. ptTrace # << >> /\ ptTrace[Len(ptTrace)].kind = "word" =>
            Follows(ptTrace[Len(ptTrace)], w)
      BY <1>2, <1>3 DEF StillAhead
    <3> QED BY <2>1, <3>1 DEF Follows, StartsAccess, Precedes
  <2>7. l.kind # "callpath"
    BY <2>1
  <2> DEFINE t == ptTrace'
  <2>8. /\ Recorded(t) /\ t # << >> /\ t[Len(t)] = l
        /\ \A i \in DOMAIN t : (i \in DOMAIN ptTrace /\ t[i] = ptTrace[i]) \/ t[i] = l
    <3>1. ptTrace' = Append(ptTrace, l)
      BY <1>11 DEF l
    <3> DEFINE s == ptTrace
    <3>2. /\ Recorded(s) /\ s = ptTrace
          /\ \A i \in DOMAIN s : /\ s[i].sample <= l.sample
                                 /\ l.kind = "callpath" => s[i].sample < l.sample
          /\ s # << >> /\ s[Len(s)].kind = "word" /\ l.kind = "word" =>
               Follows(s[Len(s)], l)
      BY <2>5, <2>6, <2>7
    <3> HIDE DEF s
    <3>3. /\ Recorded(Append(s, l))
          /\ Append(s, l) # << >> /\ Append(s, l)[Len(Append(s, l))] = l
          /\ \A i \in DOMAIN Append(s, l) : (i \in DOMAIN s /\ Append(s, l)[i] = s[i])
                                             \/ Append(s, l)[i] = l
      BY <2>3, <2>4, <2>5, <3>2, RecordedMore
    <3> QED BY <3>1, <3>2, <3>3
  <2> HIDE DEF t
  <2>9. Recorded(ptTrace)'
    BY <1>6, <2>8 DEF Recorded, t
  <2>10. \A i \in DOMAIN t : t[i].sample <= sampleCnt
    BY <2>1, <2>2, <2>8 DEF StreamInv
  <2>11. ASSUME NEW v \in ahead', \A x \in ahead' : v.ip <= x.ip
         PROVE  Follows(l, v)
    <3>1. v \in W /\ v # w /\ w \in W /\ w.ip <= v.ip
      BY <1>2, <1>4, <2>11
    <3>2. CASE StartsAccess(v)
      BY <3>2 DEF Follows
    <3>3. CASE ~StartsAccess(v)
      <4>1. PICK u \in W : Precedes(u, v) /\ \A x \in W : x.ip <= u.ip \/ v.ip <= x.ip
        BY <1>4, <3>1, <3>3 DEF OneExecution
      <4>2. u.ip + 5 = v.ip /\ u.ip \in Nat /\ v.ip \in Nat /\ w.ip \in Nat
        BY <1>5, <3>1, <4>1 DEF Precedes, PTWLen
      <4>3. w.ip # v.ip
        BY <1>4, <3>1 DEF OneExecution
      <4>4. w.ip <= u.ip
        BY <3>1, <4>1, <4>2, <4>3
      <4>5. u \notin ahead'
        BY <2>11, <4>2
      <4>6. u = w
        <5>1. SUFFICES ASSUME u # w PROVE FALSE
          OBVIOUS
        <5>2. w.ip # u.ip
          BY <1>4, <3>1, <5>1 DEF OneExecution
        <5>3. u \in ahead
          BY <1>4, <4>2, <4>4, <5>2
        <5> QED BY <1>2, <4>5, <5>1, <5>3
      <4> QED BY <2>1, <4>1, <4>6 DEF Follows, Precedes
    <3> QED BY <3>2, <3>3
  <2>12. StillAhead(W)'
    BY <1>7, <1>8, <2>8, <2>11 DEF StillAhead, t
  <2> QED BY <1>1, <1>9, <1>11, <2>9, <2>10, <2>12 DEF StreamInv, t
<1> QED BY <1>2, <1>10, <1>11

LEMMA StreamOfSample ==
  ASSUME StreamInv, SampleEvent
  PROVE  StreamInv'
<1>1. /\ stage = "run" /\ stage' = stage /\ sampleCnt' = sampleCnt + 1
      /\ recording' = FALSE
      /\ ptTrace' = Append(ptTrace, [kind |-> "callpath", sample |-> sampleCnt + 1])
      /\ UNCHANGED <<routine, snippets, pass, runs, ahead>>
  BY DEF SampleEvent, classVars, passVars, fileVars
<1> DEFINE l == [kind |-> "callpath", sample |-> sampleCnt + 1]
           s == ptTrace
           t == ptTrace'
<1>2. sampleCnt \in Nat /\ Recorded(s) /\ \A i \in DOMAIN s : s[i].sample <= sampleCnt
  BY DEF StreamInv
<1>3. \A i \in DOMAIN s : s[i].sample \in Nat
  BY <1>2 DEF Recorded
<1>4. l.kind = "callpath" /\ l.sample = sampleCnt + 1 /\ l \in PtLine /\ t = Append(s, l)
  BY <1>1, <1>2 DEF PtLine
<1> HIDE DEF l, s, t
<1>5. /\ l.sample \in Nat /\ l.kind # "word"
      /\ \A i \in DOMAIN s : /\ s[i].sample <= l.sample
                             /\ l.kind = "callpath" => s[i].sample < l.sample
  BY <1>2, <1>3, <1>4
<1>6. /\ Recorded(t) /\ t # << >> /\ t[Len(t)] = l
      /\ \A i \in DOMAIN t : (i \in DOMAIN s /\ t[i] = s[i]) \/ t[i] = l
  <2>1. /\ Recorded(Append(s, l))
        /\ Append(s, l) # << >> /\ Append(s, l)[Len(Append(s, l))] = l
        /\ \A i \in DOMAIN Append(s, l) : (i \in DOMAIN s /\ Append(s, l)[i] = s[i])
                                           \/ Append(s, l)[i] = l
    BY <1>2, <1>4, <1>5, RecordedMore
  <2> QED BY <1>4, <2>1
<1>7. \A w : IsWord(w)' <=> IsWord(w)
  BY <1>1 DEF IsWord, Addrs
<1>8. Recorded(ptTrace)'
  BY <1>6, <1>7 DEF Recorded, t
<1>9. \A i \in DOMAIN t : t[i].sample <= sampleCnt'
  BY <1>1, <1>2, <1>3, <1>4, <1>6
<1>10. \A W : StillAhead(W) => StillAhead(W)'
  <2>1. \A W : OneExecution(W) => OneExecution(W)'
    BY <1>7 DEF OneExecution
  <2> QED BY <1>1, <1>4, <1>6, <2>1 DEF StillAhead, t
<1>11. Placed' <=> Placed
  BY <1>1 DEF Placed
<1> QED BY <1>1, <1>2, <1>4, <1>6, <1>8, <1>9, <1>10, <1>11 DEF StreamInv, t

LEMMA StreamOfBuffer ==
  ASSUME StreamInv, BufferStarts
  PROVE  StreamInv'
<1>1. /\ stage' = stage /\ recording' = TRUE
      /\ UNCHANGED <<routine, snippets, pass, runs, ahead, sampleCnt, ptTrace>>
  BY DEF BufferStarts, classVars, passVars, fileVars
<1>2. \A w : IsWord(w)' <=> IsWord(w)
  BY <1>1 DEF IsWord, Addrs
<1>3. Recorded(ptTrace)' <=> Recorded(ptTrace)
  BY <1>1, <1>2 DEF Recorded
<1>4. \A W : OneExecution(W)' <=> OneExecution(W)
  BY <1>2 DEF OneExecution
<1>5. \A W : StillAhead(W)' <=> StillAhead(W)
  BY <1>1, <1>4 DEF StillAhead
<1>6. Placed' <=> Placed
  BY <1>1 DEF Placed
<1> QED BY <1>1, <1>3, <1>5, <1>6 DEF StreamInv

LEMMA StreamOfTool ==
  ASSUME StreamInv, EndOfRun \/ CopyCallPath \/ NormalizeWord \/ EndOfTrace
  PROVE  StreamInv'
<1>1. /\ UNCHANGED <<routine, snippets, pass, runVars>> /\ stage # "build"
      /\ stage' \in {"normalize", "done"}
  BY DEF EndOfRun, CopyCallPath, NormalizeWord, EndOfTrace, classVars, passVars, fileVars
<1>2. pass = 5 /\ Placed
  BY <1>1 DEF StreamInv
<1> QED BY <1>1, <1>2, StreamSame

LEMMA StreamStep ==
  ASSUME IInv, PtwsInv, StreamInv, Next
  PROVE  StreamInv'
BY StreamOfBuild, StreamOfRun, StreamOfWrite, StreamOfSample, StreamOfBuffer,
   StreamOfTool DEF Next

-----------------------------------------------------------------------------
(* The records memgaze-xtrace-normalize makes of it.                       *)

Record == [ip : Nat, words : Seq(PtLine), offsets : Nat, scaled : BOOLEAN,
           sample : Nat]

OneAccess(ws) ==
  \A j, k \in DOMAIN ws :
    /\ ws[j].addr = ws[k].addr
    /\ ws[j].exec # ws[k].exec => ws[j].sample # ws[k].sample

\* What RecordsRebuilt says of a record.
GoodRecord(r) ==
  /\ OneAccess(r.words)
  /\ Len(r.words) = 1 /\ StartsAccess(r.words[1]) =>
       /\ r.offsets = 1 /\ ~r.scaled
       /\ Known(r.words[1].node) /\ fixed[r.words[1].addr].class # 0 =>
            routine[fixed[r.words[1].addr].of].addr = r.words[1].addr

\* The words of the record in hand: the first is at its IP, the others at the
\* next place; the last is the last word read.
OpenRecord(r) ==
  /\ r \in Record
  /\ r.words # << >>
  /\ r.ip = r.words[1].ip
  /\ \A j \in DOMAIN r.words :
       /\ r.words[j].kind = "word" /\ IsWord(r.words[j])
       /\ r.words[j].addr = r.words[1].addr
       /\ j # 1 => r.words[j].ip = r.ip + PTWLen
       /\ r.words[j].sample <= r.words[Len(r.words)].sample
  /\ \E p \in DOMAIN ptTrace :
       /\ p <= read /\ ptTrace[p] = r.words[Len(r.words)]
       /\ \A q \in DOMAIN ptTrace : p < q /\ q <= read => ptTrace[q].kind = "callpath"

RecordInv ==
  /\ stage \in {"build", "run"} => read = 0 /\ current = NoRecord /\ final = << >>
  /\ read \in Nat /\ read <= Len(ptTrace)
  /\ current = NoRecord \/ (OpenRecord(current) /\ GoodRecord(current))
  /\ final \in Seq(Record)
  /\ \A i \in DOMAIN final : GoodRecord(final[i])

LEMMA RecordInit ==
  ASSUME Init
  PROVE  RecordInv
<1>1. read = 0 /\ current = NoRecord /\ final = << >> /\ ptTrace = << >>
  BY DEF Init
<1>2. final \in Seq(Record) /\ DOMAIN final = {} /\ Len(ptTrace) = 0
  BY <1>1
<1> QED BY <1>1, <1>2 DEF RecordInv

\* A word that starts its access has an entry in the maps.
LEMMA FreshIsGood ==
  ASSUME PtwsInv, StreamInv, stage = "normalize", read < Len(ptTrace),
         ptTrace[read + 1].kind = "word", RecordInv
  PROVE  LET r == Fresh(ptTrace[read + 1])
         IN  /\ GoodRecord(r)
             /\ r \in Record /\ r.words # << >> /\ r.ip = r.words[1].ip
             /\ Len(r.words) = 1 /\ r.words[1] = ptTrace[read + 1]
<1> DEFINE w == ptTrace[read + 1]
           r == Fresh(w)
<1>1. /\ pass = 5 /\ Placed /\ ptTrace \in Seq(PtLine) /\ Len(ptTrace) \in Nat
      /\ DOMAIN ptTrace = 1 .. Len(ptTrace)
      /\ \A i \in DOMAIN ptTrace : ptTrace[i].kind = "word" => IsWord(ptTrace[i])
  BY DEF StreamInv, Recorded
<1>2. read + 1 \in DOMAIN ptTrace
  BY <1>1 DEF RecordInv
<1>3. w \in PtLine /\ IsWord(w) /\ w.kind = "word"
  BY <1>1, <1>2
<1> HIDE DEF w
<1>4. w.ip \in Nat /\ w.sample \in Nat /\ w.addr \in Addrs(routine)
  BY <1>3 DEF PtLine, IsWord
<1>5. /\ r.ip = w.ip /\ r.words = <<w>> /\ r.sample = w.sample /\ r.scaled = FALSE
      /\ r.offsets = IF InMaps(w.ip) THEN 1 ELSE 0
      /\ r = [ip |-> r.ip, words |-> r.words, sample |-> r.sample,
              scaled |-> r.scaled, offsets |-> r.offsets]
  BY DEF Fresh
<1> HIDE DEF r
<1>6. Len(r.words) = 1 /\ r.words[1] = w /\ r.words # << >> /\ DOMAIN r.words = {1}
  BY <1>5
<1>7. r \in Record
  <2>1. r.words \in Seq(PtLine)
    BY <1>3, <1>5
  <2>2. r.offsets = 1 \/ r.offsets = 0
    BY <1>5
  <2>3. r.offsets \in Nat
    BY <2>2
  <2>4. r.scaled \in BOOLEAN /\ r.ip \in Nat /\ r.sample \in Nat
    BY <1>4, <1>5
  <2> QED BY <1>5, <2>1, <2>3, <2>4 DEF Record
<1>8. OneAccess(r.words)
  BY <1>6 DEF OneAccess
<1>9. ASSUME StartsAccess(w)
      PROVE  /\ r.offsets = 1 /\ ~r.scaled
             /\ Known(w.node) /\ fixed[w.addr].class # 0 =>
                  routine[fixed[w.addr].of].addr = w.addr
  <2> DEFINE a == w.addr
  <2>1. PICK k \in DOMAIN snippets[a] : w.node = snippets[a][k].node
    BY <1>3 DEF IsWord
  <2>2. w.node \in NodesOf(snippets[a])
    BY <2>1 DEF NodesOf
  <2>3. LineOfPtws(a)
    BY <1>4 DEF PtwsInv
  <2>4. LinesAt(lines, a) # {}
    BY <2>2, <2>3 DEF LineOfPtws
  <2>5. fixed = [c \in Addrs(lines) |-> lines[Kept(c)]]
    BY <1>1 DEF PtwsInv
  <2>6. a \in Addrs(lines)
    BY <2>4 DEF LinesAt, Addrs
  <2>7. fixed[a] = LastLine(lines, a)
    BY <2>5, <2>6 DEF Kept, LineIndices, LastLine, LinesAt
  <2>8. Reloc[a] = w.ip /\ a \in DOMAIN fixed
    BY <1>9, <2>5, <2>6 DEF StartsAccess
  <2>9. InMaps(w.ip)
    BY <2>8 DEF InMaps
  <2> QED BY <1>5, <2>2, <2>3, <2>4, <2>7, <2>9 DEF LineOfPtws
<1>10. GoodRecord(r)
  BY <1>6, <1>8, <1>9 DEF GoodRecord
<1> QED BY <1>5, <1>6, <1>7, <1>10 DEF r, w

\* A merged word is the next one of the same instruction, and of the same
\* execution unless a sample has started in between.
LEMMA MergedIsGood ==
  ASSUME PtwsInv, StreamInv, RecordInv, stage = "normalize", read < Len(ptTrace),
         ptTrace[read + 1].kind = "word", Merges(ptTrace[read + 1])
  PROVE  LET w == ptTrace[read + 1]
         IN  /\ OpenRecord(current) /\ GoodRecord(current)
             /\ w.addr = current.words[1].addr
             /\ \A j \in DOMAIN current.words :
                  /\ current.words[j].sample <= w.sample
                  /\ current.words[j].exec # w.exec => current.words[j].sample # w.sample
<1> DEFINE w == ptTrace[read + 1]
           ws == current.words
           n == Len(ws)
<1>1. /\ pass = 5 /\ Placed /\ Recorded(ptTrace) /\ Len(ptTrace) \in Nat
      /\ DOMAIN ptTrace = 1 .. Len(ptTrace)
      /\ \A i \in DOMAIN ptTrace : ptTrace[i].kind = "word" => IsWord(ptTrace[i])
      /\ \A i \in DOMAIN ptTrace : ptTrace[i].sample \in Nat
      /\ \A i, j \in DOMAIN ptTrace :
           i < j => /\ ptTrace[i].sample <= ptTrace[j].sample
                    /\ ptTrace[j].kind = "callpath" => ptTrace[i].sample < ptTrace[j].sample
      /\ \A i \in DOMAIN ptTrace :
           i + 1 \in DOMAIN ptTrace /\ ptTrace[i].kind = "word"
             /\ ptTrace[i + 1].kind = "word" => Follows(ptTrace[i], ptTrace[i + 1])
  BY DEF StreamInv, Recorded
<1>2. read + 1 \in DOMAIN ptTrace /\ read \in Nat
  BY <1>1 DEF RecordInv
<1>3. IsWord(w) /\ w.ip = current.ip + 5
  BY <1>1, <1>2 DEF Merges, PTWLen
<1>4. OpenRecord(current) /\ GoodRecord(current)
  <2>1. w.ip > 5
    BY <1>1, <1>3, Places
  <2>2. current # NoRecord
    BY <1>3, <2>1 DEF NoRecord
  <2> QED BY <2>2 DEF RecordInv
<1>5. /\ n \in Nat /\ n > 0 /\ DOMAIN ws = 1 .. n
      /\ current.ip = ws[1].ip /\ current.ip \in Nat
      /\ \A j \in 1 .. n : /\ ws[j].kind = "word" /\ IsWord(ws[j])
                           /\ ws[j].addr = ws[1].addr
                           /\ j # 1 => ws[j].ip = current.ip + 5
                           /\ ws[j].sample <= ws[n].sample
  <2>1. ws \in Seq(PtLine) /\ ws # << >> /\ current.ip \in Nat
    BY <1>4 DEF OpenRecord, Record
  <2>2. n \in Nat /\ n > 0 /\ DOMAIN ws = 1 .. n
    BY <2>1
  <2> QED BY <1>4, <2>1, <2>2 DEF OpenRecord, PTWLen
<1>6. PICK p \in DOMAIN ptTrace :
        /\ p <= read /\ ptTrace[p] = ws[n]
        /\ \A q \in DOMAIN ptTrace : p < q /\ q <= read => ptTrace[q].kind = "callpath"
  BY <1>4 DEF OpenRecord
<1> HIDE DEF w, ws, n
<1>7. IsWord(ws[1]) /\ ws[1].ip + PTWLen = w.ip /\ ws[1].ip < w.ip
  BY <1>3, <1>5 DEF PTWLen
<1>8. w.addr = ws[1].addr
  BY <1>1, <1>3, <1>7, Places
<1>9. ~StartsAccess(w)
  <2>1. ws[1].ip >= Reloc[w.addr] /\ Reloc[w.addr] \in Nat
    BY <1>1, <1>3, <1>7, <1>8, Places
  <2>2. ws[1].ip \in Nat
    BY <1>5
  <2> QED BY <1>7, <2>1, <2>2 DEF StartsAccess, PTWLen
<1>10. p \in Nat /\ ptTrace[p].sample \in Nat /\ w.sample \in Nat
       /\ ptTrace[p].sample <= w.sample
  <2>1. p < read + 1 /\ p \in Nat
    BY <1>1, <1>2, <1>6
  <2> QED BY <1>1, <1>2, <2>1 DEF w
<1>11. \A j \in 1 .. n : ws[j].sample \in Nat
  <2>1. ws \in Seq(PtLine)
    BY <1>4 DEF OpenRecord, Record, ws
  <2>2. \A l \in PtLine : l.sample \in Nat
    BY DEF PtLine
  <2> QED BY <1>5, <2>1, <2>2
<1>12. \A j \in 1 .. n : ws[j].sample <= w.sample
  BY <1>5, <1>6, <1>10, <1>11
<1>13. ASSUME NEW j \in 1 .. n, ws[j].exec # w.exec
       PROVE  ws[j].sample # w.sample
  <2>1. CASE p = read
    <3>1. p + 1 = read + 1 /\ ptTrace[p].kind = "word"
      BY <1>5, <1>6, <2>1
    <3>2. Follows(ptTrace[p], w)
      BY <1>1, <1>2, <1>6, <3>1, <1>3, ptTrace[read + 1].kind = "word" DEF w
    <3>3. ws[n].ip + 5 = w.ip /\ ws[n].exec = w.exec
      BY <1>6, <1>9, <3>2 DEF Follows, Precedes, PTWLen
    <3>4. n = 1
      BY <1>3, <1>5, <3>3
    <3> QED BY <1>13, <3>3, <3>4
  <2>2. CASE p < read
    <3>1. read \in DOMAIN ptTrace
      BY <1>1, <1>2, <1>10, <2>2
    <3>2. ptTrace[read].kind = "callpath"
      BY <1>2, <1>6, <2>2, <3>1
    <3>3. ptTrace[p].sample < ptTrace[read].sample
      BY <1>1, <2>2, <3>1, <3>2
    <3>4. ptTrace[read].sample <= w.sample
      BY <1>1, <1>2, <3>1 DEF w
    <3>5. ptTrace[read].sample \in Nat
      BY <1>1, <3>1
    <3> QED BY <1>5, <1>6, <1>10, <1>11, <3>3, <3>4, <3>5
  <2> QED BY <1>2, <1>6, <1>10, <2>1, <2>2
<1> QED BY <1>4, <1>5, <1>8, <1>12, <1>13 DEF w, ws, n

\* A step of the tool is the only one that reads the stream.
LEMMA RecordSame ==
  ASSUME RecordInv, UNCHANGED <<routine, snippets, fixed>>,
         current' = current, final' = final, read' = read,
         stage' = stage \/ stage' \notin {"build", "run"},
         ptTrace' = ptTrace \/ (stage = "run" /\ 0 <= Len(ptTrace'))
  PROVE  RecordInv'
<1>1. CASE ptTrace' = ptTrace
  <2>1. \A w : IsWord(w)' <=> IsWord(w)
    BY DEF IsWord, Addrs
  <2>2. OpenRecord(current)' <=> OpenRecord(current)
    BY <1>1, <2>1 DEF OpenRecord
  <2>3. \A r : GoodRecord(r)' <=> GoodRecord(r)
    BY DEF GoodRecord, Known
  <2>4. GoodRecord(current)' <=> GoodRecord(current)
    BY DEF GoodRecord, Known
  <2>5. \A i \in DOMAIN final' : GoodRecord(final[i])'
    BY <2>3 DEF RecordInv
  <2>6. stage' \in {"build", "run"} => read' = 0 /\ current' = NoRecord /\ final' = << >>
    BY DEF RecordInv
  <2> QED BY <1>1, <2>2, <2>4, <2>5, <2>6 DEF RecordInv
<1>2. CASE stage = "run" /\ 0 <= Len(ptTrace')
  <2>1. read' = 0 /\ current' = NoRecord /\ final' = << >>
    BY <1>2 DEF RecordInv
  <2>2. final' \in Seq(Record) /\ DOMAIN final' = {}
    BY <2>1
  <2>3. read' \in Nat /\ read' <= Len(ptTrace')
    BY <1>2, <2>1
  <2> QED BY <2>1, <2>2, <2>3 DEF RecordInv
<1> QED BY <1>1, <1>2

LEMMA RecordOfBuild ==
  ASSUME RecordInv, StreamInv, Build
  PROVE  RecordInv'
<1>1. /\ stage = "build" /\ UNCHANGED <<read, current, final>> /\ ptTrace' = ptTrace
  BY DEF Build, runVars, finalVars
<1>2. read' = 0 /\ current' = NoRecord /\ final' = << >> /\ ptTrace' = << >>
  BY <1>1 DEF RecordInv, StreamInv
<1>3. final' \in Seq(Record) /\ DOMAIN final' = {} /\ Len(ptTrace') = 0
  BY <1>2
<1> QED BY <1>2, <1>3 DEF RecordInv

LEMMA RecordOfRun ==
  ASSUME RecordInv, StreamInv,
         \/ \E b \in Blocks : RunBlock(b)
         \/ WriteWord \/ SampleEvent \/ BufferStarts \/ EndOfRun
  PROVE  RecordInv'
<1>1. /\ UNCHANGED <<routine, snippets, fixed>> /\ stage = "run"
      /\ current' = current /\ final' = final /\ read' = read
      /\ stage' = stage \/ stage' = "normalize"
  BY DEF RunBlock, WriteWord, SampleEvent, BufferStarts, EndOfRun, classVars,
         fileVars, finalVars
<1>2. ptTrace' = ptTrace \/ \E l : ptTrace' = Append(ptTrace, l)
  BY DEF RunBlock, WriteWord, SampleEvent, BufferStarts, EndOfRun, runVars
<1>3. 0 <= Len(ptTrace')
  <2>1. ptTrace \in Seq(PtLine)
    BY DEF StreamInv, Recorded
  <2> DEFINE s == ptTrace
  <2>2. ASSUME NEW l PROVE Len(Append(s, l)) = Len(s) + 1 /\ Len(s) \in Nat
    <3>1. s \in Seq(PtLine \cup {l})
      BY <2>1
    <3> HIDE DEF s
    <3> QED BY <3>1
  <2>3. Len(ptTrace) \in Nat
    BY <2>1
  <2> QED BY <1>2, <2>2, <2>3
<1>4. stage' = stage \/ stage' \notin {"build", "run"}
  BY <1>1
<1> QED BY <1>1, <1>3, <1>4, RecordSame

LEMMA RecordOfCallPath ==
  ASSUME RecordInv, StreamInv, CopyCallPath
  PROVE  RecordInv'
<1>1. /\ stage = "normalize" /\ stage' = stage /\ read < Len(ptTrace)
      /\ ptTrace[read + 1].kind = "callpath" /\ read' = read + 1
      /\ UNCHANGED <<routine, snippets, fixed, ptTrace, current, final>>
  BY DEF CopyCallPath, classVars, fileVars, runVars
<1>2. read \in Nat /\ Len(ptTrace) \in Nat /\ DOMAIN ptTrace = 1 .. Len(ptTrace)
  <2>1. ptTrace \in Seq(PtLine)
    BY DEF StreamInv, Recorded
  <2> QED BY <2>1 DEF RecordInv
<1>3. \A w : IsWord(w)' <=> IsWord(w)
  BY <1>1 DEF IsWord, Addrs
<1>4. OpenRecord(current) => OpenRecord(current)'
  <2> SUFFICES ASSUME OpenRecord(current) PROVE OpenRecord(current)'
    OBVIOUS
  <2>1. PICK p \in DOMAIN ptTrace :
          /\ p <= read /\ ptTrace[p] = current.words[Len(current.words)]
          /\ \A q \in DOMAIN ptTrace : p < q /\ q <= read => ptTrace[q].kind = "callpath"
    BY DEF OpenRecord
  <2>2. p <= read + 1
    BY <1>2, <2>1
  <2>3. \A q \in DOMAIN ptTrace : p < q /\ q <= read + 1 => ptTrace[q].kind = "callpath"
    <3> SUFFICES ASSUME NEW q \in DOMAIN ptTrace, p < q, q <= read + 1
                 PROVE  ptTrace[q].kind = "callpath"
      OBVIOUS
    <3>1. q <= read \/ q = read + 1
      BY <1>2
    <3> QED BY <1>1, <2>1, <3>1
  <2> QED BY <1>1, <1>3, <2>1, <2>2, <2>3 DEF OpenRecord
<1>5. \A r : GoodRecord(r)' <=> GoodRecord(r)
  BY <1>1 DEF GoodRecord, Known
<1>6. GoodRecord(current)' <=> GoodRecord(current)
  BY <1>1 DEF GoodRecord, Known
<1>7. read' \in Nat /\ read' <= Len(ptTrace')
  BY <1>1, <1>2
<1>8. \A i \in DOMAIN final' : GoodRecord(final[i])'
  BY <1>1, <1>5 DEF RecordInv
<1> QED BY <1>1, <1>4, <1>6, <1>7, <1>8 DEF RecordInv

\* Writing the record in hand.
LEMMA WriteIsGood ==
  ASSUME RecordInv
  PROVE  Write \in Seq(Record) /\ \A i \in DOMAIN Write : GoodRecord(Write[i])
<1>1. CASE current = NoRecord
  BY <1>1 DEF RecordInv, Write
<1>2. CASE current # NoRecord
  <2>1. current \in Record /\ GoodRecord(current) /\ final \in Seq(Record)
    BY <1>2 DEF RecordInv, OpenRecord
  <2> DEFINE f == final
             r == current
  <2>2. Write = Append(f, r)
    BY <1>2 DEF Write
  <2>3. \A i \in DOMAIN f : GoodRecord(f[i])
    BY DEF RecordInv
  <2> HIDE DEF f, r
  <2>4. r \in Record /\ GoodRecord(r) /\ f \in Seq(Record)
    BY <2>1 DEF f, r
  <2>5. /\ Append(f, r) \in Seq(Record)
        /\ \A i \in DOMAIN Append(f, r) : (i \in DOMAIN f /\ Append(f, r)[i] = f[i])
                                          \/ Append(f, r)[i] = r
    BY <2>4
  <2> QED BY <2>2, <2>3, <2>4, <2>5
<1> QED BY <1>1, <1>2

LEMMA RecordOfWord ==
  ASSUME PtwsInv, StreamInv, RecordInv, NormalizeWord
  PROVE  RecordInv'
<1> DEFINE w == ptTrace[read + 1]
           r == current'
<1>1. /\ stage = "normalize" /\ stage' = stage /\ read < Len(ptTrace) /\ read' = read + 1
      /\ w.kind = "word"
      /\ UNCHANGED <<routine, snippets, fixed, ptTrace>>
      /\ \/ Merges(w) /\ r = Merged(w) /\ final' = final
         \/ ~Merges(w) /\ r = Fresh(w) /\ final' = Write
  BY DEF NormalizeWord, classVars, fileVars, runVars
<1>2. /\ read \in Nat /\ Len(ptTrace) \in Nat /\ DOMAIN ptTrace = 1 .. Len(ptTrace)
      /\ ptTrace \in Seq(PtLine)
      /\ \A i \in DOMAIN ptTrace : ptTrace[i].kind = "word" => IsWord(ptTrace[i])
  BY DEF StreamInv, Recorded, RecordInv
<1>3. /\ read + 1 \in DOMAIN ptTrace /\ w \in PtLine /\ IsWord(w)
      /\ \A q \in DOMAIN ptTrace : ~(read + 1 < q /\ q <= read + 1)
  BY <1>1, <1>2
<1>4. \A x : IsWord(x)' <=> IsWord(x)
  BY <1>1 DEF IsWord, Addrs
<1>5. \A x : GoodRecord(x)' <=> GoodRecord(x)
  BY <1>1 DEF GoodRecord, Known
<1>6. ASSUME r \in Record, r.words # << >>, r.ip = r.words[1].ip,
             \A j \in DOMAIN r.words :
               /\ r.words[j].kind = "word" /\ IsWord(r.words[j])
               /\ r.words[j].addr = r.words[1].addr
               /\ j # 1 => r.words[j].ip = r.ip + PTWLen
               /\ r.words[j].sample <= r.words[Len(r.words)].sample,
             r.words[Len(r.words)] = w
      PROVE  OpenRecord(current)'
  BY <1>1, <1>3, <1>4, <1>6 DEF OpenRecord
<1>7. CASE ~Merges(w) /\ r = Fresh(w) /\ final' = Write
  <2>1. /\ GoodRecord(r) /\ r \in Record /\ r.words # << >> /\ r.ip = r.words[1].ip
        /\ Len(r.words) = 1 /\ r.words[1] = w
    BY <1>1, <1>7, FreshIsGood
  <2>2. w.sample \in Nat
    BY <1>3 DEF PtLine
  <2> DEFINE x == r
  <2> HIDE DEF w, r, x
  <2>3. DOMAIN x.words = {1}
    <3>1. x.words \in Seq(PtLine)
      BY <2>1 DEF Record, x
    <3> QED BY <2>1, <3>1 DEF x
  <2>4. \A j \in DOMAIN r.words :
          /\ r.words[j].kind = "word" /\ IsWord(r.words[j])
          /\ r.words[j].addr = r.words[1].addr
          /\ j # 1 => r.words[j].ip = r.ip + PTWLen
          /\ r.words[j].sample <= r.words[Len(r.words)].sample
    BY <1>1, <1>3, <2>1, <2>2, <2>3 DEF x
  <2>5. OpenRecord(current)'
    BY <1>6, <2>1, <2>4
  <2>6. GoodRecord(current)'
    BY <1>5, <2>1 DEF r
  <2>7. Write \in Seq(Record) /\ \A i \in DOMAIN Write : GoodRecord(Write[i])
    BY WriteIsGood
  <2>8. final' \in Seq(Record) /\ \A i \in DOMAIN final' : GoodRecord(final[i])'
    BY <1>5, <1>7, <2>7
  <2> QED BY <1>1, <1>2, <2>5, <2>6, <2>8 DEF RecordInv
<1>8. CASE Merges(w) /\ r = Merged(w) /\ final' = final
  <2> DEFINE ws == current.words
             n == Len(ws)
             x == r
  <2>1. /\ OpenRecord(current) /\ GoodRecord(current)
        /\ w.addr = ws[1].addr
        /\ \A j \in DOMAIN ws :
             /\ ws[j].sample <= w.sample
             /\ ws[j].exec # w.exec => ws[j].sample # w.sample
    BY <1>1, <1>8, MergedIsGood
  <2>2. /\ ws \in Seq(PtLine) /\ current \in Record /\ ws # << >>
        /\ current.ip = ws[1].ip /\ current.ip \in Nat
        /\ \A j \in DOMAIN ws :
             /\ ws[j].kind = "word" /\ IsWord(ws[j]) /\ ws[j].addr = ws[1].addr
             /\ j # 1 => ws[j].ip = current.ip + PTWLen
    BY <2>1 DEF OpenRecord, Record
  <2>3. n \in Nat /\ n > 0 /\ DOMAIN ws = 1 .. n
    BY <2>2
  <2>4. /\ x.ip = current.ip /\ x.words = Append(ws, w) /\ x \in Record
    <3>1. Append(ws, w) \in Seq(PtLine)
      BY <1>3, <2>2
    <3>2. w.sample \in Nat
      BY <1>3 DEF PtLine
    <3> DEFINE o == current.offsets + IF InMaps(current.ip) THEN 1 ELSE 0
    <3>3. o \in Nat /\ InMaps(w.ip) \in BOOLEAN
      BY <2>2 DEF Record, InMaps
    <3>4. r = [current EXCEPT !.words = Append(@, w), !.sample = w.sample,
                              !.scaled = InMaps(w.ip), !.offsets = o]
      BY <1>8 DEF Merged
    <3> HIDE DEF w, o
    <3> QED BY <2>2, <3>1, <3>2, <3>3, <3>4 DEF Record
  <2> DEFINE out == Append(ws, w)
  <2>5. /\ DOMAIN out = 1 .. n + 1 /\ Len(out) = n + 1 /\ out[n + 1] = w
        /\ \A j \in 1 .. n : out[j] = ws[j]
        /\ out # << >>
    BY <1>3, <2>2
  <2>6. w.ip = current.ip + PTWLen
    BY <1>8 DEF Merges
  <2>7. w.sample \in Nat
    BY <1>3 DEF PtLine
  <2>8. GoodRecord(current) /\ OneAccess(ws)
    BY <2>1 DEF GoodRecord
  <2>9. \A j \in DOMAIN ws : ws[j].addr = ws[1].addr
    BY <2>2
  <2> HIDE DEF w, r, x, ws, n, out
  <2>10. x.words = out /\ 1 \in 1 .. n /\ out[1] = ws[1]
    BY <2>3, <2>4, <2>5 DEF out
  <2>11. \A j \in 1 .. n + 1 : j \in 1 .. n \/ j = n + 1
    BY <2>3
  <2>12. \A j \in 1 .. n + 1 :
           /\ out[j].kind = "word" /\ IsWord(out[j]) /\ out[j].addr = out[1].addr
           /\ j # 1 => out[j].ip = current.ip + PTWLen
           /\ out[j].sample <= w.sample
    BY SMTT(30), <1>1, <1>3, <2>1, <2>2, <2>3, <2>5, <2>6, <2>7, <2>10, <2>11
  <2>13. \A j, k \in 1 .. n + 1 :
           /\ out[j].addr = out[k].addr
           /\ out[j].exec # out[k].exec => out[j].sample # out[k].sample
    <3> SUFFICES ASSUME NEW j \in 1 .. n + 1, NEW k \in 1 .. n + 1
                 PROVE  /\ out[j].addr = out[k].addr
                        /\ out[j].exec # out[k].exec => out[j].sample # out[k].sample
      OBVIOUS
    <3>1. out[j].addr = out[k].addr
      BY <2>12
    <3>2. CASE j \in 1 .. n /\ k \in 1 .. n
      BY <2>3, <2>5, <2>8, <3>1, <3>2 DEF OneAccess
    <3>3. CASE j \in 1 .. n /\ k = n + 1
      BY <2>1, <2>3, <2>5, <3>1, <3>3
    <3>4. CASE j = n + 1 /\ k \in 1 .. n
      BY <2>1, <2>3, <2>5, <3>1, <3>4
    <3>5. CASE j = n + 1 /\ k = n + 1
      BY <3>1, <3>5
    <3> QED BY <2>11, <3>2, <3>3, <3>4, <3>5
  <2>14. Len(out) # 1
    BY <2>3, <2>5
  <2>15. GoodRecord(r)
    BY <2>5, <2>10, <2>13, <2>14 DEF GoodRecord, OneAccess, x
  <2>16. OpenRecord(current)'
    BY <1>6, <2>2, <2>4, <2>5, <2>10, <2>12 DEF x
  <2>17. GoodRecord(current)'
    BY <1>5, <2>15 DEF r
  <2>18. final' \in Seq(Record) /\ \A i \in DOMAIN final' : GoodRecord(final[i])'
    BY <1>5, <1>8 DEF RecordInv
  <2> QED BY <1>1, <1>2, <2>16, <2>17, <2>18 DEF RecordInv
<1> QED BY <1>1, <1>7, <1>8

LEMMA RecordOfEnd ==
  ASSUME RecordInv, EndOfTrace
  PROVE  RecordInv'
<1>1. /\ stage' = "done" /\ final' = Write
      /\ UNCHANGED <<routine, snippets, fixed, ptTrace, read, current>>
  BY DEF EndOfTrace, WriteLast, classVars, fileVars, runVars
<1>2. Write \in Seq(Record) /\ \A i \in DOMAIN Write : GoodRecord(Write[i])
  BY WriteIsGood
<1>3. \A w : IsWord(w)' <=> IsWord(w)
  BY <1>1 DEF IsWord, Addrs
<1>4. OpenRecord(current)' <=> OpenRecord(current)
  BY <1>1, <1>3 DEF OpenRecord
<1>5. \A r : GoodRecord(r)' <=> GoodRecord(r)
  BY <1>1 DEF GoodRecord, Known
<1>6. GoodRecord(current)' <=> GoodRecord(current)
  BY <1>1 DEF GoodRecord, Known
<1>7. final' \in Seq(Record) /\ \A i \in DOMAIN final' : GoodRecord(final[i])'
  BY <1>1, <1>2, <1>5
<1> QED BY <1>1, <1>4, <1>6, <1>7 DEF RecordInv

LEMMA RecordStep ==
  ASSUME PtwsInv, StreamInv, RecordInv, Next
  PROVE  RecordInv'
BY RecordOfBuild, RecordOfRun, RecordOfCallPath, RecordOfWord, RecordOfEnd DEF Next

-----------------------------------------------------------------------------
(* The theorems.                                                           *)

\* A step of the program, the recorder or the extraction leaves the
\* instrumenter alone.
LEMMA NextIsClassNext ==
  ASSUME Next
  PROVE  ClassNext \/ UNCHANGED classVars
BY DEF Next, Build, RunBlock, WriteWord, SampleEvent, BufferStarts, EndOfRun,
       CopyCallPath, NormalizeWord, EndOfTrace

LEMMA ClassStep ==
  ASSUME IInv, ClassNext
  PROVE  IInv'
BY CountStep, FrameStep, AccessStep, PassStep, LeftoverStep, ScanStep,
   EndScanStep, EndPassStep, FixStep DEF ClassNext

LEMMA Invariance == Spec => []IInv
<1>1. Init => IInv
  BY InitInv DEF Init
<1>2. IInv /\ [Next]_vars => IInv'
  <2> SUFFICES ASSUME IInv, [Next]_vars PROVE IInv'
    OBVIOUS
  <2>1. CASE Next
    BY <2>1, NextIsClassNext, ClassStep, UnchangedStep
  <2>2. CASE UNCHANGED vars
    <3>1. UNCHANGED classVars
      BY <2>2 DEF vars
    <3> QED BY <3>1, UnchangedStep
  <2> QED BY <2>1, <2>2
<1> QED BY <1>1, <1>2, PTL DEF Spec

\* TraceExtraction does to the routine what LoadClasses says, and nothing else.
THEOREM ImplementsLoadClasses == Spec => ClassSpec
<1>1. Init => ClassInit
  BY DEF Init
<1>2. [Next]_vars => [ClassNext]_classVars
  <2>1. UNCHANGED vars => UNCHANGED classVars
    BY DEF vars
  <2> QED BY <2>1, NextIsClassNext
<1> QED BY <1>1, <1>2, PTL DEF Spec, ClassSpec

\* Whatever the routine and the options, the loads pass 1 counted in a block
\* are in its count or were charged to lines once (DGBuilder.C:1249-1833).
THEOREM CountsChargedCorrect == Spec => []CountsCharged
<1>1. IInv => CountsCharged
  BY DEF IInv
<1> QED BY <1>1, Invariance, PTL

\* Whatever the routine and the options, what the lines of a block stand for,
\* their skips and the frame loads pass 3 instruments, are the loads charged
\* to it, each once and to its own block (DGBuilder.C:1401-1833).
THEOREM SkipsChargedCorrect == Spec => []SkipsCharged
<1>1. Init => SkipsInv
  BY SkipsInit DEF Init
<1>2. IInv /\ SkipsInv /\ [Next]_vars => SkipsInv'
  <2> SUFFICES ASSUME IInv, SkipsInv, [Next]_vars PROVE SkipsInv'
    OBVIOUS
  <2>1. CASE ClassNext
    BY <2>1, SkipsStep
  <2>2. CASE UNCHANGED classVars
    BY <2>2, SkipsSame DEF classVars, fileVars
  <2>3. CASE UNCHANGED vars
    BY <2>2, <2>3 DEF vars
  <2> QED BY <2>1, <2>2, <2>3, NextIsClassNext
<1>3. IInv /\ SkipsInv => SkipsCharged
  <2> SUFFICES ASSUME IInv, SkipsInv, NEW b \in Blocks
               PROVE  charged[b] = SumFunction([i \in LinesOf(b) |-> StandsFor(lines[i])])
    BY DEF IInv, SkipsCharged
  <2>1. LinesOf(b) = LinesFor(lines, b)
    BY DEF LinesOf, LinesFor
  <2>2. \A l : StandsFor(l) = Stands(l, mo.frame)
    BY DEF StandsFor, Stands
  <2> QED BY <2>1, <2>2 DEF SkipsInv, StandsIn
<1> QED BY <1>1, <1>2, <1>3, Invariance, PTL DEF Spec

\* Whatever the routine, pass 3 serves exactly one of the blocks with loads
\* left over (lnit of DGBuilder.C:1203 and 1764).
THEOREM OneLeftoverServedCorrect == Spec => []OneLeftoverServed
<1>1. IInv => OneLeftoverServed
  <2> SUFFICES ASSUME IInv, pass = 5, ~mo.frame
               PROVE  /\ Cardinality(ServedBlocks) <= 1
                      /\ LeftBlocks # {} => ServedBlocks # {}
    BY DEF OneLeftoverServed
  <2> USE DEF IInv
  <2>1. ServedBlocks = {l.block : l \in FrameLines}
    <3>1. lines \in Seq(Line) /\ Range(lines) = {lines[i] : i \in DOMAIN lines}
      BY DEF ClassType, Range
    <3>2. \A i \in DOMAIN lines : lines[i] \in Line
      BY <3>1
    <3>3. \A l \in Line : l.block \in Blocks
      BY DEF Line
    <3> QED BY <3>1, <3>2, <3>3 DEF ServedBlocks, LinesOf, FrameLines
  <2>2. Cardinality(ServedBlocks) <= 1
    <3>1. CASE FrameLines = {}
      <4>1. ServedBlocks = {}
        BY <2>1, <3>1
      <4> QED BY <4>1, FS_EmptySet
    <3>2. CASE FrameLines # {}
      <4>1. PICK l \in FrameLines : TRUE
        BY <3>2
      <4>2. ServedBlocks = {l.block}
        BY <2>1, <4>1 DEF ServedOnce
      <4>3. Cardinality({l.block}) = 1
        BY FS_Singleton
      <4> QED BY <4>2, <4>3
    <3> QED BY <3>1, <3>2
  <2>3. LeftBlocks # {} => FrameLines # {}
    BY DEF LeftBlocks, FirstScan
  <2> QED BY <2>1, <2>2, <2>3
<1> QED BY <1>1, Invariance, PTL

\* For any routine, options, stream and sample boundaries, a record is about one
\* instruction, mixes two executions only across a sample boundary, and has the
\* offset of its instruction once if it is one word at the start of its access
\* (DGBuilder.C:1412-1430, perf-script-intel-pt.py:169-205,
\* memgaze-xtrace-normalize:94-142).
THEOREM RecordsRebuiltCorrect == Spec => []RecordsRebuilt
<1> DEFINE All == PtwsInv /\ StreamInv /\ RecordInv
<1>1. Init => All
  BY PtwsInit, StreamInit, RecordInit DEF Init
<1>2. IInv /\ All /\ [Next]_vars => All'
  <2> SUFFICES ASSUME IInv, All, [Next]_vars PROVE All'
    OBVIOUS
  <2>1. CASE Next
    <3>1. PtwsInv'
      BY <2>1, NextIsClassNext, PtwsStep, PtwsUnchanged
    <3> QED BY <2>1, <3>1, StreamStep, RecordStep
  <2>2. CASE UNCHANGED vars
    <3>1. /\ UNCHANGED <<routine, snippets, pass, runVars, fixed>>
          /\ UNCHANGED <<read, current, final, stage, ptTrace, classVars>>
      BY <2>2 DEF vars, classVars, passVars, fileVars, runVars, finalVars
    <3>2. PtwsInv'
      BY <3>1, PtwsUnchanged
    <3>3. /\ stage \in {"build", "run", "normalize", "done"}
          /\ stage # "build" => pass = 5 /\ Placed
      BY DEF StreamInv
    <3>4. StreamInv'
      BY <3>1, <3>3, StreamSame
    <3>5. RecordInv'
      BY <3>1, RecordSame
    <3> QED BY <3>2, <3>4, <3>5
  <2> QED BY <2>1, <2>2
<1>3. All => RecordsRebuilt
  <2> SUFFICES ASSUME RecordInv PROVE RecordsOfOneAccess /\ OffsetOfAccess
    BY DEF RecordsRebuilt
  <2>1. \A i \in DOMAIN final : GoodRecord(final[i])
    BY DEF RecordInv
  <2>2. RecordsOfOneAccess
    BY <2>1 DEF RecordsOfOneAccess, GoodRecord, OneAccess
  <2>3. OffsetOfAccess
    BY <2>1 DEF OffsetOfAccess, GoodRecord, StartsAccess, Known
  <2> QED BY <2>2, <2>3
<1> QED BY <1>1, <1>2, <1>3, Invariance, PTL DEF Spec
=============================================================================
