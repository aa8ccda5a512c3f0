-------------------------- MODULE MCTraceExtraction --------------------------
(***************************************************************************)
(* Small instances of TraceExtraction.                                     *)
(***************************************************************************)
EXTENDS TraceExtraction, TLC

MCAccess(type, ref, edges, regs) ==
  [type |-> type, ref |-> ref, stackEdges |-> edges, regs |-> regs, point |-> TRUE]

\* A frame load, constant loads with one and two dependences, a two-source
\* load, a global (RIP), a load without formulas.
MCLoads ==
  {MCAccess("load", "frame", 0, 1), MCAccess("load", "strided", 1, 1),
   MCAccess("load", "strided", 2, 1), MCAccess("load", "strided", 0, 2),
   MCAccess("load", "strided", 0, 0), MCAccess("load", "unknown", 0, 1)}

\* A strided load and an instruction that loads and stores.
MCInstructions ==
  {<<l>> : l \in MCLoads} \cup
  {<<MCAccess("load", "irregular", 0, 1), MCAccess("store", "irregular", 0, 2)>>}

MCBlocks == {1, 2}
MCReloc  == [a \in 1 .. 4 |-> 64 * a]

\* n instructions, each in a block; addresses grow with the block.
MCRoutine(n, ins, blk) ==
  LET Addr(i) == 1 + Cardinality({j \in 1 .. n : \/ blk[j] < blk[i]
                                                 \/ blk[j] = blk[i] /\ j < i})
      At(i) == [k \in DOMAIN ins[i] |->
                  ins[i][k] @@ [addr |-> Addr(i), block |-> blk[i]]]
  IN  FlattenSeq([i \in 1 .. n |-> At(i)])

MCRoutinesOf(n, list) ==
  {MCRoutine(n, ins, blk) : ins \in list, blk \in [1 .. n -> MCBlocks]}

\* Any two instructions, and any three with at least two frame or constant
\* loads among them.
MCPairs   == [1 .. 2 -> MCInstructions]
MCTriples == {ins \in [1 .. 3 -> MCInstructions] :
                Quantify(1 .. 3, LAMBDA i : FrameLoads(ins[i][1]) > 0) >= 2}

MCRoutines == MCRoutinesOf(2, MCPairs) \cup MCRoutinesOf(3, MCTriples)
MCFew      == MCRoutinesOf(2, MCPairs)

MCDefault == [loads |-> TRUE, stores |-> FALSE, strided |-> TRUE,
              indirect |-> TRUE, frame |-> FALSE, funcExists |-> TRUE]

MCOptions == {MCDefault, [MCDefault EXCEPT !.frame = TRUE, !.stores = TRUE],
              [MCDefault EXCEPT !.funcExists = FALSE]}

MCDefaults == {MCDefault}
=============================================================================
