\* Every graph of four blocks, two of which can be loops of one block.
SPECIFICATION Spec
CONSTANTS
  b1 = b1
  b2 = b2
  b3 = b3
  b4 = b4
  entry = entry
  Blocks <- MCBlocks
  Entry = entry
  FirstBlock = b1
  CFGs <- MCGraphs
SYMMETRY Symmetry
CHECK_DEADLOCK FALSE
INVARIANT LoopsNested
INVARIANT SiblingsInOrder
INVARIANT EdgesMarked
