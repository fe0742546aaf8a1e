\* The rewritten code of every handler kind, on functions of up to
\* MaxInsts instructions over two 2-byte registers (shadowed in 4-byte cells) and 3 bytes of RAM.
CONSTANTS
  MAXREGSIZE = 4
  NumVals = 6
  RegSize = 2
  NumRegs = 2
  MemBytes = 3
  MaxInsts = 4
  EntryNamed = FALSE
  Kinds <- MCKindsFaithful
SPECIFICATION Spec
INVARIANTS TypeOK RewriteFaithful MemlogBalanced
\* A translated function ends with its return.
CHECK_DEADLOCK FALSE
