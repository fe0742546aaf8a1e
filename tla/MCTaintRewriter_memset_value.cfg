\* A memset whose fill is a loaded value: the rewriter cannot finish the function.
CONSTANTS
  MAXREGSIZE = 4
  NumVals = 5
  RegSize = 2
  NumRegs = 1
  MemBytes = 2
  MaxInsts = 3
  EntryNamed = FALSE
  Kinds <- MCKindsMemsetValue
SPECIFICATION Spec
INVARIANT RewriteCompletes
\* A translated function ends with its return.
CHECK_DEADLOCK FALSE
