CONSTANTS
  MAXREGSIZE = 4
  NumVals = 5
  RegSize = 2
  NumRegs = 1
  MemBytes = 2
  MaxInsts = 3
  EntryNamed = FALSE
  Kinds <- MCKindsRetValue
SPECIFICATION Spec
INVARIANT RewriteFaithful
\* A translated function ends with its return.
CHECK_DEADLOCK FALSE
