\* The shadow operations of top_process over one address of each kind.
CONSTANTS
  Labels = {1, 2}
  Pcs = {p1}
  NumVals = 2
  MaxRegSize = 2
  FunctionFrames = 2
  NumRegs = 1
  WordSize = 1
  NumSpecAddrs = 1
  MapSize <- OpsMapSize
  Addrs <- OpsAddrs
  MaxBulk = 1
  MaxCallDepth = 2
  TaintedPointer = TRUE
  TaintedInstructions = FALSE
  MallocMaps <- MCMallocMaps
SPECIFICATION Spec
INVARIANT TypeOK
\* An assert() or an out-of-bounds write ends the process: those states
\* have no successor.
CHECK_DEADLOCK FALSE
