\* Recording of taint-changing PCs in tpc.
CONSTANTS
  Labels = {1}
  Pcs = {p1, p2}
  NumVals = 2
  MaxRegSize = 2
  FunctionFrames = 2
  NumRegs = 1
  WordSize = 1
  NumSpecAddrs = 1
  MapSize <- OpsMapSize
  Addrs <- TpcAddrs
  MaxBulk = 1
  MaxCallDepth = 2
  TaintedPointer = FALSE
  TaintedInstructions = TRUE
  MallocMaps <- MCMallocMaps
SPECIFICATION Spec
PROPERTY TpcRecordsChangingPcs
\* An assert() or an out-of-bounds write ends the process: those states
\* have no successor.
CHECK_DEADLOCK FALSE
