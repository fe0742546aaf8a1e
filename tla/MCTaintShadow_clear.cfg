\* clear_shadow_memory over malloced shadow maps.
CONSTANTS
  Labels = {1}
  Pcs = {p1, p2}
  NumVals = 2
  MaxRegSize = 2
  FunctionFrames = 2
  NumRegs = 1
  WordSize = 1
  NumSpecAddrs = 1
  MapSize <- OpsMapSize
  Addrs <- ClearAddrs
  MaxBulk = 1
  MaxCallDepth = 2
  TaintedPointer = FALSE
  TaintedInstructions = FALSE
  MallocMaps <- MCMallocMaps
SPECIFICATION Spec
PROPERTY ClearLeavesNoTaint
\* An assert() or an out-of-bounds write ends the process: those states
\* have no successor.
CHECK_DEADLOCK FALSE
