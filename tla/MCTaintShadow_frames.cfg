\* LLVM values of neighbouring frames in shad->llv.
CONSTANTS
  Labels = {1}
  Pcs = {p1, p2}
  NumVals = 2
  MaxRegSize = 2
  FunctionFrames = 2
  NumRegs = 1
  WordSize = 1
  NumSpecAddrs = 1
  MapSize <- OpsMapSize
  Addrs <- FrameAddrs
  MaxBulk = 1
  MaxCallDepth = 2
  TaintedPointer = FALSE
  TaintedInstructions = FALSE
  MallocMaps <- MCMallocMaps
SPECIFICATION Spec
PROPERTY NoLlvAliasing
\* An assert() or an out-of-bounds write ends the process: those states
\* have no successor.
CHECK_DEADLOCK FALSE
