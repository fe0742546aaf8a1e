\* A phi re-run from both predecessors.
CONSTANTS
  Labels = {1}
  Pcs = {p1}
  NumVals = 4
  MaxRegSize = 1
  FunctionFrames = 1
  NumRegs = 1
  WordSize = 1
  NumSpecAddrs = 1
  MapSize <- OneByteMap
  Addrs <- NoneSet
  MaxBulk = 1
  MaxCallDepth = 0
  TaintedPointer = FALSE
  TaintedInstructions = FALSE
  MallocMaps <- NoMalloc
  Insns <- PhiInsns
  Paths <- PhiPaths
  MemEntries <- MemEntrySet
  PortEntries <- PortSet
  SwitchValues = {5, 7, 9}
  EnvAddrs <- PhiEnv
SPECIFICATION Spec
INVARIANT InstructionEffect
