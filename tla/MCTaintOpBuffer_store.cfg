\* A tainted-pointer store re-run with different destinations.
CONSTANTS
  Labels = {1}
  Pcs = {p1}
  NumVals = 4
  MaxRegSize = 1
  FunctionFrames = 1
  NumRegs = 1
  WordSize = 1
  NumSpecAddrs = 1
  MapSize <- OneByteMap
  Addrs <- NoneSet
  MaxBulk = 1
  MaxCallDepth = 0
  TaintedPointer = TRUE
  TaintedInstructions = FALSE
  MallocMaps <- NoMalloc
  Insns <- StoreInsns
  Paths <- StorePaths
  MemEntries <- StoreEntrySet
  PortEntries <- PortSet
  SwitchValues = {5, 7, 9}
  EnvAddrs <- StoreEnv
SPECIFICATION Spec
INVARIANT InstructionEffect
