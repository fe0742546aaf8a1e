\* A one-byte memcpy re-run with every pair of logged addresses.
CONSTANTS
  Labels = {1}
  Pcs = {p1}
  NumVals = 4
  MaxRegSize = 1
  FunctionFrames = 1
  NumRegs = 1
  WordSize = 1
  NumSpecAddrs = 1
  MapSize <- OneByteMap
  Addrs <- NoneSet
  MaxBulk = 1
  MaxCallDepth = 0
  TaintedPointer = FALSE
  TaintedInstructions = FALSE
  MallocMaps <- NoMalloc
  Insns <- MemcpyInsns
  Paths <- MemcpyPaths
  MemEntries <- MemEntrySet
  PortEntries <- PortSet
  SwitchValues = {5, 7, 9}
  EnvAddrs <- MemEnv
SPECIFICATION Spec
INVARIANT InstructionEffect
\* A failed assert() ends the process: such states have no successor.
CHECK_DEADLOCK FALSE
