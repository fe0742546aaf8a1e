\* Branch, switch, phi and select, re-run with every logged outcome.
CONSTANTS
  Labels = {1}
  Pcs = {p1}
  NumVals = 4
  MaxRegSize = 1
  FunctionFrames = 1
  NumRegs = 1
  WordSize = 1
  NumSpecAddrs = 1
  MapSize <- OneByteMap
  Addrs <- NoneSet
  MaxBulk = 1
  MaxCallDepth = 0
  TaintedPointer = FALSE
  TaintedInstructions = FALSE
  MallocMaps <- NoMalloc
  Insns <- ControlInsns
  Paths <- ControlPaths
  MemEntries <- MemEntrySet
  PortEntries <- PortSet
  SwitchValues = {5, 7, 9}
  EnvAddrs <- ControlEnv
SPECIFICATION Spec
INVARIANT InstructionEffect
INVARIANT NoFatalAssert
