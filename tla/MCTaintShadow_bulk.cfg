\* Bulk copies between disk and RAM, PC ops and the tpc set.
CONSTANTS
  Labels = {1}
  Pcs = {p1, p2}
  NumVals = 2
  MaxRegSize = 2
  FunctionFrames = 2
  NumRegs = 1
  WordSize = 1
  NumSpecAddrs = 1
  MapSize <- BulkMapSize
  Addrs <- BulkAddrSet
  MaxBulk = 2
  MaxCallDepth = 0
  TaintedPointer = FALSE
  TaintedInstructions = TRUE
  MallocMaps <- MCMallocMaps
SPECIFICATION Spec
PROPERTY BulkCopyDelivers
