\* dup2/dup3 from a closed descriptor.
CONSTANTS
  Parent = Parent
  Child = Child
  Fds <- MCFds
  StdFds <- MCStd
  Paths <- MCPaths
  MaxPath = 2
  OpenDirs <- CwdAndFd3
  Dup2Pairs <- Fd3Onto0
  CloseFds <- Fd3
  Ops <- Dup2FailOps
  ForkKinds <- NoKinds
  TargetBits = 8
  Closed = Closed
  Std = Std
SPECIFICATION Spec
INVARIANT FdNamesAgree
