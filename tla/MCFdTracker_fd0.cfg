\* openat relative to a directory opened as descriptor 0.
CONSTANTS
  Parent = Parent
  Child = Child
  Fds <- MCFds
  StdFds <- NoFds
  Paths <- MCPaths
  MaxPath = 2
  OpenDirs <- CwdAndFd0
  Dup2Pairs <- NoPairs
  CloseFds <- Fd3
  Ops <- OpenOnlyOps
  ForkKinds <- NoKinds
  TargetBits = 8
  Closed = Closed
  Std = Std
SPECIFICATION Spec
INVARIANT FdNamesAgree
