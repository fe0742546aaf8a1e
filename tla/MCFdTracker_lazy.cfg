\* The parent reuses a descriptor between fork and the child's copy.
CONSTANTS
  Parent = Parent
  Child = Child
  Fds <- MCFds
  StdFds <- MCStd
  Paths <- MCPaths
  MaxPath = 2
  OpenDirs <- CwdAndFd3
  Dup2Pairs <- NoPairs
  CloseFds <- Fd3
  Ops <- LazyOps
  ForkKinds <- ForkOnly
  TargetBits = 8
  Closed = Closed
  Std = Std
SPECIFICATION Spec
INVARIANT FdNamesAgree
