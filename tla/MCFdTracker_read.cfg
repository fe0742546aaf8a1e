\* The child reads an inherited descriptor before its copy is made.
CONSTANTS
  Parent = Parent
  Child = Child
  Fds <- MCFds
  StdFds <- MCStd
  Paths <- MCPaths
  MaxPath = 2
  OpenDirs <- CwdAndFd3
  Dup2Pairs <- NoPairs
  CloseFds <- Fd3
  Ops <- ReadOps
  ForkKinds <- ForkOnly
  TargetBits = 8
  Closed = Closed
  Std = Std
SPECIFICATION Spec
INVARIANT FdNamesAgree
