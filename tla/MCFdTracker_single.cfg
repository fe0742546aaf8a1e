\* One process opening, duplicating, closing and reading descriptors.
CONSTANTS
  Parent = Parent
  Child = Child
  Fds <- MCFds
  StdFds <- MCStd
  Paths <- MCPaths
  MaxPath = 2
  OpenDirs <- CwdAndFd3
  Dup2Pairs <- StdoutOnto3
  CloseFds <- Fds0And3
  Ops <- SingleOps
  ForkKinds <- NoKinds
  TargetBits = 8
  Closed = Closed
  Std = Std
SPECIFICATION Spec
INVARIANT FdNamesAgree
