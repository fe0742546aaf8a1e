\* A fork or a clone, in every order of the two returns, VMI registration and the child's first blocks.
CONSTANTS
  Parent = Parent
  Child = Child
  Fds <- MCFds
  StdFds <- MCStd
  Paths <- MCPaths
  MaxPath = 2
  OpenDirs <- CwdAndFd3
  Dup2Pairs <- NoPairs
  CloseFds <- Fd3
  Ops <- ForkOps
  ForkKinds <- BothKinds
  TargetBits = 8
  Closed = Closed
  Std = Std
SPECIFICATION Spec
INVARIANT TypeOK
INVARIANT FdNamesAgree
PROPERTY EventuallyCopied
