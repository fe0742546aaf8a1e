----------------------------- MODULE MCFdTracker -----------------------------
(* Descriptor tables of four entries, stdin/stdout/stderr open at the      *)
(* start (except where a run needs descriptor 0 free), two path names,     *)
(* names of up to two components, an 8-bit target_ulong.                  *)
EXTENDS FdTracker

MCFds == 0 .. 3
MCStd == {0, 1, 2}
NoFds == {}
MCPaths == {"a", "b"}
CwdAndFd3 == {AT_FDCWD, 3}
CwdAndFd0 == {AT_FDCWD, 0}
NoPairs == {}
StdoutOnto3 == {<<1, 3>>}
Fd3Onto0 == {<<3, 0>>}
Fd3 == {3}
Fds0And3 == {0, 3}
BothKinds == {"fork", "clone"}
ForkOnly == {"fork"}
NoKinds == {}

(* Which syscalls each process makes, per run. *)
ForkOps      == [p \in {Parent, Child} |-> IF p = Parent THEN {"open", "dup"} ELSE {"open", "close"}]
SingleOps    == [p \in {Parent, Child} |-> IF p = Parent THEN {"open", "dup", "dup2", "close", "read"} ELSE {}]
LazyOps      == [p \in {Parent, Child} |-> IF p = Parent THEN {"open", "close"} ELSE {}]
ReadOps      == [p \in {Parent, Child} |-> IF p = Parent THEN {"open"} ELSE {"read"}]
Dup2FailOps  == [p \in {Parent, Child} |-> IF p = Parent THEN {"open", "close", "dup2"} ELSE {}]
OpenOnlyOps  == [p \in {Parent, Child} |-> IF p = Parent THEN {"open"} ELSE {}]
=============================================================================
