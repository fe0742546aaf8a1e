------------------------------ MODULE FdTracker ------------------------------
(* The syscalls plugin's file-descriptor tracker (fdtracker.cpp): a table  *)
(* fd -> file name per address space (asid_to_fds), kept up to date from   *)
(* the return callbacks of open/openat/dup, the entry callbacks of         *)
(* dup2/dup3, and, for a forked or cloned child, a copy of the parent's    *)
(* table made lazily when the VMI first knows the child.                   *)
(*                                                                         *)
(* The guest kernel is part of the model: real holds each process's real   *)
(* descriptor table, so that the tracker can be compared with it.  A       *)
(* process is its own pid and asid (one address space per process).  A     *)
(* file name is the sequence of path components the tracker would print:   *)
(* "" is << >>, dirname + "/" + path is Append(dirname, path).             *)
EXTENDS Integers, Sequences, FiniteSets, Functions, TLC

CONSTANTS
  Parent, Child,  \* the process that forks or clones, and its child
  Fds,            \* descriptor numbers, lowest first as the kernel hands them out
  StdFds,         \* descriptors open when tracking starts (inherited, name unknown)
  Paths,          \* path arguments of open/openat
  MaxPath,        \* longest name the kernel accepts (ENAMETOOLONG beyond)
  OpenDirs,       \* dfd arguments of openat; AT_FDCWD also stands for open()
  Dup2Pairs,      \* <<oldfd, newfd>> arguments of dup2/dup3
  CloseFds,       \* arguments of close
  Ops,            \* Ops[p]: the syscalls process p makes
  ForkKinds,      \* "fork" (VMI after-fork callback) and/or "clone" (return point)
  TargetBits,     \* width of target_ulong
  Closed, Std     \* a closed descriptor; one open before tracking began (model values)

Procs == {Parent, Child}
AT_FDCWD == -100
NULL_FD == 0
ULONG == 2 ^ TargetBits
(* get_return_val of a failed call: -1 as a target_ulong. *)
FailRet == ULONG - 1
(* asid_to_fds is map<int, string>: a target_ulong key is converted to int. *)
IntKey(x) == IF x >= ULONG \div 2 THEN x - ULONG ELSE x

Names == UNION {[1 .. n -> Paths] : n \in 0 .. MaxPath}
NoCall == [sys |-> "none"]
(* A descriptor's real entry is a name, not Std or Closed. *)
IsName(x) == x \notin {Std, Closed}

VARIABLES
  real,            \* real[p][fd]: the file open at fd, Std, or Closed (the kernel)
  alive,           \* processes that exist
  vmi,             \* processes the VMI's process list holds
  asid_to_fds,     \* asid -> (fd -> name): the tracker's tables, std::map semantics
  pending,         \* pending[p]: the syscall p is in, with its callback data
  outstanding_child_pids,        \* fork: child pid -> parent asid
  outstanding_child_asids,       \* fork: children that returned before the VMI knew them
  outstanding_clone_child_pids,  \* clone: child pid -> parent asid
  outstanding_clone_child_asids, \* clone: never appended to
  copyPending      \* history: a child whose copy of the parent's table is still to come

vars == <<real, alive, vmi, asid_to_fds, pending, outstanding_child_pids,
          outstanding_child_asids, outstanding_clone_child_pids,
          outstanding_clone_child_asids, copyPending>>
tracker == <<outstanding_child_pids, outstanding_child_asids,
             outstanding_clone_child_pids, outstanding_clone_child_asids>>

-----------------------------------------------------------------------------
(* std::map operations. *)

(* m[k] as an rvalue: the value, or "" after inserting it. *)
Lookup(m, k) == IF k \in DOMAIN m THEN m[k] ELSE << >>
(* m after evaluating m[k] (operator[] inserts a missing key). *)
Touch(m, k) == IF k \in DOMAIN m THEN m ELSE (k :> << >>) @@ m
(* m[k] = v. *)
Put(m, k, v) == (k :> v) @@ m
(* list::remove: every element equal to x. *)
Remove(s, x) == SelectSeq(s, LAMBDA y : y # x)

(* Mutant: copy_fds without the find() check, so parent entries replace  *)
(* the child's.                                                           *)
CopyFdsOverwrite(parent_asid, child_asid) ==
  asid_to_fds[parent_asid] @@ asid_to_fds[child_asid]
(* copy_fds: the parent's entries for descriptors the child has no entry  *)
(* for.                                                                   *)
CopyFds(parent_asid, child_asid) ==
  asid_to_fds[child_asid] @@ asid_to_fds[parent_asid]
CopyTo(parent_asid, child_asid) ==
  /\ asid_to_fds' = [asid_to_fds EXCEPT ![child_asid] = CopyFds(parent_asid, child_asid)]
  /\ copyPending' = (copyPending /\ child_asid # Child)

-----------------------------------------------------------------------------
(* The kernel. *)

LowestFree(p) == {f \in Fds : real[p][f] = Closed /\ \A g \in Fds : g < f => real[p][g] # Closed}
Running(p) == p \in alive /\ pending[p] = NoCall
Allowed(p, op) == op \in Ops[p]

(* The kernel's result of openat(dfd, path): the name, or Closed if it    *)
(* fails (bad dfd, not a directory, name too long).                       *)
OpenName(p, dfd, path) ==
  IF dfd = AT_FDCWD THEN <<path>>
  ELSE IF IsName(real[p][dfd]) /\ Len(real[p][dfd]) < MaxPath
         THEN Append(real[p][dfd], path)
         ELSE Closed

-----------------------------------------------------------------------------
(* open and openat: the entry callback saves path and base fd (AT_FDCWD  *)
(* and plain open have none); the return callback builds the name.        *)
OpenCall(p) ==
  /\ Running(p) /\ Allowed(p, "open")
  /\ \E dfd \in OpenDirs, path \in Paths :
       pending' = [pending EXCEPT ![p] = [sys |-> "open", path |-> path, dfd |-> dfd,
                                          base_fd |-> IF dfd = AT_FDCWD THEN NULL_FD ELSE dfd]]
  /\ UNCHANGED <<real, alive, vmi, asid_to_fds, tracker, copyPending>>

(* Mutant: the base directory's name is left out. *)
OpenCallbackNoDir(m, data, ret) ==
  IF ret = FailRet THEN m ELSE Put(m, IntKey(ret), <<data.path>>)
(* open_callback: nothing for a failed call; else the name is the base    *)
(* fd's name (if there is a base) followed by the path.                   *)
OpenCallback(m, data, ret) ==
  IF ret = FailRet THEN m
  ELSE IF data.base_fd # NULL_FD
         THEN Put(Touch(m, data.base_fd), IntKey(ret), Append(Lookup(m, data.base_fd), data.path))
         ELSE Put(m, IntKey(ret), <<data.path>>)

(* The kernel opens the lowest free descriptor, or fails (also for any    *)
(* reason the model does not track, such as a missing file).              *)
OpenReturn(p) ==
  /\ pending[p].sys = "open"
  /\ LET d == pending[p]
         name == OpenName(p, d.dfd, d.path)
     IN \E ok \in BOOLEAN :
          LET ret == IF ok /\ name # Closed /\ LowestFree(p) # {}
                       THEN CHOOSE f \in LowestFree(p) : TRUE ELSE FailRet
          IN /\ real' = IF ret = FailRet THEN real ELSE [real EXCEPT ![p][ret] = name]
             /\ asid_to_fds' = [asid_to_fds EXCEPT ![p] = OpenCallback(@, d, ret)]
  /\ pending' = [pending EXCEPT ![p] = NoCall]
  /\ UNCHANGED <<alive, vmi, tracker, copyPending>>

(* dup: the return callback maps the returned descriptor to oldfd's name. *)
DupCall(p) ==
  /\ Running(p) /\ Allowed(p, "dup")
  /\ \E old \in Fds :
       pending' = [pending EXCEPT ![p] = [sys |-> "dup", old_fd |-> old, new_fd |-> NULL_FD]]
  /\ UNCHANGED <<real, alive, vmi, asid_to_fds, tracker, copyPending>>

(* Mutant: the key is the target_ulong itself (a map keyed by target_ulong). *)
DupCallbackUlong(m, data, ret) ==
  LET new_fd == IF data.new_fd # NULL_FD THEN data.new_fd ELSE ret
  IN Put(Touch(m, data.old_fd), new_fd, Lookup(m, data.old_fd))
(* There is no check for a failed call: the key is then -1. *)
DupCallback(m, data, ret) ==
  LET new_fd == IF data.new_fd # NULL_FD THEN data.new_fd ELSE ret
  IN Put(Touch(m, data.old_fd), IntKey(new_fd), Lookup(m, data.old_fd))

DupReturn(p) ==
  /\ pending[p].sys = "dup"
  /\ LET d == pending[p]
         ret == IF real[p][d.old_fd] # Closed /\ LowestFree(p) # {}
                  THEN CHOOSE f \in LowestFree(p) : TRUE ELSE FailRet
     IN /\ real' = IF ret = FailRet THEN real ELSE [real EXCEPT ![p][ret] = real[p][d.old_fd]]
        /\ asid_to_fds' = [asid_to_fds EXCEPT ![p] = DupCallback(@, d, ret)]
  /\ pending' = [pending EXCEPT ![p] = NoCall]
  /\ UNCHANGED <<alive, vmi, tracker, copyPending>>

(* dup2 and dup3: the entry callback copies the name at once and returns  *)
(* before registering its return point; the kernel then does the dup, or *)
(* fails (a closed oldfd; dup3 with oldfd = newfd).                       *)
Dup2Call(p) ==
  /\ Running(p) /\ Allowed(p, "dup2")
  /\ \E pr \in Dup2Pairs, sys \in {"dup2", "dup3"} :
       /\ asid_to_fds' = [asid_to_fds EXCEPT ![p] =
                            Put(Touch(@, pr[1]), pr[2], Lookup(@, pr[1]))]
       /\ pending' = [pending EXCEPT ![p] = [sys |-> sys, old_fd |-> pr[1], new_fd |-> pr[2]]]
  /\ UNCHANGED <<real, alive, vmi, tracker, copyPending>>

Dup2Return(p) ==
  /\ pending[p].sys \in {"dup2", "dup3"}
  /\ LET d == pending[p]
     IN real' = IF real[p][d.old_fd] = Closed \/ (d.sys = "dup3" /\ d.old_fd = d.new_fd)
                  THEN real
                  ELSE [real EXCEPT ![p][d.new_fd] = real[p][d.old_fd]]
  /\ pending' = [pending EXCEPT ![p] = NoCall]
  /\ UNCHANGED <<alive, vmi, asid_to_fds, tracker, copyPending>>

(* close: the callback is empty. *)
Close(p) ==
  /\ Running(p) /\ Allowed(p, "close")
  /\ \E f \in CloseFds : real' = [real EXCEPT ![p][f] = Closed]
  /\ UNCHANGED <<alive, vmi, asid_to_fds, pending, tracker, copyPending>>

(* read, readv, pread64, write, pwrite64, writev: the callback prints     *)
(* asid_to_fds[asid][fd], inserting "" for an unknown descriptor.         *)
Read(p) ==
  /\ Running(p) /\ Allowed(p, "read")
  /\ \E f \in Fds : asid_to_fds' = [asid_to_fds EXCEPT ![p] = Touch(@, f)]
  /\ UNCHANGED <<real, alive, vmi, pending, tracker, copyPending>>

-----------------------------------------------------------------------------
(* fork and clone.  The kernel makes the child with a copy of the         *)
(* parent's descriptors; for clone (without CLONE_THREAD) the entry        *)
(* callback registers a return point in the parent's address space, so   *)
(* only the parent's return runs clone_callback; for fork the VMI's        *)
(* after-fork callback runs return_from_fork on both returns.             *)
ForkCall ==
  /\ Running(Parent) /\ Child \notin alive
  /\ \E kind \in ForkKinds :
       /\ pending' = [pending EXCEPT ![Parent] = [sys |-> kind],
                                     ![Child] = IF kind = "fork" THEN [sys |-> "fork_child"]
                                                ELSE NoCall]
  /\ alive' = alive \cup {Child}
  /\ real' = [real EXCEPT ![Child] = real[Parent]]
  /\ copyPending' = TRUE
  /\ UNCHANGED <<vmi, asid_to_fds, tracker>>

Erase(m, k) == Restrict(m, DOMAIN m \ {k})

(* Mutant: the parent forgets to log the child when the VMI does not know *)
(* it yet.                                                                *)
ParentForkReturnNoRecord ==
  /\ pending[Parent].sys = "fork"
  /\ IF Child \notin vmi
       THEN UNCHANGED <<asid_to_fds, outstanding_child_asids, copyPending>>
       ELSE /\ CopyTo(Parent, Child)
            /\ outstanding_child_asids' = Remove(outstanding_child_asids, Child)
  /\ pending' = [pending EXCEPT ![Parent] = NoCall]
  /\ UNCHANGED <<real, alive, vmi, outstanding_child_pids, outstanding_clone_child_pids,
                 outstanding_clone_child_asids>>
(* return_from_fork in the parent: log the child's pid if the VMI does   *)
(* not know it yet, else copy the table now.                              *)
ParentForkReturn ==
  /\ pending[Parent].sys = "fork"
  /\ IF Child \notin vmi
       THEN /\ outstanding_child_pids' = Put(outstanding_child_pids, Child, Parent)
            /\ UNCHANGED <<asid_to_fds, outstanding_child_asids, copyPending>>
       ELSE /\ CopyTo(Parent, Child)
            /\ outstanding_child_asids' = Remove(outstanding_child_asids, Child)
            /\ UNCHANGED outstanding_child_pids
  /\ pending' = [pending EXCEPT ![Parent] = NoCall]
  /\ UNCHANGED <<real, alive, vmi, outstanding_clone_child_pids, outstanding_clone_child_asids>>

(* return_from_fork in the child: copy if the parent already logged our  *)
(* pid and the VMI knows us, else log our asid.                           *)
ChildForkReturn ==
  /\ pending[Child].sys = "fork_child"
  /\ IF Child \in vmi /\ Child \in DOMAIN outstanding_child_pids
       THEN /\ CopyTo(outstanding_child_pids[Child], Child)
            /\ outstanding_child_pids' = Erase(outstanding_child_pids, Child)
            /\ UNCHANGED outstanding_child_asids
       ELSE /\ outstanding_child_asids' = Append(outstanding_child_asids, Child)
            /\ UNCHANGED <<asid_to_fds, outstanding_child_pids, copyPending>>
  /\ pending' = [pending EXCEPT ![Child] = NoCall]
  /\ UNCHANGED <<real, alive, vmi, outstanding_clone_child_pids, outstanding_clone_child_asids>>

(* clone_callback in the parent (the call succeeded; the child is a       *)
(* process, not thread-like).                                             *)
CloneReturn ==
  /\ pending[Parent].sys = "clone"
  /\ IF Child \notin vmi
       THEN /\ outstanding_clone_child_pids' = Put(outstanding_clone_child_pids, Child, Parent)
            /\ UNCHANGED <<asid_to_fds, outstanding_clone_child_asids, copyPending>>
       ELSE /\ CopyTo(Parent, Child)
            /\ outstanding_clone_child_asids' = Remove(outstanding_clone_child_asids, Child)
            /\ UNCHANGED outstanding_clone_child_pids
  /\ pending' = [pending EXCEPT ![Parent] = NoCall]
  /\ UNCHANGED <<real, alive, vmi, outstanding_child_pids, outstanding_child_asids>>

(* The VMI's process list picks up the child. *)
VmiRegister ==
  /\ Child \in alive \ vmi
  /\ vmi' = vmi \cup {Child}
  /\ UNCHANGED <<real, alive, asid_to_fds, pending, tracker, copyPending>>

(* Before each block of process p: preExecForkCopier and                 *)
(* preExecCloneCopier copy the table of a parent that logged p's pid.     *)
PreExecForkCopier(p) ==
  /\ p \in alive
  /\ DOMAIN outstanding_child_pids # {}
  /\ p \in vmi
  /\ p \in DOMAIN outstanding_child_pids
  /\ CopyTo(outstanding_child_pids[p], p)
  /\ outstanding_child_pids' = Erase(outstanding_child_pids, p)
  /\ UNCHANGED <<real, alive, vmi, pending, outstanding_child_asids,
                 outstanding_clone_child_pids, outstanding_clone_child_asids>>

PreExecCloneCopier(p) ==
  /\ p \in alive
  /\ DOMAIN outstanding_clone_child_pids # {}
  /\ p \in vmi
  /\ p \in DOMAIN outstanding_clone_child_pids
  /\ CopyTo(outstanding_clone_child_pids[p], p)
  /\ outstanding_clone_child_pids' = Erase(outstanding_clone_child_pids, p)
  /\ UNCHANGED <<real, alive, vmi, pending, outstanding_child_pids,
                 outstanding_child_asids, outstanding_clone_child_asids>>

-----------------------------------------------------------------------------
EmptyMap == [f \in {} |-> << >>]

Init ==
  /\ real = [p \in Procs |-> [f \in Fds |-> IF p = Parent /\ f \in StdFds THEN Std ELSE Closed]]
  /\ alive = {Parent}
  /\ vmi = {Parent}
  /\ asid_to_fds = [p \in Procs |-> EmptyMap]
  /\ pending = [p \in Procs |-> NoCall]
  /\ outstanding_child_pids = EmptyMap
  /\ outstanding_child_asids = << >>
  /\ outstanding_clone_child_pids = EmptyMap
  /\ outstanding_clone_child_asids = << >>
  /\ copyPending = FALSE

Next ==
  \/ \E p \in Procs :
       \/ OpenCall(p) \/ OpenReturn(p)
       \/ DupCall(p) \/ DupReturn(p)
       \/ Dup2Call(p) \/ Dup2Return(p)
       \/ Close(p) \/ Read(p)
       \/ PreExecForkCopier(p) \/ PreExecCloneCopier(p)
  \/ ForkCall \/ ParentForkReturn \/ ChildForkReturn \/ CloneReturn
  \/ VmiRegister

(* Syscalls return, the VMI eventually lists a running process, and the   *)
(* guest scheduler runs the child's blocks: the kernel and the guest      *)
(* scheduler, not the plugin, guarantee these.  No process is forced to   *)
(* make a syscall.                                                        *)
Fairness ==
  /\ \A p \in Procs : WF_vars(OpenReturn(p)) /\ WF_vars(DupReturn(p)) /\ WF_vars(Dup2Return(p))
  /\ WF_vars(ParentForkReturn) /\ WF_vars(ChildForkReturn) /\ WF_vars(CloneReturn)
  /\ WF_vars(VmiRegister)
  /\ WF_vars(PreExecForkCopier(Child)) /\ WF_vars(PreExecCloneCopier(Child))

Spec == Init /\ [][Next]_vars /\ Fairness

-----------------------------------------------------------------------------
(* Properties. *)

TrackedKeys == Fds \cup {IntKey(FailRet)}

TypeOK ==
  /\ \A p \in Procs, f \in Fds : real[p][f] \in {Std, Closed} \/ real[p][f] \in Names
  /\ alive \subseteq Procs /\ vmi \subseteq Procs
  /\ \A p \in Procs : DOMAIN asid_to_fds[p] \subseteq TrackedKeys
  /\ DOMAIN outstanding_child_pids \subseteq Procs
  /\ DOMAIN outstanding_clone_child_pids \subseteq Procs
  /\ copyPending \in BOOLEAN

(* fd of p is tracked right: a descriptor the tracked calls opened has    *)
(* its name in the table, and a non-empty name in the table of an open    *)
(* descriptor is its real name.                                           *)
Agrees(p, f) ==
  LET t == asid_to_fds[p]
  IN /\ IsName(real[p][f]) => f \in DOMAIN t /\ t[f] = real[p][f]
     /\ real[p][f] # Closed /\ f \in DOMAIN t /\ t[f] # << >> => t[f] = real[p][f]

(* Whenever a process is between syscalls, and (for the child) once its   *)
(* copy of the parent's table has been made, the tracker's name for each  *)
(* of its descriptors is what the kernel has open there: open/openat name *)
(* building, dup/dup2/dup3 copying, copy_fds at fork and clone, and the   *)
(* entries other callbacks insert together keep the table right.          *)
FdNamesAgree ==
  \A p \in alive :
    pending[p] = NoCall /\ ~(p = Child /\ copyPending) => \A f \in Fds : Agrees(p, f)

(* A forked or cloned child gets its copy of the parent's table, whichever *)
(* of parent return, child return, VMI registration and the child's first *)
(* blocks comes first.                                                    *)
EventuallyCopied == copyPending ~> ~copyPending
=============================================================================
