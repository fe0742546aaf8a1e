--------------------------- MODULE TaintOpBuffer ---------------------------
(***************************************************************************)
(* A translated block's cached taint-op buffer, run again and again, with  *)
(* the INSNSTART fix-up of process_insn_start_op (taint_processor.cpp):    *)
(* before an instruction's ops run, one dynamic-value-log entry is read    *)
(* and the ops that follow are patched in place.  The patched ops are then *)
(* executed by top_process, whose cases are the actions of TaintShadow.    *)
(*                                                                         *)
(* Insns is the static table of instructions the rewriter emitted: each    *)
(* has the INSNSTART fields (name, whether it reads the log, branch,       *)
(* switch and phi tables) and the ops that follow it as first emitted.     *)
(* A run of the buffer follows one of Paths, a sequence of instruction     *)
(* ids; the guest decides which entries the instrumented code logs.        *)
(***************************************************************************)
EXTENDS Integers, Sequences, FiniteSets

CONSTANTS
  Labels, Pcs, NumVals, MaxRegSize, FunctionFrames, NumRegs, WordSize,
  NumSpecAddrs, MapSize, Addrs, MaxBulk, MaxCallDepth, TaintedPointer,
  TaintedInstructions, MallocMaps,
  Insns,        \* instruction id -> INSNSTART record with its emitted ops
  Paths,        \* the instruction sequences a run of the buffer can take
  MemEntries,   \* addresses a logged load or store can carry
  PortEntries,  \* port addresses a logged port access can carry
  SwitchValues, \* values a logged switch condition can take
  EnvAddrs      \* addresses the guest can label between runs

VARIABLES
  shad, current_frame, pc, taint_state_changed, tpc, status, changed,
  ops,             \* <<insn, k>> -> the k-th op after insn's INSNSTART, as patched
  path, pos, k,    \* the run: its path, the instruction, 0 = INSNSTART next
  entry,           \* the log entry the current instruction read
  next_step, previous_branch, taken_branch,   \* the globals of the same names
  snap,            \* history: the shadow when the current instruction started
  last             \* history: the instruction last completed, or NoInsn

S == INSTANCE TaintShadow

shadowVars == <<shad, current_frame, pc, taint_state_changed, tpc, status, changed>>
vars == <<shadowVars, ops, path, pos, k, entry, next_step, previous_branch,
          taken_branch, snap, last>>

NoInsn == [i |-> 0]
NoEntry == [kind |-> "NONE"]

OpIds == UNION {{<<i, j>> : j \in 1 .. Len(Insns[i].ops)} : i \in DOMAIN Insns}
NumOps(i) == Len(Insns[i].ops)
Ins == path[pos]

(* The entries a logged instruction can read: an exception marker, or the *)
(* entry kind its instrumentation writes.                                 *)
Exception == [kind |-> "EXCEPTION"]
Mem(a)  == [kind |-> "ADDR", addr |-> a]
Port(a) == [kind |-> "PADDR", addr |-> a]
EntriesFor(i) ==
  {Exception} \cup
  CASE Insns[i].name \in {"load", "store"} /\ Insns[i].port -> {Port(a) : a \in PortEntries}
    [] Insns[i].name \in {"load", "store"} -> {Mem(a) : a \in MemEntries}
    [] Insns[i].name = "memset"     -> {Mem(a) : a \in MemEntries}
    [] Insns[i].name = "memcpy"     ->
         {[kind |-> "ADDR2", addr |-> a, addr2 |-> b] : a, b \in MemEntries}
    [] Insns[i].name = "condbranch" -> {[kind |-> "BRANCH", br |-> b] : b \in BOOLEAN}
    [] Insns[i].name = "switch"     -> {[kind |-> "SWITCH", cond |-> v] : v \in SwitchValues}
    [] Insns[i].name = "select"     -> {[kind |-> "SELECT", sel |-> b] : b \in BOOLEAN}

-----------------------------------------------------------------------------
(* Patching one address from a memory-access entry: an IRRELEVANT access *)
(* only sets the flag; a register, special or RAM access sets flag, type *)
(* and value; any other kind fails the assert.                            *)
(* Mutant: a relevant access leaves a flag an earlier IRRELEVANT access  *)
(* set.                                                                    *)
PatchAddrKeepFlag(x, e) ==
  IF e.flag = "IRRELEVANT" THEN [x EXCEPT !.flag = "IRRELEVANT"]
  ELSE [x EXCEPT !.typ = e.typ, !.val = e.val]
PatchAddr(x, e) ==
  IF e.flag = "IRRELEVANT" THEN [x EXCEPT !.flag = "IRRELEVANT"]
  ELSE [x EXCEPT !.flag = "NONE", !.typ = e.typ, !.val = e.val]
(* Mutant: the GREG case is missing, so a register access asserts. *)
PatchAssertsNoGreg(e) ==
  e.flag # "IRRELEVANT" /\ e.typ \notin {"GSPEC", "MADDR"}
PatchAsserts(e) ==
  e.flag # "IRRELEVANT" /\ e.typ \notin {"GREG", "GSPEC", "MADDR"}

(* Port accesses patch the address to the logged port. *)
PatchPort(x, e) == [x EXCEPT !.flag = "NONE", !.typ = "PADDR", !.val = e.val]

(* load: the source of each COPY. *)
LoadFix(op, e) ==
  IF e.kind = "PADDR" THEN [op EXCEPT !.a = PatchPort(@, e.addr)]
  ELSE [op EXCEPT !.a = PatchAddr(@, e.addr)]

(* store: the destination of COPY and DELETE; in tainted-pointer mode the *)
(* b and c of a COMPUTE, unless an IRRELEVANT access only flags them, or  *)
(* b and c are both already resolved (not UNK), in which case the op is   *)
(* left as it is.                                                         *)
StoreFix(op, e) ==
  CASE e.kind = "PADDR" /\ op.typ = "COPY"   -> [op EXCEPT !.b = PatchPort(@, e.addr)]
    [] e.kind = "PADDR" /\ op.typ = "DELETE" -> [op EXCEPT !.a = PatchPort(@, e.addr)]
    [] op.typ = "COPY"   -> [op EXCEPT !.b = PatchAddr(@, e.addr)]
    [] op.typ = "DELETE" -> [op EXCEPT !.a = PatchAddr(@, e.addr)]
    [] op.typ = "COMPUTE" /\ ~TaintedPointer -> op
    [] op.typ = "COMPUTE" /\ e.addr.flag = "IRRELEVANT" ->
         [op EXCEPT !.b.flag = "IRRELEVANT", !.c.flag = "IRRELEVANT"]
    [] op.typ = "COMPUTE" /\ op.b.typ # "UNK" /\ op.c.typ # "UNK" -> op
    [] op.typ = "COMPUTE" ->
         [op EXCEPT !.b = PatchAddr(@, e.addr), !.c = PatchAddr(@, e.addr)]

(* memset: the address of each DELETE.  memcpy: the source of each COPY  *)
(* from the second entry read, the destination from the first.           *)
MemsetFix(op, e) == [op EXCEPT !.a = PatchAddr(@, e.addr)]
MemcpyFix(op, e) == [op EXCEPT !.a = PatchAddr(@, e.addr), !.b = PatchAddr(@, e.addr2)]

(* The op kinds each fix-up accepts; any other fails assert(1==0). *)
FixAccepts(name, e, op) ==
  CASE name = "load"   -> op.typ = "COPY"
    [] name = "store"  -> IF e.kind = "PADDR" THEN op.typ \in {"COPY", "DELETE"}
                          ELSE op.typ \in {"COPY", "DELETE", "COMPUTE"}
    [] name = "memset" -> op.typ = "DELETE"
    [] name = "memcpy" -> op.typ = "COPY"
    [] name = "phi"    -> op.typ = "COPY"
    [] OTHER           -> TRUE

(* select: the source becomes the chosen LLVM slot; a constant choice     *)
(* (-1) turns the op into a DELETE whose address (the same union member   *)
(* as the COPY's source) takes the destination's slot.                    *)
SelectFix(op, choice) ==
  IF choice = -1
    THEN [op EXCEPT !.typ = "DELETE", !.a.flag = "NONE", !.a.typ = "LADDR",
                    !.a.val = op.b.val]
    ELSE [op EXCEPT !.a.flag = "NONE", !.a.typ = "LADDR", !.a.val = choice]

(* phi: the source slot paired with the block that branched here. *)
(* Mutant: the loop stops one predecessor short. *)
PhiIndexShort(i, pb) ==
  {j \in 1 .. Len(Insns[i].phiLabels) - 1 : Insns[i].phiLabels[j] = pb}
PhiIndex(i, pb) == {j \in DOMAIN Insns[i].phiLabels : Insns[i].phiLabels[j] = pb}
PhiFix(op, src) == [op EXCEPT !.a.flag = "NONE", !.a.typ = "LADDR", !.a.val = src]
PhiSource(i, pb) == Insns[i].phiVals[CHOOSE j \in PhiIndex(i, pb) : \A x \in PhiIndex(i, pb) : j <= x]

(* switch: the label of the first case whose value matches, or the last   *)
(* label (the default) when none does; the search covers len-1 cases.     *)
(* Mutant: the default is taken from switch_labels[len-2]. *)
SwitchTargetDefaultShort(i, v) ==
  IF {j \in 1 .. Len(Insns[i].switchLabels) - 1 : Insns[i].switchConds[j] = v} = {}
    THEN Insns[i].switchLabels[Len(Insns[i].switchLabels) - 1]
    ELSE Insns[i].switchLabels[CHOOSE j \in 1 .. Len(Insns[i].switchLabels) - 1 :
                                 /\ Insns[i].switchConds[j] = v
                                 /\ \A x \in 1 .. j - 1 : Insns[i].switchConds[x] # v]
(* condbranch: branch_labels[0] when the logged br is false, else [1]. *)
BranchTarget(i, e) == Insns[i].labels[IF e.br THEN 2 ELSE 1]

SwitchMatch(i, v) == {j \in 1 .. Len(Insns[i].switchLabels) - 1 : Insns[i].switchConds[j] = v}
SwitchTarget(i, v) ==
  IF SwitchMatch(i, v) = {} THEN Insns[i].switchLabels[Len(Insns[i].switchLabels)]
  ELSE Insns[i].switchLabels[CHOOSE j \in SwitchMatch(i, v) : \A x \in SwitchMatch(i, v) : j <= x]

-----------------------------------------------------------------------------
(* Moving on: the instruction is done; the run goes on to the next one,  *)
(* or ends after the last.                                               *)
Finish(e) ==
  /\ last' = [i |-> Ins, e |-> e, pb |-> previous_branch]
  /\ k' = 0
  /\ IF pos = Len(path) THEN pos' = 0 ELSE pos' = pos + 1

(* The fix-up of one op of instruction i for entry e: the case of the    *)
(* instruction's name.                                                    *)
FixOp(i, op, e) ==
  CASE Insns[i].name = "load"   -> LoadFix(op, e)
    [] Insns[i].name = "store"  -> StoreFix(op, e)
    [] Insns[i].name = "memset" -> MemsetFix(op, e)
    [] Insns[i].name = "memcpy" -> MemcpyFix(op, e)
    [] Insns[i].name = "select" -> SelectFix(op, Insns[i].labels[IF e.sel THEN 2 ELSE 1])
    [] Insns[i].name = "phi"    -> PhiFix(op, PhiSource(i, previous_branch))

(* The loop over the num_ops ops that follow the INSNSTART, each fixed up *)
(* in place.                                                              *)
Patched(i, e) ==
  [id \in OpIds |-> IF id[1] = i THEN FixOp(i, ops[id], e) ELSE ops[id]]

Running == status = "run"
Stop(why) == /\ status' = why
             /\ UNCHANGED <<shad, current_frame, pc, taint_state_changed, tpc, changed>>

(* The fix-up for instruction i and entry e, once the entry is read: the  *)
(* ops' new contents, the globals, and where execution goes next.         *)
Fixup(i, e) ==
  LET name == Insns[i].name
      own  == {id \in OpIds : id[1] = i}
  IN
  CASE name \in {"load", "store", "memset", "memcpy"} /\
       \E id \in own :
         \/ ~FixAccepts(name, e, ops[id])
         \/ e.kind = "ADDR" /\ PatchAsserts(e.addr)
         \/ e.kind = "ADDR2" /\ (PatchAsserts(e.addr) \/ PatchAsserts(e.addr2)) ->
         /\ Stop("assert")
         /\ UNCHANGED <<ops, path, pos, k, next_step, previous_branch, taken_branch, last>>
    [] name \in {"load", "store", "memset", "memcpy", "select"} ->
         /\ ops' = Patched(i, e)
         /\ next_step' = next_step
         /\ UNCHANGED <<previous_branch, taken_branch, status, shadowVars>>
         /\ IF NumOps(i) = 0 THEN Finish(e) ELSE k' = 1 /\ UNCHANGED <<pos, last>>
    [] name = "condbranch" ->
         /\ previous_branch' = Insns[i].bb
         /\ taken_branch' = BranchTarget(i, e)
         /\ next_step' = "BRANCH"
         /\ UNCHANGED <<ops, shadowVars>>
         /\ Finish(e)
    [] name = "switch" ->
         /\ previous_branch' = Insns[i].bb
         /\ taken_branch' = SwitchTarget(i, e.cond)
         /\ next_step' = "SWITCHSTEP"
         /\ UNCHANGED <<ops, shadowVars>>
         /\ Finish(e)
    [] name = "phi" /\ PhiIndex(i, previous_branch) = {} ->
         /\ Stop("assert")
         /\ UNCHANGED <<ops, path, pos, k, next_step, previous_branch, taken_branch, last>>
    [] name = "phi" /\ PhiSource(i, previous_branch) = -1 ->
         /\ UNCHANGED <<ops, next_step, previous_branch, taken_branch, shadowVars>>
         /\ Finish(e)
    [] name = "phi" ->
         /\ \A id \in own : FixAccepts(name, e, ops[id])
         /\ ops' = Patched(i, e)
         /\ UNCHANGED <<next_step, previous_branch, taken_branch, shadowVars>>
         /\ k' = 1 /\ UNCHANGED <<pos, last>>

(* INSNSTARTOP -> process_insn_start_op.  An instruction that reads the   *)
(* log consumes one entry (memcpy two); an exception entry sets next_step *)
(* to EXCEPT and the rest of the block is not run.                        *)
InsnStart ==
  /\ Running
  /\ pos # 0 /\ k = 0
  /\ snap' = shad
  /\ IF Insns[Ins].readlog
       THEN \E e \in EntriesFor(Ins) :
              /\ entry' = e
              /\ IF e.kind = "EXCEPTION"
                   THEN /\ next_step' = "EXCEPT"
                        /\ pos' = 0 /\ last' = NoInsn
                        /\ UNCHANGED <<ops, k, previous_branch, taken_branch, shadowVars>>
                   ELSE Fixup(Ins, e)
       ELSE /\ entry' = NoEntry
            /\ Fixup(Ins, NoEntry)
  /\ UNCHANGED path

(* One op of the current instruction, run by top_process. *)
Exec(op) ==
  CASE op.typ = "COPY"    -> S!CopyOp(op.a, op.b)
    [] op.typ = "DELETE"  -> S!DeleteOp(op.a)
    [] op.typ = "COMPUTE" -> S!ComputeOp(op.a, op.b, op.c)

ExecOp ==
  /\ Running
  /\ pos # 0 /\ k # 0
  /\ Exec(ops[<<Ins, k>>])
  /\ IF k = NumOps(Ins) THEN Finish(entry) ELSE k' = k + 1 /\ UNCHANGED <<pos, last>>
  /\ UNCHANGED <<ops, path, entry, next_step, previous_branch, taken_branch, snap>>

(* A run of the cached buffer starts along one of the paths. *)
StartRun ==
  /\ Running
  /\ pos = 0
  /\ \E p \in Paths : path' = p
  /\ pos' = 1 /\ k' = 0
  /\ entry' = NoEntry /\ snap' = shad /\ last' = NoInsn
  /\ UNCHANGED <<shadowVars, ops, next_step, previous_branch, taken_branch>>

(* Between runs the guest labels data (a LABEL op of another buffer). *)
Env ==
  /\ Running
  /\ pos = 0
  /\ \E a \in EnvAddrs, l \in Labels : S!LabelOp(a, l)
  /\ entry' = NoEntry /\ snap' = shad' /\ last' = NoInsn
  /\ UNCHANGED <<ops, path, pos, k, next_step, previous_branch, taken_branch>>

Init ==
  /\ S!Init
  /\ ops = [id \in OpIds |-> Insns[id[1]].ops[id[2]]]
  /\ path = << >> /\ pos = 0 /\ k = 0
  /\ entry = NoEntry
  /\ next_step = "NONE" /\ previous_branch = 0 /\ taken_branch = 0
  /\ snap = shad
  /\ last = NoInsn

Next == InsnStart \/ ExecOp \/ StartRun \/ Env

Spec == Init /\ [][Next]_vars

-----------------------------------------------------------------------------
(* Properties.                                                             *)

LA(v) == [typ |-> "LADDR", val |-> v, off |-> 0, flag |-> "NONE"]
Irrelevant(x) == x.flag = "IRRELEVANT"
Before(x) == S!GetIn(snap, x)
(* The cells that differ from the snapshot lie in C, and x holds v. *)
OnlyWrites(C) == \A c \in S!Cells \ C : shad[c] = snap[c]
Holds(x, v) == OnlyWrites({S!CellOf(x)}) /\ S!Get(x) = v
(* The slot a select or phi copies from: the selected or the incoming     *)
(* block's value, -1 for a constant.                                      *)
Chosen(l) ==
  IF Insns[l.i].name = "select"
    THEN Insns[l.i].labels[IF l.e.sel THEN 2 ELSE 1]
    ELSE PhiSource(l.i, l.pb)
FromSlot(v) == IF v = -1 THEN {} ELSE Before(LA(v))
(* The pointer slots of a store's tainted-pointer COMPUTE ops. *)
PointerTaint(l, x) ==
  IF TaintedPointer /\ x.typ \notin {"GREG", "GSPEC"}
    THEN UNION {Before(Insns[l.i].ops[j].a) :
                  j \in {j \in 1 .. NumOps(l.i) : Insns[l.i].ops[j].typ = "COMPUTE"}}
    ELSE {}

(* Every instruction of a re-run buffer does what spec section 4.4 says   *)
(* with the entry it read this time, whatever earlier runs patched in:    *)
(* a load copies the logged source into its slot, a store copies its      *)
(* value (in tainted-pointer mode unioned with the pointer's labels) to   *)
(* the logged destination, memset deletes, memcpy copies source to        *)
(* destination, select and phi copy the chosen source (delete for a       *)
(* constant), and nothing else in the shadow changes.  Branch and switch  *)
(* set taken_branch to the logged branch's label, or the matching case's  *)
(* label, or the default.                                                 *)
InstructionEffect ==
  k = 0 /\ last # NoInsn /\ status = "run" =>
    LET l == last
        I == Insns[l.i]
        e == l.e
    IN CASE I.name = "load" ->
              Holds(LA(I.dst), IF Irrelevant(e.addr) THEN {} ELSE Before(e.addr))
         [] I.name = "store" /\ Irrelevant(e.addr) -> OnlyWrites({})
         [] I.name = "store" ->
              Holds(e.addr, Before(LA(I.src)) \cup PointerTaint(l, e.addr))
         [] I.name = "memset" /\ Irrelevant(e.addr) -> OnlyWrites({})
         [] I.name = "memset" -> Holds(e.addr, {})
         [] I.name = "memcpy" /\ Irrelevant(e.addr2) -> OnlyWrites({})
         [] I.name = "memcpy" ->
              Holds(e.addr2, IF Irrelevant(e.addr) THEN {} ELSE Before(e.addr))
         [] I.name \in {"select", "phi"} -> Holds(LA(I.dst), FromSlot(Chosen(l)))
         [] I.name = "condbranch" ->
              OnlyWrites({}) /\ taken_branch = I.labels[IF e.br THEN 2 ELSE 1]
         [] I.name = "switch" ->
              /\ OnlyWrites({})
              /\ taken_branch =
                   IF \E j \in DOMAIN I.switchConds : I.switchConds[j] = e.cond
                     THEN I.switchLabels[CHOOSE j \in DOMAIN I.switchConds :
                                           /\ I.switchConds[j] = e.cond
                                           /\ \A x \in 1 .. j - 1 : I.switchConds[x] # e.cond]
                     ELSE I.switchLabels[Len(I.switchLabels)]


(* No run of the buffer, whatever entries earlier runs patched in, ends   *)
(* in a failed assert() of the fix-up or of the ops it patched (an UNK    *)
(* address reaching tp_delete or tp_labelset_get).                        *)
NoFatalAssert == status # "assert"

=============================================================================
