---------------------------- MODULE TaintRewriter ----------------------------
(* The LLVM taint rewriter of taint2_llvm_taint_lib.cpp and the run-time  *)
(* helpers its emitted calls invoke.  A function is built one instruction *)
(* at a time: each step is one visit* handler of PandaTaintVisitor, which *)
(* yields the sequence of helper calls it inserts (in the order they run  *)
(* after LLVM's insertBefore/insertAfter), and those calls run at once on *)
(* the shadows, as the rewritten instruction executes.  The helpers live  *)
(* in the taint ops bitcode, which is not in this tree: their semantics  *)
(* follow spec section 4.3.  Beside the shadows the module keeps the      *)
(* taint that spec section 4.3's per-opcode table gives each value, CPU   *)
(* state byte and RAM byte: the reference the rewritten code must meet.   *)
(* Labels are provenance labels: every byte of guest state starts with a  *)
(* label of its own, so a taint from the wrong byte is always visible.    *)
EXTENDS Integers, Sequences, FiniteSets

CONSTANTS
  MAXREGSIZE,   \* bytes of LLVM shadow per value slot
  NumVals,      \* slots in the frame (shad->num_vals)
  RegSize,      \* sizeof(CPUState.regs[0]), at most MAXREGSIZE
  NumRegs,      \* guest registers in CPUState.regs
  MemBytes,     \* bytes of guest RAM
  MaxInsts,     \* bound on the instructions of the function
  EntryNamed,   \* whether the entry block is named "entry" (no slot)
  Kinds         \* the instruction kinds the function may contain

ASSUME RegSize <= MAXREGSIZE /\ NumVals >= MaxInsts + 2

VARIABLES
  vals,     \* the function's SSA values, args first: [idx, slot, bits, const]
  fNext,    \* PandaSlotTracker's next free slot
  ninsts,   \* instructions visited so far
  phase,    \* "entry" before visitFunction's clear, then "body", then "done";
            \* "aborted" when the rewriter fails an assertion
  llv,      \* LLVM value shadow of the function's frame and its callee's
  grv,      \* guest register shadow: register * MAXREGSIZE + byte -> labels
  mem,      \* RAM shadow: address -> labels
  memlog,   \* the dynamic address log (taint2_memlog), a stack
  prev_bb,  \* shad->prev_bb, written by the breadcrumb
  ret,      \* shad->ret: the shadow of the value the function returns
  refret,   \* reference taint of the returned value
  ref,     \* reference taint of each value: byte -> labels
  refcpu,   \* reference taint of the CPUState.regs bytes
  refmem    \* reference taint of RAM

(* The LLV shadow of a frame; frame 1 is the frame of a helper the      *)
(* function calls.                                                        *)
FrameBytes == MAXREGSIZE * NumVals
LlvBytes == 0..(2 * FrameBytes - 1)

vars == <<vals, fNext, ninsts, phase, llv, grv, mem, memlog, prev_bb, ret, refret, ref, refcpu, refmem>>

Bytes(n) == 0..(n - 1)
NoTaint(n) == [k \in Bytes(n) |-> {}]
U(bs) == UNION {bs[k] : k \in DOMAIN bs}

(* getValueSize: bytes of a value of the given width. *)
getValueSize(v) == IF v.bits < 8 THEN 1 ELSE v.bits \div 8

(* A constant operand, and the slot lookup: constants have no slot. *)
Const(b) == [idx |-> 0, slot |-> -1, bits |-> b, const |-> TRUE]
getLocalSlot(v) == v.slot
constSlot(v) == MAXREGSIZE * getLocalSlot(v)

(* Arguments of a helper call: a fixed offset, or an address popped off *)
(* the memlog into the named temporary by an earlier call.               *)
At(n) == [pop |-> "", at |-> n]
Popped(name) == [pop |-> name, at |-> 0]

(* A NULL source or destination of insertTaintBulk. *)
NULL == [pop |-> "NULL"]

(* insertLogPop: a call to taint2_memlog_pop. *)
insertLogPop(name) == [f |-> "pop", name |-> name]

(* Mutant of insertTaintBulk: the source's pop runs first. *)
insertTaintBulkSrcFirst(fn, dsh, dest, ssh, src, size) ==
  LET Off(sh, x, name) ==
        IF x = NULL THEN Popped(name)
        ELSE IF sh = "llv" THEN At(constSlot(x)) ELSE x
  IN  (IF src = NULL THEN << insertLogPop("src") >> ELSE << >>)
      \o (IF dest = NULL THEN << insertLogPop("dest") >> ELSE << >>)
      \o << [f |-> fn, dsh |-> dsh, d |-> Off(dsh, dest, "dest"),
             ssh |-> ssh, s |-> Off(ssh, src, "src"), n |-> size] >>

(* insertTaintBulk: a missing source or destination is popped from the   *)
(* memlog (the destination's pop is inserted last, right after I, so it  *)
(* runs first); LLVM registers are turned into slots; the helper runs    *)
(* after the pops.                                                        *)
insertTaintBulk(fn, dsh, dest, ssh, src, size) ==
  LET Off(sh, x, name) ==
        IF x = NULL THEN Popped(name)
        ELSE IF sh = "llv" THEN At(constSlot(x)) ELSE x
  IN  (IF dest = NULL THEN << insertLogPop("dest") >> ELSE << >>)
      \o (IF src = NULL THEN << insertLogPop("src") >> ELSE << >>)
      \o << [f |-> fn, dsh |-> dsh, d |-> Off(dsh, dest, "dest"),
             ssh |-> ssh, s |-> Off(ssh, src, "src"), n |-> size] >>

insertTaintCopy(dsh, dest, ssh, src, size) == insertTaintBulk("copy", dsh, dest, ssh, src, size)
insertTaintMove(dsh, dest, ssh, src, size) == insertTaintBulk("move", dsh, dest, ssh, src, size)

(* insertTaintMix: nothing for a constant source. *)
insertTaintMix(dest, src) ==
  IF src.const THEN << >>
  ELSE << [f |-> "mix", d |-> constSlot(dest), dn |-> getValueSize(dest),
           s |-> constSlot(src), sn |-> getValueSize(src)] >>

(* insertTaintCompute: nothing for two constants; a mix or a copy of the *)
(* other operand for one; else a mixed or parallel compute.              *)
insertTaintCompute(dest, src1, src2, is_mixed) ==
  IF src1.const /\ src2.const THEN << >>
  ELSE IF src1.const \/ src2.const
  THEN LET tainted == IF src1.const THEN src2 ELSE src1
       IN  IF is_mixed THEN insertTaintMix(dest, tainted)
           ELSE insertTaintCopy("llv", dest, "llv", tainted, getValueSize(src2))
  ELSE << [f |-> IF is_mixed THEN "mix_compute" ELSE "parallel_compute",
           d |-> constSlot(dest), dn |-> getValueSize(dest),
           s1 |-> constSlot(src1), s2 |-> constSlot(src2), sn |-> getValueSize(src1)] >>

insertTaintSext(dest, src) ==
  << [f |-> "sext", d |-> constSlot(dest), dn |-> getValueSize(dest),
      s |-> constSlot(src), sn |-> getValueSize(src)] >>

DeleteCall(sh, d, size) == [f |-> "delete", dsh |-> sh, d |-> d, n |-> size]

insertTaintDelete(sh, dest, size) ==
  << DeleteCall(sh, IF sh = "llv" THEN At(constSlot(dest)) ELSE dest, size) >>

-----------------------------------------------------------------------------
(* The run-time helpers (spec section 4.3), on a record of the shadows.  *)
(* An offset outside a shadow array is undefined behaviour in the code;  *)
(* the outcome modelled is that the read sees no labels and the write    *)
(* lands outside the modelled shadows.                                   *)
(* An LLV offset is relative to the current frame.                       *)
Base(st, sh) == IF sh = "llv" THEN st.frame * FrameBytes ELSE 0
Read(st, sh, i) ==
  IF Base(st, sh) + i \in DOMAIN st[sh] THEN st[sh][Base(st, sh) + i] ELSE {}
ReadN(st, sh, off, n) == [k \in Bytes(n) |-> Read(st, sh, off + k)]
WriteN(st, sh, off, bs) ==
  LET at == Base(st, sh) + off
  IN  [st EXCEPT ![sh] = [i \in DOMAIN st[sh] |-> IF i - at \in DOMAIN bs THEN bs[i - at] ELSE st[sh][i]]]
Resolve(st, a) == IF a.pop = "" THEN a.at ELSE st.pops[a.pop]

Exec(st, c) ==
  CASE c.f = "push_frame" -> [st EXCEPT !.frame = @ + 1]
    [] c.f = "pop_frame" -> [st EXCEPT !.frame = @ - 1]
    [] c.f = "pop" ->
         [st EXCEPT !.pops = [@ EXCEPT ![c.name] = st.memlog[Len(st.memlog)]],
                    !.memlog = SubSeq(@, 1, Len(@) - 1)]
    [] c.f \in {"copy", "move"} ->
         WriteN(st, c.dsh, Resolve(st, c.d), ReadN(st, c.ssh, Resolve(st, c.s), c.n))
    [] c.f = "mix" ->
         WriteN(st, "llv", c.d, [k \in Bytes(c.dn) |-> U(ReadN(st, "llv", c.s, c.sn))])
    [] c.f = "mix_compute" ->
         WriteN(st, "llv", c.d, [k \in Bytes(c.dn) |->
                  U(ReadN(st, "llv", c.s1, c.sn)) \cup U(ReadN(st, "llv", c.s2, c.sn))])
    [] c.f = "parallel_compute" ->
         WriteN(st, "llv", c.d, [k \in Bytes(c.dn) |->
                  Read(st, "llv", c.s1 + k) \cup Read(st, "llv", c.s2 + k)])
    [] c.f = "sext" ->
         WriteN(st, "llv", c.d, [k \in Bytes(c.dn) |->
                  Read(st, "llv", c.s + (IF k < c.sn THEN k ELSE c.sn - 1))])
    [] c.f = "delete" ->
         WriteN(st, c.dsh, Resolve(st, c.d), NoTaint(c.n))
    [] c.f = "set" ->
         WriteN(st, "mem", Resolve(st, c.d), [k \in Bytes(c.n) |-> Read(st, "llv", c.s)])
    [] c.f = "host_copy" ->
         IF c.is_store THEN WriteN(st, "grv", c.g, ReadN(st, "llv", c.l, c.n))
         ELSE WriteN(st, "llv", c.l, ReadN(st, "grv", c.g, c.n))

RECURSIVE Run(_, _)
Run(st, calls) == IF calls = << >> THEN st ELSE Run(Exec(st, Head(calls)), Tail(calls))

(* The instruction executes: the guest's memory accesses push their      *)
(* addresses on the memlog, then the inserted calls run.                 *)
Execute(pushes, calls) ==
  LET st == Run([llv |-> llv, grv |-> grv, mem |-> mem, ret |-> ret,
                 memlog |-> memlog \o pushes, frame |-> 0, pops |-> [dest |-> 0, src |-> 0]], calls)
  IN  /\ llv' = st.llv /\ grv' = st.grv /\ mem' = st.mem /\ ret' = st.ret
      /\ memlog' = st.memlog

-----------------------------------------------------------------------------
(* The reference taint of an operand, and of CPU state and RAM ranges.   *)
RefOf(v) == IF v.const THEN NoTaint(getValueSize(v)) ELSE ref[v.idx]
RefRange(f, off, n) == [k \in Bytes(n) |-> f[off + k]]
Overwrite(f, off, bs) == [i \in DOMAIN f |-> IF i - off \in DOMAIN bs THEN bs[i - off] ELSE f[i]]

Values == {vals[i] : i \in DOMAIN vals}
Operands == Values \cup {Const(b) : b \in {8, 16}}

(* Mutant of NewVal: a slot skipped before each instruction. *)
NewValSkip(b) == [idx |-> Len(vals) + 1, slot |-> fNext + 1, bits |-> b, const |-> FALSE]

(* A new non-void instruction: the next slot (CreateFunctionSlot). *)
NewVal(b) == [idx |-> Len(vals) + 1, slot |-> fNext, bits |-> b, const |-> FALSE]

Body(kind) == phase = "body" /\ ninsts < MaxInsts /\ kind \in Kinds

(* A non-void instruction I, its inserted calls and its reference taint; *)
(* a call also sets the reference of shad->ret.                          *)
DefineRet(I, pushes, calls, refI, rret) ==
  /\ Execute(pushes, calls)
  /\ vals' = Append(vals, I) /\ ref' = Append(ref, refI)
  /\ fNext' = fNext + 1 /\ ninsts' = ninsts + 1
  /\ refret' = rret
  /\ UNCHANGED <<phase, prev_bb, refcpu, refmem>>

Define(I, pushes, calls, refI) == DefineRet(I, pushes, calls, refI, refret)

(* A void instruction: no slot; it may change CPU state or RAM. *)
Effect(pushes, calls, cpu, ram) ==
  /\ Execute(pushes, calls)
  /\ refcpu' = cpu /\ refmem' = ram
  /\ ninsts' = ninsts + 1
  /\ UNCHANGED <<vals, ref, fNext, phase, prev_bb, refret>>

-----------------------------------------------------------------------------
(* The handlers.  Opcode classes of visitBinaryOperator, and the casts of *)
(* visitCastInst with the widths LLVM allows each of them.                *)
MixedOps == {"Add", "Shl"}
ParallelOps == {"And", "Xor"}
CastOk(opc, sb, db) ==
  CASE opc \in {"SExt", "ZExt"} -> sb < db
    [] opc = "Trunc" -> sb > db
    [] opc = "BitCast" -> sb = db
    [] opc = "SIToFP" -> TRUE

(* visitFunction: before the first instruction the whole LLV frame is   *)
(* deleted (MAXREGSIZE * num_vals bytes from slot 0).                    *)
visitFunction ==
  /\ phase = "entry"
  /\ Execute(<< >>, << DeleteCall("llv", At(0), MAXREGSIZE * NumVals) >>)
  /\ phase' = "body"
  /\ UNCHANGED <<vals, fNext, ninsts, prev_bb, refret, ref, refcpu, refmem>>

(* visitBinaryOperator: mixed compute for arithmetic and shifts, parallel *)
(* for and/or/xor.  Reference: spec 4.3's table row for the opcode.      *)
visitBinaryOperator(opc, x, y) ==
  LET I == NewVal(x.bits)
      n == getValueSize(I)
      is_mixed == opc \in MixedOps
  IN  /\ Body("binop") /\ x.bits = y.bits
      /\ Define(I, << >>, insertTaintCompute(I, x, y, is_mixed),
                IF is_mixed THEN [k \in Bytes(n) |-> U(RefOf(x)) \cup U(RefOf(y))]
                ELSE [k \in Bytes(n) |-> RefOf(x)[k] \cup RefOf(y)[k]])

(* visitCmpInst: a mixed compute onto the one-byte i1 result. *)
visitCmpInst(x, y) ==
  LET I == NewVal(1)
  IN  /\ Body("cmp") /\ x.bits = y.bits
      /\ Define(I, << >>, insertTaintCompute(I, x, y, TRUE),
                [k \in Bytes(1) |-> U(RefOf(x)) \cup U(RefOf(y))])

(* visitCastInst: FP conversions mix; a widening sext is a sext; every   *)
(* other cast (a sext that does not widen included) copies              *)
(* min(srcSize, destSize) bytes.                                          *)
visitCastInst(opc, src, db) ==
  LET I == NewVal(db)
      srcSize == getValueSize(src)
      destSize == getValueSize(I)
      m == IF srcSize < destSize THEN srcSize ELSE destSize
  IN  /\ Body("cast") /\ ~src.const /\ CastOk(opc, src.bits, db)
      /\ Define(I, << >>,
                CASE opc = "SIToFP" -> insertTaintMix(I, src)
                  [] opc = "SExt" /\ destSize > srcSize -> insertTaintSext(I, src)
                  [] OTHER -> insertTaintCopy("llv", I, "llv", src, m),
                CASE opc = "SIToFP" -> [k \in Bytes(destSize) |-> U(RefOf(src))]
                  [] opc = "SExt" /\ destSize > srcSize ->
                       [k \in Bytes(destSize) |-> RefOf(src)[IF k < srcSize THEN k ELSE srcSize - 1]]
                  [] OTHER -> [k \in Bytes(destSize) |-> IF k < m THEN RefOf(src)[k] ELSE {}])

(* visitGetElementPtrInst: a mix from operand 0, which in translated    *)
(* code is the env pointer; its comment says the result's taint is       *)
(* deleted, and that is the reference.                                   *)
visitGetElementPtrInst ==
  LET I == NewVal(16)
  IN  /\ Body("gep")
      /\ Define(I, << >>, insertTaintMix(I, vals[1]), NoTaint(getValueSize(I)))

(* The guest register a CPUState offset lies in (getAddr's GREG case),   *)
(* and the grv byte insertStateOp, or taint_host_copy's run-time lookup, *)
(* makes of it: register * MAXREGSIZE + offset within the register.      *)
RegOffsets == 0..(NumRegs * RegSize - 1)
GrvAddr(o) == (o \div RegSize) * MAXREGSIZE + (o % RegSize)

(* The accesses TCG emits to CPUState.regs: aligned, within one register. *)
InOneReg(o, size) == o % size = 0 /\ (o % RegSize) + size <= RegSize /\ o \in RegOffsets

(* A void instruction: no slot, so getLocalSlot yields -1. *)
VoidInst == [idx |-> 0, slot |-> -1, bits |-> 0, const |-> FALSE]

(* visitLoadInst (insertStateOp) of CPUState at offset o, whose address  *)
(* is inttoptr(add(env, o)): getAddr finds GREG statically and the value *)
(* gets a copy of the register's shadow bytes.                            *)
visitLoadInst(o, b) ==
  LET I == NewVal(b)
      size == getValueSize(I)
  IN  /\ Body("load_state") /\ InOneReg(o, size)
      /\ Define(I, << >>, insertTaintCopy("llv", I, "grv", At(GrvAddr(o)), size),
                RefRange(refcpu, o, size))

(* visitStoreInst of value x to CPUState offset o.  A volatile store is  *)
(* skipped.  Otherwise insertStateOp asks getAddr about operand 0, which *)
(* for a store is the value, not the pointer; a value that is not an     *)
(* inttoptr fails it, so the run-time taint_host_copy is emitted with    *)
(* the store's own slot (constSlot of a void instruction) as the LLV      *)
(* side and the flag true.  Reference: the stored bytes take the value's *)
(* taint; a volatile store changes no guest state.                       *)
visitStoreInst(x, o, volatile) ==
  LET size == getValueSize(x)
  IN  /\ Body(IF volatile THEN "store_volatile" ELSE "store_state")
      /\ x.bits >= 8 /\ InOneReg(o, size)
      /\ IF volatile
         THEN Effect(<< >>, << >>, refcpu, refmem)
         ELSE Effect(<< >>, << [f |-> "host_copy", g |-> GrvAddr(o), l |-> constSlot(VoidInst),
                               n |-> size, is_store |-> TRUE] >>,
                     Overwrite(refcpu, o, RefOf(x)), refmem)

(* visitCallInst, __ld?_mmu_panda at guest address a: the access logs a, *)
(* and the value gets a copy of RAM's shadow from the popped address.    *)
visitCallInst_ld(a, b) ==
  LET I == NewVal(b)
      size == getValueSize(I)
  IN  /\ Body("mmu_load") /\ a + size <= MemBytes
      /\ Define(I, << a >>, insertTaintCopy("llv", I, "mem", NULL, size),
                RefRange(refmem, a, size))

(* visitCallInst, __st?_mmu_panda of x at guest address a: the access    *)
(* logs a.  A non-constant x is copied to RAM's shadow at the popped     *)
(* address.  For a constant x the code deletes getValueSize(x) bytes at  *)
(* the LLV slot of the call itself, which has none, and pops nothing.    *)
(* Reference (spec 4.3): a constant source deletes the destination.      *)
visitCallInst_st(x, a) ==
  LET size == getValueSize(x)
  IN  /\ Body(IF x.const THEN "mmu_store_const" ELSE "mmu_store")
      /\ x.bits >= 8 /\ a + size <= MemBytes
      /\ Effect(<< a >>,
                IF x.const THEN insertTaintDelete("llv", VoidInst, size)
                ELSE insertTaintCopy("mem", NULL, "llv", x, size),
                refcpu, Overwrite(refmem, a, RefOf(x)))

(* visitCallInst of a modelled computation: the intrinsics bswap and    *)
(* ctlz and the math functions of the first list (sin, ..., exp2) mix    *)
(* their first operand into the result; the intrinsic                   *)
(* uadd.with.overflow, whose {iN, i1} result takes 2N bits with padding, *)
(* and ldexp and atan2 are a mixed compute of the two.  One name stands  *)
(* for each list: the lists differ only in the name the code matches.    *)
(* Reference: every result byte depends on every operand byte.           *)
MixCalls == {"bswap", "sin"}
ComputeCalls == {"uadd_with_overflow", "ldexp"}

visitCallInst_compute(fn, x, y) ==
  LET I == NewVal(IF fn = "uadd_with_overflow" THEN 2 * x.bits ELSE x.bits)
      srcs == IF fn \in MixCalls THEN {x} ELSE {x, y}
  IN  /\ Body(IF fn \in MixCalls THEN "call_mix" ELSE "call_compute")
      /\ IF fn \in MixCalls THEN y = x
         ELSE y.bits = x.bits \/ (fn = "ldexp" /\ y.bits < x.bits)
      /\ getValueSize(I) <= MAXREGSIZE
      /\ Define(I, << >>,
                IF fn \in MixCalls THEN insertTaintMix(I, x)
                ELSE insertTaintCompute(I, x, y, TRUE),
                [k \in Bytes(getValueSize(I)) |-> UNION {U(RefOf(v)) : v \in srcs}])

(* visitCallInst of a call it leaves alone: helper_in? (a port read;      *)
(* "for now do nothing"), helper_out? and the taint* functions (void),   *)
(* and an intrinsic it does not support ("Note: unsupported intrinsic"). *)
(* No taint code is inserted.  Reference: a port read carries no label   *)
(* of the modelled guest state; an intrinsic's result depends on its     *)
(* operand.                                                               *)
visitCallInst_untracked(fn, x) ==
  CASE fn = "helper_inb" ->
         /\ Body("call_untracked")
         /\ Define(NewVal(8), << >>, << >>, NoTaint(1))
    [] fn \in {"helper_outb", "taint_sym_label"} ->
         /\ Body("call_untracked")
         /\ Effect(<< >>, << >>, refcpu, refmem)
    [] fn = "unsupported_intrinsic" ->
         /\ Body(IF x.const THEN "intrinsic_other_const" ELSE "intrinsic_other")
         /\ Define(NewVal(x.bits), << >>, << >>, [k \in Bytes(getValueSize(x)) |-> U(RefOf(x))])

(* visitCallInst of any other function, a helper: before the call, each *)
(* non-constant argument's shadow is copied to slot (num_vals + i) of    *)
(* the frame, that is to the callee's slot i, then push_frame; after it, *)
(* pop_frame and, for a non-void call, a copy of MAXREGSIZE bytes of     *)
(* shad->ret to the call's slot.  The helper is itself rewritten: its   *)
(* visitFunction clears its frame, and it returns its one argument x     *)
(* (slot 0) through its visitReturnInst, or returns void.                *)
(* Reference: the call's result is its argument.                         *)
HelperBody(x, void) ==
  << DeleteCall("llv", At(0), FrameBytes) >>
  \o (IF void THEN << >>
      ELSE << [f |-> "copy", dsh |-> "ret", d |-> At(0), ssh |-> "llv",
               s |-> At(0), n |-> getValueSize(x)] >>)

visitCallInst_helper(x, void) ==
  LET I == NewVal(x.bits)
      argcopy == IF x.const THEN << >>
                 ELSE << [f |-> "copy", dsh |-> "llv", d |-> At(NumVals * MAXREGSIZE),
                          ssh |-> "llv", s |-> At(constSlot(x)), n |-> getValueSize(x)] >>
      calls == argcopy \o << [f |-> "push_frame"] >> \o HelperBody(x, void)
               \o << [f |-> "pop_frame"] >>
               \o (IF void THEN << >>
                   ELSE << [f |-> "copy", dsh |-> "llv", d |-> At(constSlot(I)),
                            ssh |-> "ret", s |-> At(0), n |-> MAXREGSIZE] >>)
  IN  /\ Body(CASE void -> "helper_void" [] x.const -> "helper_const_arg"
                [] OTHER -> "helper_value")
      /\ x.bits >= 8
      /\ IF void THEN Effect(<< >>, calls, refcpu, refmem)
         ELSE DefineRet(I, << >>, calls, RefOf(x), Overwrite(refret, 0, RefOf(x)))

(* visitMemCpyInst / visitMemMoveInst of len bytes from s to d: the      *)
(* guest logs the source, then the destination ("Src will be below       *)
(* dest"); both are popped, destination first.  A memcpy's ranges do not *)
(* overlap; a memmove's may.                                              *)
visitMemTransferInst(move, s, d, len) ==
  /\ Body(IF move THEN "memmove" ELSE "memcpy")
  /\ s + len <= MemBytes /\ d + len <= MemBytes
  /\ move \/ s + len <= d \/ d + len <= s
  /\ Effect(<< s, d >>,
            IF move THEN insertTaintMove("mem", NULL, "mem", NULL, len)
            ELSE insertTaintCopy("mem", NULL, "mem", NULL, len),
            refcpu, Overwrite(refmem, d, RefRange(refmem, s, len)))

(* Mutant of visitMemSetInst: the destination is not popped. *)
visitMemSetInstNoPop(d, len, fill) ==
  /\ Body("memset") /\ fill.const /\ fill.bits = 8 /\ d + len <= MemBytes
  /\ Effect(<< d >>, << DeleteCall("mem", Popped("dest"), len) >>,
            refcpu, Overwrite(refmem, d, NoTaint(len)))

(* visitMemSetInst of len bytes at d with the byte fill: the destination *)
(* is popped and a constant fill deletes.  For any other fill the code   *)
(* inserts a call to setF, which doInitialization never looks up (the    *)
(* taint_set helper is missing from its list), so inlineCallAfter's      *)
(* assert(F) fails, or, with asserts off, CallInst::Create is handed a   *)
(* null or indeterminate function: either way the rewrite of the        *)
(* function does not complete.                                           *)
visitMemSetInst(d, len, fill) ==
  \/ /\ Body("memset") /\ fill.const /\ fill.bits = 8 /\ d + len <= MemBytes
     /\ Effect(<< d >>,
               << insertLogPop("dest"), DeleteCall("mem", Popped("dest"), len) >>,
               refcpu, Overwrite(refmem, d, NoTaint(len)))
  \/ /\ Body("memset_value") /\ ~fill.const /\ fill.bits = 8 /\ d + len <= MemBytes
     /\ phase' = "aborted"
     /\ UNCHANGED <<vals, fNext, ninsts, llv, grv, mem, memlog, prev_bb, ret,
                    refret, ref, refcpu, refmem>>

(* visitBasicBlock: the breadcrumb before the block's terminator stores *)
(* the block's slot in prev_bb.                                          *)
visitBasicBlock(BB) == prev_bb' = constSlot(BB)

(* visitReturnInst, at the end of the single block: returning a value    *)
(* copies its shadow to shad->ret from LLV offset getLocalSlot(ret).     *)
(* Reference: shad->ret holds the returned value's taint.                *)
visitReturnInst(r) ==
  LET BB == [slot |-> IF EntryNamed THEN -1 ELSE 1]
  IN  /\ phase = "body" /\ (IF r = NULL THEN "ret_void" ELSE "ret_value") \in Kinds
      /\ r /= NULL => r.bits >= 8
      /\ Execute(<< >>, IF r = NULL THEN << >>
                        ELSE << [f |-> "copy", dsh |-> "ret", d |-> At(0), ssh |-> "llv",
                                 s |-> At(getLocalSlot(r)), n |-> getValueSize(r)] >>)
      /\ refret' = IF r = NULL THEN refret ELSE Overwrite(refret, 0, RefOf(r))
      /\ visitBasicBlock(BB)
      /\ phase' = "done"
      /\ UNCHANGED <<vals, fNext, ninsts, ref, refcpu, refmem>>

-----------------------------------------------------------------------------
(* Guest state: every register byte and RAM byte carries its own label;  *)
(* the frame's LLV shadow holds what earlier functions left; the env     *)
(* argument (slot 0) is untainted.                                       *)
Init ==
  /\ vals = << [idx |-> 1, slot |-> 0, bits |-> 16, const |-> FALSE] >>
  /\ fNext = IF EntryNamed THEN 1 ELSE 2
  /\ ninsts = 0
  /\ phase = "entry"
  /\ llv = [i \in LlvBytes |-> {<<"stale">>}]
  /\ grv = [i \in 0..(NumRegs * MAXREGSIZE - 1) |->
              IF (i % MAXREGSIZE) < RegSize THEN {<<"reg", i \div MAXREGSIZE, i % MAXREGSIZE>>} ELSE {}]
  /\ refcpu = [o \in RegOffsets |-> {<<"reg", o \div RegSize, o % RegSize>>}]
  /\ mem = [a \in 0..(MemBytes - 1) |-> {<<"mem", a>>}]
  /\ refmem = mem
  /\ memlog = << >>
  /\ prev_bb = 0
  /\ ret = NoTaint(MAXREGSIZE)
  /\ refret = NoTaint(MAXREGSIZE)
  /\ ref = << NoTaint(2) >>

Addrs == 0..(MemBytes - 1)

Next ==
  \/ visitFunction
  \/ \E opc \in MixedOps \cup ParallelOps, x, y \in Operands : visitBinaryOperator(opc, x, y)
  \/ \E x, y \in Operands : visitCmpInst(x, y)
  \/ \E opc \in {"SExt", "ZExt", "Trunc", "BitCast", "SIToFP"}, x \in Values, b \in {8, 16} :
       visitCastInst(opc, x, b)
  \/ visitGetElementPtrInst
  \/ \E o \in RegOffsets, b \in {8, 16} : visitLoadInst(o, b)
  \/ \E x \in Operands, o \in RegOffsets, volatile \in BOOLEAN : visitStoreInst(x, o, volatile)
  \/ \E a \in Addrs, b \in {8, 16} : visitCallInst_ld(a, b)
  \/ \E x \in Operands, a \in Addrs : visitCallInst_st(x, a)
  \/ \E move \in BOOLEAN, s, d \in Addrs, len \in 1..2 : visitMemTransferInst(move, s, d, len)
  \/ \E d \in Addrs, len \in 1..2, fill \in Operands : visitMemSetInst(d, len, fill)
  \/ \E fn \in MixCalls \cup ComputeCalls, x, y \in Operands : visitCallInst_compute(fn, x, y)
  \/ \E fn \in {"helper_inb", "helper_outb", "taint_sym_label"} : visitCallInst_untracked(fn, VoidInst)
  \/ \E x \in Operands : visitCallInst_untracked("unsupported_intrinsic", x)
  \/ \E x \in Operands, void \in BOOLEAN : visitCallInst_helper(x, void)
  \/ \E r \in Values \cup {NULL} : visitReturnInst(r)

Spec == Init /\ [][Next]_vars

-----------------------------------------------------------------------------
Labels ==
  {<<"stale">>} \cup {<<"reg", r, k>> : r \in 0..(NumRegs - 1), k \in 0..(MAXREGSIZE - 1)}
  \cup {<<"mem", a>> : a \in Addrs}
Shadow(D) == [D -> SUBSET Labels]

TypeOK ==
  /\ phase \in {"entry", "body", "done", "aborted"}
  /\ ninsts \in 0..MaxInsts
  /\ fNext = Len(vals) + (IF EntryNamed THEN 0 ELSE 1)
  /\ llv \in Shadow(LlvBytes)
  /\ grv \in Shadow(0..(NumRegs * MAXREGSIZE - 1))
  /\ mem \in Shadow(Addrs)
  /\ ret \in Shadow(Bytes(MAXREGSIZE))
  /\ memlog \in Seq(Addrs)
  /\ \A i \in DOMAIN vals : vals[i].slot \in 0..(NumVals - 1)

(* The LLV shadow bytes of value v. *)
LlvOf(v) == [k \in Bytes(getValueSize(v)) |-> llv[constSlot(v) + k]]

(* The rewritten function propagates taint as spec 4.3's per-opcode     *)
(* table says: after visitFunction's clear, every SSA value's LLV slot,  *)
(* every guest register byte, every RAM byte and shad->ret hold exactly *)
(* the labels of the bytes the instruction semantics draws them from.   *)
(* It takes the slot numbering, the pops' order, the emitted helper's    *)
(* offsets and sizes and the run-time helpers to agree.                   *)
RewriteFaithful ==
  /\ phase /= "entry" => \A i \in DOMAIN vals : LlvOf(vals[i]) = ref[i]
  /\ \A o \in RegOffsets : grv[GrvAddr(o)] = refcpu[o]
  /\ mem = refmem
  /\ ret = refret

(* Every address a guest memory access pushes on the memlog is popped by *)
(* the taint code the rewriter put after that access, so the log is     *)
(* empty between instructions and the next pop reads the next access's  *)
(* address rather than a stale one.                                      *)
MemlogBalanced == memlog = << >>

(* The rewriter finishes every function it is given: no handler reaches  *)
(* an assertion of the pass (here, the memset of a non-constant fill).   *)
RewriteCompletes == phase /= "aborted"
=============================================================================
