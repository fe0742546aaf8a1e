# TLA+ models of PANDA's taint engine, record/replay log and fd tracker

This directory holds TLA+ specifications of the parts of PANDA under `src/`,
the TLC configurations that check them, and `PROJECT.json`, which maps every
modelling definition to the source lines it translates and lists the runs,
the mutants, the findings and the hazards.

## The system

| Part | Source | State | Operations |
|---|---|---|---|
| Taint shadow memory and op interpreter | `taint2/taint_processor.cpp` | `Shad`: sparse maps `hd`, `io`, `ports`; dense maps `ram`, `llv` (LLVM values, one region per call frame), `grv`, `gsv`, `ret`; `current_frame`, `pc`, `taint_state_changed`, per-ASID `tpc`; globals `count`, `next_step`, `tainted_pointer` | `tp_init`, `tp_free`, `clear_shadow_memory`, `tp_label`, `tp_delete`, `tp_copy`, `tp_compute`, `add_taint_ram`, `add_taint_io`, `top_process` (LABEL, DELETE, COPY, LDCALLBACK, STCALLBACK, BULKCOPY, COMPUTE, PC, INSNSTART, CALL, RET, QUERY), `process_insn_start_op` (patches cached ops from the dynamic-value log) |
| Fast shadow allocator | `taint2/taint2_fast_shad.c` | one array of label-set pointers | `fast_shad_new` (malloc below 2^24 entries, else `mmap` at 1 TiB-aligned addresses with retries), `fast_shad_free` |
| Label sets | `taint2/label_set.h` | a DAG of union nodes and singleton leaves | `label_set_union`, `label_set_singleton`, `label_set_iter` |
| LLVM taint rewriter | `taint2/taint2_llvm_taint_lib.cpp` | slot numbering of the function being rewritten (`PandaSlotTracker`) | one visitor per LLVM instruction kind, emitting calls to the taint runtime (`taint_copy`, `taint_mix`, ..., `taint_memlog_pop`) that run on `llv`, `grv`, `gsv`, `ret` and RAM's shadow |
| Record/replay log | `rr_log.h` | `rr_mode`, request flags, program point, instruction countdown, record latch | `rr_set_prog_point`, `rr_prog_point_compare`, the `RR_DO_RECORD_OR_REPLAY` macro, mode switches |
| File-descriptor tracker | `syscalls/fdtracker.cpp` | `asid_to_fds` (per-ASID map fd → name), outstanding child pids/asids of fork and of clone | open/openat/dup entry and return callbacks, dup2/dup3 at entry, read/write callbacks, `return_from_fork`, `clone_callback`, `preExecForkCopier`, `preExecCloneCopier` |

How they interact: the rewriter turns each guest basic block's LLVM into code
that calls the taint runtime; in the interpreter version each translated
block yields a buffer of taint ops that `execute_taint_ops` runs through
`top_process` against the `Shad`, after `process_insn_start_op` has filled in
addresses from the dynamic-value log. Record/replay drives the guest
deterministically, so the same taint ops run on every replay; the fd tracker
is a separate syscall plugin.

Behaviours that make the code hard: the index arithmetic that places LLVM
values of nested call frames in one array; uninitialised memory after
`clear_shadow_memory`; the order in which the PC op commits the previous
instruction's pc; op buffers that are cached and re-patched; replay
divergence detected at program points; fork and clone returns arriving in
either order in parent and child.

## Modules

### `TaintShadow` (taint_processor.cpp)

State: `shad` maps each cell `<<map, index>>` to the set of labels its label
set denotes; `current_frame`, `pc`, `taint_state_changed`, `tpc` are the
`Shad` fields; `status` is `"run"` or how the process stopped (`"assert"` for
a failing `assert()`, `"oob"` for a delete past the end of `llv`); `changed`
is a history variable: some cell changed since the last PC op.

Addresses are the code's `Addr` records `[typ, val, off, flag]`, resolved to
cells with the code's own arithmetic (`CellOf`, `LlvIndex`), so aliasing in
the code is aliasing in the model. A label set is abstracted to the set of
labels it denotes: `label_set_union` is union, `label_set_singleton(l)` is
`{l}`.

Actions: `LabelOp`, `DeleteOp`, `CopyOp`, `BulkCopyOp`, `ComputeOp`, `PcOp`,
`CallOp`, `RetOp` are the cases of `top_process` that change state, each with
the early returns of the case (IRRELEVANT flags, tainted-pointer mode) and
the assertions of `tp_labelset_get`/`tp_labelset_put`.
`ClearShadowMemory` is `tp_free` followed by `tp_init`: maps that
`fast_shad_new` takes from `malloc` are not zeroed, so each of their cells
holds nothing or what the freed block held; the new `Shad`'s `pc` and
`taint_state_changed` are indeterminate (placement new of raw memory).

Not modelled here: INSNSTART (in `TaintOpBuffer`), LDCALLBACK and
STCALLBACK (they only run plugin callbacks), QUERY (printing), and
`add_taint_ram`/`add_taint_io`.

`MCTaintShadow` defines the addresses the runs use. `NumVals = 2`,
`MaxRegSize = 2`, `FunctionFrames = 2` is the smallest geometry in which the
frame stride (`num_vals`) and the slot width (`MAXREGSIZE`) differ in the way
they do in PANDA (`num_vals` is the largest slot number, `MAXREGSIZE` 16);
`MaxCallDepth = 2` lets calls reach the frame where the assertions fire.

### `TaintOpBuffer` (process_insn_start_op and the op loop)

A translated block's taint ops are generated once and cached; every time the
block runs, each instruction's INSNSTART op reads the next entry of the
dynamic-value log and patches the ops that follow it (`num_ops` of them) in
place before `top_process` runs them. The module composes `TaintShadow`
(`S == INSTANCE TaintShadow`, same variables) with the buffer:

* `ops` maps `<<instruction, k>>` to the k-th op after that instruction's
  INSNSTART, as last patched; it starts as the emitted ops (`Insns`, with
  `UNK` addresses that the log fills in);
* `path`, `pos`, `k` are the run in progress: the instructions the run takes
  (`Paths`, a constant: the guest decides), the current one, and the op
  (0 = its INSNSTART is next);
* `entry`, `next_step`, `previous_branch`, `taken_branch` are the log entry
  read and the code's globals;
* `snap` and `last` are history for the properties: the shadow when the
  current instruction started, and the last instruction finished with its
  entry.

Actions: `InsnStart` is `process_insn_start_op` followed by the EXCEPT check
of the INSNSTART case of `top_process`: `Fixup` is one CASE arm per
instruction name, each from its branch of the code (`LoadFix`, `StoreFix`,
`MemsetFix`, `MemcpyFix`, `SelectFix`, `PhiFix`, `BranchTarget`,
`SwitchTarget`), with the code's `assert(1==0)` cases as `Stop("assert")`.
`ExecOp` runs the next op through `TaintShadow`'s `CopyOp`, `DeleteOp` or
`ComputeOp`. `StartRun` starts another run of the cached buffer; `Env` is a
LABEL op of another block between runs. `execute_taint_ops` (the loop over
the buffer, and the end of the block on EXCEPT) is not under `src/`; the
loop (`StartRun`, `ExecOp`, `Finish`, `Next`) follows the spec's description
of it. The memcpy fix-up reads its two entries as one `ADDR2` entry; an
exception in its second entry (which also ends the block) is not separated
from an exception in the first.

`MCTaintOpBuffer` gives the instruction tables: one-byte instructions (one
op each) in frame 0 with `MaxRegSize = 1`, so that no slot aliasing from
`TaintShadow`'s finding interferes; log entries from RAM, a guest register,
an IRRELEVANT CPU field and a port.

### `FdTracker` (syscalls/fdtracker.cpp)

Two processes, `Parent` and `Child`. The tracker's state is the code's:
`asid_to_fds` (each ASID's `std::map<int,string>`, as a TLA+ function built
with `:>` and `@@`; the keys of `map<int,...>` are the guest's `target_ulong`
results cast to `int`, `IntKey`, so a failed call's `-1` is a key),
`outstanding_child_pids`, `outstanding_child_asids` and the clone pair, and
`pending` (the syscall whose return callback is registered). The environment
is modelled too: `real` is the kernel's descriptor table of each process
(names are sequences of path components: openat relative to a directory
appends), `alive` the processes that exist, `vmi` the processes the VMI's
process list shows. `copyPending` is history: a fork/clone happened and the
child's copy of the parent's table is not yet made.

Actions: `OpenCall`/`OpenReturn` (entry callback records the path and base
directory; the return runs `open_callback`, which checks for `-1` and builds
the name from the base directory's entry unless the base is `AT_FDCWD` or
`NULL_FD`), `DupCall`/`DupReturn`, `Dup2Call` (the tracker is updated at
entry, for dup2 and dup3) with the kernel's `Dup2Return`, `Close` (the code
tracks no close), `Read` (the read/write callbacks' `asid_to_fds[asid][fd]`,
which inserts an empty name), `ForkCall` (`call_clone_callback`; the child
appears with the parent's kernel table), `ParentForkReturn`,
`ChildForkReturn` and `CloneReturn` (the code's branches on whether the
other side or the VMI has been seen), `VmiRegister`, and
`PreExecForkCopier`/`PreExecCloneCopier` (the per-block copiers). `Ops`
limits which calls a run makes. `LowestFree`, `OpenName`, `Running`,
`Allowed`, `Dup2Return`, `VmiRegister` model the kernel and the VMI, not
code of this repository.

`MCFdTracker` gives descriptors 0..3 with 0..2 standard (named `Std`, which
no property compares), two path components, names of at most two
components, and an 8-bit `target_ulong` (only `-1` matters).

### `RRAbstract` and `RRLog` (rr_log.h)

`RRAbstract` is what record/replay promises (spec sections 1 and 4.6). A
recording appends each event the guest observes. A replay of it shows the
same events, in order, and nothing else (`Reproduce`). A replay may be ended
at any time, and a new recording replaces the old one.

`RRLog` is the code's mechanism:

- **State.** `rr_mode`, the four monitor request flags (`requested`),
  `rr_prog_point`, `rr_guest_instr_count`,
  `rr_num_instr_before_next_interrupt` (the countdown, `% 2^CountBits`
  because it is a `uint64_t`), `rr_skipped_callsite_location`, the log as a
  sequence of `RR_log_entry` records, and the replay cursor. It also has a
  guest: a program counter over a fixed program `Prog` whose input sites
  each may make one nested call.
- **Input sites and the latch.** `RecordInputSite` and `ReplayInputSite`
  are `RR_DO_RECORD_OR_REPLAY` with `rr_input_1`. An outer site takes the
  `rr_record_in_progress` latch. A site nested inside it runs only its
  ACTION (`RecordsEntry`), so it does not log.
- **Interrupts and comparison.** `RecordInterruptCheck` and
  `ReplayInterruptCheck` are `rr_interrupt_request`.
  `rr_prog_point_compare` is translated branch for branch. Its "greater"
  branch is `Diverge`, which signals the disagreement and ends the replay.
- **Main loop.** `ExecTB` runs a translated block. In replay the countdown
  caps the block's length, and a countdown of zero cuts the block at once.
- **hlt.** The guest has hlt instructions (`HltEipAt`: the eip after the
  hlt, by count). A hlt ends its block and moves eip on, but it does not
  advance `rr_guest_instr_count` (the XXX comment in
  `rr_prog_point_compare`). The variable `halted` says the hlt at the
  current count has run, and `PPAt(count, halted)` gives the program point.
  Two program points thus share one count. At the earlier one, an entry
  recorded at the later one makes the comparison answer -1 ("not yet"),
  and the replay waits through the hlt. The model lets a halted guest go on
  at once; the wake-up by an interrupt is in `cpu-exec.c`, which is not in
  this tree.
  `Service` handles a monitor request at a block boundary.
- **rr_log.c.** The queue routines and begin/end of record and replay are in
  `rr_log.c`, which is not in this tree. They are modelled from spec
  section 4.6 and marked spec-modelled in the map.

History variables `seen_rec`, `seen_rep` and `diverged` record the events
logged, the events reproduced and whether a disagreement was signalled. An
event carries its instruction count and eip, so an event replayed at the
wrong side of a hlt shows. The
refinement mapping sends `RRLog` to `RRAbstract` as follows:

- `rr_mode` maps to `mode`, except after a divergence. A diverged replay maps
  to the mode `"RR_DIVERGED"`, from which the abstract spec has no step. A
  divergence therefore violates the refinement.
- `seen_rec` maps to `recorded`.
- `seen_rep` maps to `replayed`.

`ImplementsAbstract == Abs!Spec` is checked as a property.

`MCRRLog` uses one instance for the check:

- a program of five instructions, with an I/O read at instruction 1 that
  nests a memory read, and an `inb` at instruction 4;
- eip and ecx values that repeat, so the comparison has to look at all three
  fields;
- a hlt at instruction 3, after which eip is 20;
- two input values and two interrupt values;
- blocks of up to two instructions;
- a 4-bit countdown, which wraps while recording, as the 64-bit one does.

### `LabelShadow` and `LabelSet` (label_set.h)

`LabelShadow` states what the shadow operations promise of label sets (spec
sections 3.1 and 4). Each cell holds a set of labels:

- `Label` adds a label;
- `Compute` stores the union of two cells' sets;
- `Copy` copies a cell's set;
- `Delete` empties the cell.

`last` records the call served, with its arguments, so that one operation
cannot pass for another. `TaintShadow` abstracts a cell's value to the same
kind of set.

`LabelSet` is the representation:

- **State.** A heap of `struct LabelSet` nodes in allocation order (a leaf
  has `child1 = NULL` and a label; a union node has two children), and each
  cell's `LabelSetP` (NULL is 0).
- **Operators.** `label_set_singleton`, `label_set_union` and
  `label_set_iter` are operators. `label_set_iter` is RECURSIVE.
- **Actions.** `tp_label`, `tp_compute`, `tp_copy` (which returns at once on
  equal addresses) and `tp_delete` are actions that allocate and share nodes
  as the code does. `tp_copy` shares the pointer.

The refinement maps each cell to the set of labels `tp_ls_iter` passes to
its callback, so it is checked through what a caller of the shadow actually
sees. `Denotes` is the reference for the traversal: the labels of the leaves
in every node set that holds the pointer and is closed under taking
children.

`MCLabelSet` uses three cells, two labels and four nodes. That is enough for:

- a union with a union child;
- a copied set unioned with its copy;
- `tp_compute(a, a, c)`;
- unions with an empty cell.

Cells and labels are symmetric.

### `TaintRewriter` (taint2_llvm_taint_lib.cpp)

The rewriter's effect is a fact about the code it produces, so the module
builds a single-block function one instruction at a time, and then runs the
emitted calls. Each action is one `visit*` handler:

- **State.** The values of the function with their slots (`vals`,
  `fNext`). The shadows the runtime keeps: `llv` (the frame, `MAXREGSIZE`
  bytes per slot), `grv` (`MAXREGSIZE` bytes per register), RAM's shadow and
  `ret`. `llv` has two frames: the function's and that of a helper it
  calls (`push_frame`/`pop_frame` move the base of LLV offsets). Also the memlog (a stack of the addresses the guest's accesses
  logged) and `prev_bb`.
- **Emitters.** `insertTaintBulk`, `insertTaintCopy`, `insertTaintMove`,
  `insertTaintMix`, `insertTaintCompute`, `insertTaintSext`,
  `insertTaintDelete` and `insertLogPop` are operators. They return the
  helper calls in the order they run after LLVM's `insertAfter`. For
  example, insertTaintBulk's destination pop is inserted second, so it runs
  first.
- **Runtime.** The helpers are in the taint ops bitcode, which is not in
  this tree. `Exec` gives them the meaning spec section 4.3 describes
  (spec-modelled). An offset outside a shadow array is undefined behaviour;
  the model reads no labels there and drops the write.
- **Actions.** `visitFunction` (clear the frame), `visitBinaryOperator`,
  `visitCmpInst`, `visitCastInst`, `visitGetElementPtrInst`,
  `visitLoadInst` and `visitStoreInst` (through `getAddr` and
  `insertStateOp`), `visitCallInst_ld` and `visitCallInst_st` (the
  `__ld/__st*_mmu_panda` calls, whose access pushes its address first),
  `visitMemTransferInst` (memcpy and memmove), `visitMemSetInst`, and
  `visitReturnInst` with `visitBasicBlock`'s breadcrumb. For a memset of a
  non-constant fill, `visitMemSetInst` emits a call to `setF`, but
  `doInitialization` never looks `setF` up. `inlineCallAfter`'s `assert(F)`
  (line 235) then fails, or, with asserts off, the call gets a null callee.
  The model sets `phase` to `"aborted"`. The remaining
  branches of `visitCallInst` are three actions:
  - `visitCallInst_compute`: the intrinsics bswap/ctlz and the math
    functions sin..exp2 (mix), and uadd.with.overflow, ldexp and atan2
    (mixed compute). One name stands for each list.
  - `visitCallInst_untracked`: `helper_in?`, `helper_out?`, `taint*`
    and unsupported intrinsics, which get no taint code.
  - `visitCallInst_helper`: a call into another function. The caller
    copies each non-constant argument to slot `num_vals + i`, then
    `push_frame`, the helper's own rewritten body (`HelperBody`: its
    `visitFunction` clear, then the return copy of its argument), then
    `pop_frame`, then the copy of `ret` into the call's slot.
- **Reference.** Beside the shadows the module keeps `ref`, `refcpu`,
  `refmem` and `refret`: the taint spec 4.3's per-opcode table gives each
  value, register byte, RAM byte and the returned value. Every guest byte
  starts with a label of its own, so taint from the wrong byte shows.

`RewriteFaithful` compares the shadows with the reference. `MemlogBalanced`
says every logged address is popped by its own access's taint code.
`RewriteCompletes` says the pass never aborts on one of its assertions.
`MCTaintRewriter_ops.cfg` has:

- two 2-byte registers in 4-byte shadow cells, so the scaling of
  `getAddr`'s register index to `grv` matters;
- 3 bytes of RAM, so copies, moves and overlaps have room;
- 8- and 16-bit values and constants, i1 compare results;
- functions of up to four instructions;
- helpers called with a constant argument or returning void.

That is enough for every handler to consume the result of another.

## Runs

| Run | Cfg | Expect | What it shows |
|---|---|---|---|
| `shadow_ops` | `MCTaintShadow_ops.cfg` | pass | `TypeOK`: with LABEL, DELETE, COPY, COMPUTE, calls, returns, assertion failures and clears interleaved over RAM, LLVM, register, constant and IRRELEVANT addresses, every shadow, `current_frame` and status stay in range. RETOP's guard is what keeps a return at frame 0 from taking the counter below zero. |
| `bulk_copy` | `MCTaintShadow_bulk.cfg` | pass | `BulkCopyDelivers`: BULKCOPY's copy/increment loop moves byte i of the source to byte i of the destination for non-overlapping ranges (disk to RAM and back), checked against a direct definition. |
| `llv_frames` | `MCTaintShadow_frames.cfg` | violation | `NoLlvAliasing` fails in one step: a FUNCARG label of slot 0 also changes the caller's slot 1. |
| `tpc_record` | `MCTaintShadow_tpc.cfg` | violation | `TpcRecordsChangingPcs` fails: label RAM, then a PC op; the labelling pc is not put in `tpc`. |
| `opbuf_mem` | `MCTaintOpBuffer_mem.cfg` | pass | `InstructionEffect` and `NoFatalAssert` for loads, stores, memset and a port load re-patched on every run from RAM, register and IRRELEVANT entries (335k states). |
| `opbuf_control` | `MCTaintOpBuffer_control.cfg` | pass | Branch and switch (case and default) set `taken_branch`; phi and select between two slots copy the right one on every re-run. |
| `rr_replay` | `MCRRLog_replay.cfg` | pass | `TypeOK`, `ImplementsAbstract`, `ReplayEnds`: record, then replay, with interrupts at any block boundary (before and after a hlt) and monitor requests at any time. The replay reproduces the recorded events in order at the recorded program points and never diverges. A started replay always ends. The mutants that make `rr_prog_point_compare` strict, or compare counts only, break `ImplementsAbstract` at the hlt. (476k states) |
| `label_dag` | `MCLabelSet_dag.cfg` | pass | `TypeOK`, `IterEnumerates`, `ImplementsLabelShadow`: `label_set_iter` visits exactly the reachable leaves. Every cell iterates the set that set semantics gives it, through sharing, self-unions and deletes. (17k states under symmetry) |
| `fd_fork` | `MCFdTracker_fork.cfg` | pass | `TypeOK`, `FdNamesAgree`, `EventuallyCopied`: fork and clone with the two returns, VMI registration and the child's blocks in every order; the copy is always made, and names agree while parent and child open, dup and close (185k states). |
| `fd_single` | `MCFdTracker_single.cfg` | pass | `FdNamesAgree` for open, openat relative to an opened directory, dup, a successful dup2/dup3, close and reads in one process. |
| `rewrite_ops` | `MCTaintRewriter_ops.cfg` | pass | `TypeOK`, `RewriteFaithful`, `MemlogBalanced` over every function of up to four instructions: binary ops (mixed and parallel, with constant operands), cmp, casts, GEP, register loads, volatile stores, mmu loads and stores of values, memcpy, memmove and memset of a constant fill (a value fill aborts the pass; see below). Deadlock is not checked: the function ends at its return. It also covers intrinsic and math calls, untracked calls, unsupported intrinsics of constants, and helper calls with constant arguments or void results. (714k states, under 3 min) |
| `rewrite_state_store` | `MCTaintRewriter_state_store.cfg` | violation | `RewriteFaithful`: load a register byte, store it back; the register's shadow is emptied. |

The `shadow_ops` run keeps one pc and turns `tainted_instructions` off: the
pc bookkeeping multiplies the state space without bearing on the label
values; `bulk_copy` runs with two pcs and `tainted_instructions` on, so PC ops
with commits are explored there.

Deadlock checking is off in runs where an `assert()` can fire: a failed
assertion ends the process, so those states have no successor. The
`bulk_copy` run has no such state and checks deadlock.

Further counterexamples, with cfgs kept here but not among the listed runs
(the list keeps one violation per kind of finding):
`MCTaintOpBuffer_store.cfg` (`InstructionEffect`: in tainted-pointer mode
the store's COMPUTE is patched only on the first run, so later runs taint
the first run's destination), `MCFdTracker_lazy.cfg` (`FdNamesAgree`: the
parent closes and reopens fd 3 after fork, before the copy; the child is
given the new name), `MCTaintRewriter_const_store.cfg` (`MemlogBalanced`:
`__stb_mmu_panda` of a constant logs its address, but its taint code is a
delete at the call's own LLV slot and pops nothing; RAM also keeps the old
taint), `MCTaintRewriter_ret_value.cfg` (`RewriteFaithful`: returning a value
in slot k copies LLV bytes from offset k, not k * MAXREGSIZE),
`MCTaintRewriter_helper_arg.cfg` (`RewriteFaithful`: a helper called on a
tainted value returns it untainted, because the helper's `visitFunction`
clear wipes the argument shadow its caller just copied into the frame),
`MCTaintRewriter_intrinsic.cfg` (`RewriteFaithful`: an unsupported
intrinsic's result has no taint), `MCTaintRewriter_memset_value.cfg`
(`RewriteCompletes`: a memset whose fill is a loaded value reaches
`assert(F)` on the never-assigned `setF`),
`MCFdTracker_dup2.cfg` (`FdNamesAgree`: dup2 from a closed fd 3 onto fd 0
fails in the kernel, but the tracker already renamed fd 0),
`MCTaintOpBuffer_memcpy_assert.cfg`
(the first memcpy between IRRELEVANT locations makes tp_delete of an UNK
address assert), `MCTaintShadow_clear.cfg`
(`ClearLeavesNoTaint`: label an LLVM value, clear; the malloced `llv` still
shows the label), `MCTaintOpBuffer_select.cfg` (a select that once chose a
constant keeps a DELETE and later deletes the source slot),
`MCTaintOpBuffer_phi.cfg` (a phi from a constant leaves the destination's old
taint), `MCTaintOpBuffer_memcpy_stale.cfg` (a memcpy between IRRELEVANT
locations deletes an earlier run's destination byte), `MCFdTracker_read.cfg`
(a read in the child before its copy inserts an empty name that `copy_fds`
then keeps), `MCFdTracker_fd0.cfg` (openat relative to a directory open as
descriptor 0 is recorded without the directory, since `NULL_FD` is 0).

## Fairness

The taint specifications carry no fairness: the taint op stream is driven
by the guest, and nothing in the code forces any particular op to happen.

`FdTracker` has one liveness property, `EventuallyCopied`, under weak
fairness of the steps the system does guarantee: the kernel returns from a
syscall it has entered (`OpenReturn`, `DupReturn`, `Dup2Return`, the fork and
clone returns), the VMI eventually lists a process that exists
(`VmiRegister`), and the guest scheduler eventually runs the child
(`PreExecForkCopier(Child)`, `PreExecCloneCopier(Child)`). The guest's own
calls (`OpenCall`, `ForkCall`, `Close`, `Read`, ...) are not fair: a program
need not make them.

`RRLog` has one liveness property, `ReplayEnds`: a started replay ends. It
holds under weak fairness of the guest's steps (`ExecTB`,
`ReplayInterruptCheck`, `ReplayInputSite`, `ReplayFinished`): while the
emulator runs, `cpu_exec` keeps executing blocks and checks. The monitor's
requests are not fair, because a user need not type a command.

## Findings

`PROJECT.json` "findings" lists the ones that have a run:

- the frame aliasing of `llv`;
- the `tpc` divergence from spec section 4.4;
- the rewriter's stores to CPU state: `insertStateOp` asks `getAddr` about
  operand 0, the stored value, and its `taint_host_copy` reads the LLV
  shadow at the void store's slot (-1), so a tainted value stored to a
  register leaves the register untainted.

The further counterexamples under "Runs" show:

- a tainted-pointer store whose COMPUTE keeps its first run's address;
- the fd tracker's child copy, taken from the parent's table when the copy
  runs rather than at fork;
- a constant mmu store that leaves its address on the memlog and RAM's
  old taint in place;
- `visitReturnInst`'s unscaled slot offset;
- argument taint lost across calls into helpers: `visitCallInst` copies it
  into the callee's frame (spec 4.3: "copy each non-constant argument into
  the callee's LLV slots"), and the callee's entry clear (spec 4.3: "clear
  the entire LLV shadow frame") deletes it before the first instruction;
- unsupported intrinsics dropping taint;
- a memset of a register value stopping the rewrite, since the pass never
  looks up the `taint_set` helper;
- the memcpy fix-up's assertion between untracked locations;
- stale taint after `clear_shadow_memory`;
- select and phi re-patching;
- a stale memcpy delete;
- empty names inserted by reads before the copy;
- `NULL_FD = 0` confusing descriptor 0 with no base directory;
- dup2/dup3 recorded at entry even when they fail.

Label sets are never freed: `label_set.h` has no reference count, although
spec section 3.1 says sets are reference-counted and freed when no slot
holds them. No run shows this, because the model's heap is bounded.

Spec section 8's divergence test (record at (0,0,5), replay reaches
(0,0,6)) expects a fatal diagnostic. Section 8's round-trip test, and the
code, give "not yet" when the counts are equal. The model follows the code.
The hlt case shows why: the strict reading ends a correct replay whose
interrupt was recorded while the guest was halted.

The source snapshot does not compile as is (`tb_labelset_put`, `ls_copy`,
`fast_shad_set` with two arguments in `tp_delete`, `fast_shad_new` with one
argument in `tp_init`); the model follows the evident intent: `tp_copy` puts,
the LLVM put stores the label set given, the RAM delete removes.

## Plan

1. `TaintShadow` (done in part): add `add_taint_ram`/`add_taint_io` (label
   counter).
2. `TaintOpBuffer` (done): INSNSTART patching of a cached buffer.
3. `RRLog` (done), refining `RRAbstract`, with a hlt reaching the
   equal-count branch of `rr_prog_point_compare`. Left: skipped calls (DMA
   and memory-region registration replayed by `rr_replay_skipped_calls`).
4. `FastShad`: the mmap retry loop (the comment says eight tries).
5. `LabelSet` (done), refining `LabelShadow`. Left: make `TaintShadow`'s
   cell values `LabelSet` pointers, so that `clear_shadow_memory`'s stale
   pointers are read through the DAG.
6. `FdTracker` (done): fork/clone returns in every order, the lazy copy,
   open/openat/dup/dup2/dup3, reads. Left: `CLONE_FILES` (shared tables) and
   failing fork/clone.
7. `TaintRewriter` (done in part): slot numbering, the emitters, the
   handlers of arithmetic, casts, CPU state, mmu calls and memory
   intrinsics, every branch of `visitCallInst` with helper frames. Left:
   `visitPHINode`/`visitSelectInst` (where `constWeakSlot` multiplies by
   `MAXREGSIZE` twice), GSPEC addresses.

## Not modelled

Formatting and printing (`get_*_string`, `addr_spit`, `tob_op_print`, debug
levels), plugin callbacks (`PPP_RUN_CB`), and the LLVM module linking and
pass-manager plumbing: they change no state a property distinguishes.
`taint_int.h` holds declarations only. From the rewriter: `taint_select`
and `taint_host_copy`'s run-time address lookup are in the taint ops
bitcode, not in this tree (the host copy is modelled only for the
register it is handed); GSPEC shadow indices are raw `CPUState` offsets,
whose range depends on a layout that is not in this tree; the memlog's
discipline is taken from the rewriter's comments (a stack, source below
destination) because `taint2_memlog` is not in this tree either. From `rr_log.h`: the skipped-call
records (`RR_SKIPPED_CALL`, `rr_device_mem_rw_call_record`,
`rr_reg_mem_call_record`), input widths other than one byte (the four
`rr_input_*` differ only in width), `rr_please_flush_tb`, and the name
tables.
