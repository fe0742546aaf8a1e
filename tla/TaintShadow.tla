---------------------------- MODULE TaintShadow ----------------------------
(***************************************************************************)
(* The taint processor's shadow memory and the taint-op interpreter        *)
(* (taint2/taint_processor.cpp): address resolution (tp_labelset_get,      *)
(* tp_labelset_put, tp_delete), the shadow operations (tp_label, tp_copy,  *)
(* tp_compute) and one action per case of top_process that changes state  *)
(* (LABEL, DELETE, COPY, BULKCOPY, COMPUTE, PC, CALL, RET), plus           *)
(* clear_shadow_memory (tp_free followed by tp_init).                      *)
(*                                                                         *)
(* A label set is abstracted to the set of labels it denotes.  Each dense  *)
(* or sparse shadow map is an array of cells <<map, index>>; addresses are *)
(* resolved to cells by the code's own index arithmetic, so two addresses  *)
(* that the arithmetic sends to one cell share it in the model too.  An    *)
(* assert() that fails ends the run (status "assert"); a write past the    *)
(* end of a dense array is status "oob".                                   *)
(***************************************************************************)
EXTENDS Naturals, FiniteSets

CONSTANTS
  Labels,              \* label values the ops carry
  Pcs,                 \* guest PCs carried by PC ops
  NumVals,             \* shad->num_vals (max_vals of tp_init)
  MaxRegSize,          \* MAXREGSIZE: bytes of one LLVM value
  FunctionFrames,      \* FUNCTIONFRAMES
  NumRegs,             \* NUMREGS
  WordSize,            \* WORDSIZE
  NumSpecAddrs,        \* NUMSPECADDRS
  MapSize,             \* [hd, ram, io, ports -> modelled extent of the map]
  Addrs,               \* addresses the ops name (records, see Addr below)
  MaxBulk,             \* largest BULKCOPY length modelled
  MaxCallDepth,        \* bound on nested CALL ops (the code has none)
  TaintedPointer,      \* the global tainted_pointer
  TaintedInstructions, \* the global tainted_instructions
  MallocMaps           \* dense maps small enough that fast_shad_new mallocs them

Typs  == {"HADDR", "MADDR", "IADDR", "PADDR", "LADDR", "GREG", "GSPEC",
          "RET", "CONST", "UNK"}
Flags == {"NONE", "FUNCARG", "IRRELEVANT", "READLOG"}
Addr  == [typ : Typs, val : Nat, off : Nat, flag : Flags]

ASSUME Addrs \subseteq Addr
ASSUME MallocMaps \subseteq {"ram", "llv", "grv", "gsv", "ret"}

(* Sizes of the shadow maps as tp_init allocates them. *)
MapExtent ==
  [m \in {"hd", "ram", "io", "ports", "llv", "grv", "gsv", "ret"} |->
     CASE m = "llv" -> NumVals * FunctionFrames * MaxRegSize
       [] m = "grv" -> NumRegs * WordSize
       [] m = "gsv" -> NumSpecAddrs + NumRegs
       [] m = "ret" -> MaxRegSize
       [] OTHER     -> MapSize[m]]

Cells == UNION {{<<m, i>> : i \in 0 .. MapExtent[m] - 1} : m \in DOMAIN MapExtent}

VARIABLES
  shad,                \* Cells -> label set held by the cell
  current_frame,       \* shad->current_frame
  pc,                  \* shad->pc
  taint_state_changed, \* shad->taint_state_changed
  tpc,                 \* shad->tpc[shad->asid]
  status,              \* "run", or how the process stopped
  changed              \* history: some cell changed since the last PC op

vars == <<shad, current_frame, pc, taint_state_changed, tpc, status, changed>>

-----------------------------------------------------------------------------
(* Address resolution.                                                     *)

(* The LLVM frame an LADDR names: FUNCARG addresses the callee's frame.   *)
Frame(a) == IF a.flag = "FUNCARG" THEN current_frame + 1 ELSE current_frame

(* Index of an LLVM value byte in shad->llv: frames are num_vals apart.   *)
LlvIndex(f, a) == NumVals * f + a.val * MaxRegSize + a.off

CellOf(a) ==
  CASE a.typ = "HADDR" -> <<"hd", a.val + a.off>>
    [] a.typ = "MADDR" -> <<"ram", a.val + a.off>>
    [] a.typ = "IADDR" -> <<"io", a.val + a.off>>
    [] a.typ = "PADDR" -> <<"ports", a.val + a.off>>
    [] a.typ = "LADDR" -> <<"llv", LlvIndex(Frame(a), a)>>
    [] a.typ = "GREG"  -> <<"grv", a.val * WordSize + a.off>>
    [] a.typ = "GSPEC" -> <<"gsv", a.val - NumRegs + a.off>>
    [] a.typ = "RET"   -> <<"ret", a.off>>

(* tp_labelset_get, over a given shadow state. *)
GetIn(s, a) == IF a.typ = "CONST" THEN {} ELSE s[CellOf(a)]
Get(a) == GetIn(shad, a)

(* The assertions of tp_labelset_get and tp_labelset_put. *)
GetAsserts(a) ==
  \/ a.typ = "UNK"
  \/ a.typ = "LADDR" /\ Frame(a) >= FunctionFrames
PutAsserts(a) == GetAsserts(a) \/ a.typ = "CONST"

(* A delete of an LLVM value has no frame assertion and may land past the *)
(* end of shad->llv.                                                       *)
OutOfMap(a) == CellOf(a) \notin Cells

(* addrs_equal: LLVM values compare slot, offset and flag, not cells.     *)
AddrsEqual(a, b) ==
  /\ a.typ = b.typ
  /\ CASE a.typ \in {"HADDR", "MADDR", "IADDR", "PADDR"} ->
            a.val + a.off = b.val + b.off
       [] a.typ = "LADDR" -> a.val = b.val /\ a.off = b.off /\ a.flag = b.flag
       [] a.typ \in {"GREG", "GSPEC"} -> a.val = b.val /\ a.off = b.off
       [] a.typ = "RET" -> a.off = b.off
       [] OTHER -> FALSE

(* addr_inc: only the four flat address kinds can be stepped. *)
Steppable(a) == a.typ \in {"HADDR", "MADDR", "IADDR", "PADDR"}
AddrInc(a) == [a EXCEPT !.val = @ + 1]

-----------------------------------------------------------------------------
(* Shadow operations.                                                      *)

Running == status = "run"

Abort(why) ==
  /\ status' = why
  /\ UNCHANGED <<shad, current_frame, pc, taint_state_changed, tpc, changed>>

(* A step that writes the shadow and nothing else of the processor. *)
Write(s) ==
  /\ shad' = s
  /\ changed' = (changed \/ s # shad)
  /\ UNCHANGED <<current_frame, pc, taint_state_changed, tpc, status>>

(* tp_label: the cell gets union(query(a), singleton(l)). *)
TpLabel(a, l) == [shad EXCEPT ![CellOf(a)] = Get(a) \cup {l}]

(* tp_copy over a given state: no-op when addrs_equal, else b gets a's set. *)
CopyIn(s, a, b) == IF AddrsEqual(a, b) THEN s ELSE [s EXCEPT ![CellOf(b)] = GetIn(s, a)]

(* tp_compute: c gets the union of a's and b's sets. *)
TpCompute(a, b, c) == [shad EXCEPT ![CellOf(c)] = Get(a) \cup Get(b)]

(* Mutant of BulkCopyIn: the destination address is never stepped. *)
RECURSIVE BulkCopyInNoInc(_, _, _, _)
BulkCopyInNoInc(s, a, b, n) ==
  IF n = 0 THEN s ELSE BulkCopyInNoInc(CopyIn(s, a, b), AddrInc(a), b, n - 1)

(* BULKCOPY: n successive tp_copy steps, each address stepped by addr_inc. *)
RECURSIVE BulkCopyIn(_, _, _, _)
BulkCopyIn(s, a, b, n) ==
  IF n = 0 THEN s ELSE BulkCopyIn(CopyIn(s, a, b), AddrInc(a), AddrInc(b), n - 1)

-----------------------------------------------------------------------------
(* One action per case of top_process that changes state.                  *)

(* LABELOP -> tp_label. *)
LabelOp(a, l) ==
  /\ Running
  /\ IF PutAsserts(a) THEN Abort("assert") ELSE Write(TpLabel(a, l))

(* tp_delete: deleting from the hard-disk map records whether the cell   *)
(* held taint; a delete of an LLVM value has no frame assertion.          *)
TpDelete(a) ==
  CASE a.typ \in {"UNK", "CONST"} ->
         Abort("assert")
    [] OutOfMap(a) ->
         Abort("oob")
    [] a.typ = "HADDR" ->
         /\ shad' = [shad EXCEPT ![CellOf(a)] = {}]
         /\ taint_state_changed' = (taint_state_changed \/ Get(a) # {})
         /\ changed' = (changed \/ shad' # shad)
         /\ UNCHANGED <<current_frame, pc, tpc, status>>
    [] OTHER ->
         Write([shad EXCEPT ![CellOf(a)] = {}])

(* DELETEOP: nothing for an IRRELEVANT address, else tp_delete. *)
DeleteOp(a) ==
  /\ Running
  /\ IF a.flag = "IRRELEVANT" THEN UNCHANGED vars ELSE TpDelete(a)

(* COPYOP: an IRRELEVANT source deletes the destination; an IRRELEVANT    *)
(* destination is skipped; otherwise tp_copy.                              *)
CopyOp(a, b) ==
  /\ Running
  /\ CASE a.flag = "IRRELEVANT" ->
            TpDelete(b)
       [] b.flag = "IRRELEVANT" ->
            UNCHANGED vars
       [] a.typ = b.typ /\ a.typ \in {"UNK", "CONST"} ->
            Abort("assert")
       [] AddrsEqual(a, b) ->
            UNCHANGED vars
       [] GetAsserts(a) \/ PutAsserts(b) ->
            Abort("assert")
       [] OTHER ->
            Write(CopyIn(shad, a, b))

(* BULKCOPYOP: n successive copies between flat addresses (hard-disk     *)
(* taint emits it between disk and RAM addresses).                         *)
BulkCopyOp(a, b, n) ==
  /\ Running
  /\ Write(BulkCopyIn(shad, a, b, n))

(* COMPUTEOP: skipped for an IRRELEVANT destination and, in tainted-      *)
(* pointer mode, for a guest-register destination; otherwise tp_compute.  *)
ComputeOp(a, b, c) ==
  /\ Running
  /\ CASE c.flag = "IRRELEVANT" ->
            UNCHANGED vars
       [] TaintedPointer /\ c.typ \in {"GREG", "GSPEC"} ->
            UNCHANGED vars
       [] GetAsserts(a) \/ GetAsserts(b) \/ PutAsserts(c) ->
            Abort("assert")
       [] OTHER ->
            Write(TpCompute(a, b, c))

(* PCOP: commit the last pc if the taint state changed, then move on.     *)
PcOp(p) ==
  /\ Running
  /\ tpc' = IF TaintedInstructions /\ taint_state_changed THEN tpc \cup {pc} ELSE tpc
  /\ pc' = p
  /\ taint_state_changed' = IF TaintedInstructions THEN FALSE ELSE taint_state_changed
  /\ changed' = FALSE
  /\ UNCHANGED <<shad, current_frame, status>>

(* CALLOP: push a frame; the callee's ops follow in the stream. *)
CallOp ==
  /\ Running
  /\ current_frame < MaxCallDepth
  /\ current_frame' = current_frame + 1
  /\ UNCHANGED <<shad, pc, taint_state_changed, tpc, status, changed>>

(* Mutant of RetOp: the frame is popped without the test for zero. *)
RetOpNoGuard ==
  /\ Running
  /\ current_frame' = current_frame - 1
  /\ UNCHANGED <<shad, pc, taint_state_changed, tpc, status, changed>>

(* RETOP: pop a frame; at frame 0 nothing happens (the frame is unsigned). *)
RetOp ==
  /\ Running
  /\ current_frame' = IF current_frame > 0 THEN current_frame - 1 ELSE current_frame
  /\ UNCHANGED <<shad, pc, taint_state_changed, tpc, status, changed>>

(* clear_shadow_memory: tp_free then tp_init with the same geometry.  A   *)
(* map fast_shad_new takes from malloc is not zeroed: each of its cells   *)
(* holds either nothing or what the freed block held before.  The Shad    *)
(* itself is re-malloced, so pc and taint_state_changed are indeterminate. *)
ClearShadowMemory ==
  /\ Running
  /\ \E keep \in SUBSET {c \in Cells : c[1] \in MallocMaps /\ shad[c] # {}} :
       shad' = [c \in Cells |-> IF c \in keep THEN shad[c] ELSE {}]
  /\ current_frame' = 0
  /\ \E p \in Pcs : pc' = p
  /\ taint_state_changed' \in BOOLEAN
  /\ tpc' = {}
  /\ changed' = (changed \/ shad' # shad)
  /\ UNCHANGED status

(* Bulk copies name flat addresses, and the model keeps them inside the    *)
(* modelled extent of each map (MapSize).                                  *)
BulkAddrs == {a \in Addrs : Steppable(a) /\ a.flag = "NONE"}
BulkInMap(a, b, n) ==
  \A i \in 0 .. n - 1 : CellOf([a EXCEPT !.val = @ + i]) \in Cells
                     /\ CellOf([b EXCEPT !.val = @ + i]) \in Cells

-----------------------------------------------------------------------------
(* tp_init: all maps empty; pc and taint_state_changed of the freshly     *)
(* malloced Shad are indeterminate.                                        *)
Init ==
  /\ shad = [c \in Cells |-> {}]
  /\ current_frame = 0
  /\ pc \in Pcs
  /\ taint_state_changed \in BOOLEAN
  /\ tpc = {}
  /\ status = "run"
  /\ changed = FALSE

Next ==
  \/ \E a \in Addrs, l \in Labels : LabelOp(a, l)
  \/ \E a \in Addrs : DeleteOp(a)
  \/ \E a, b \in Addrs : CopyOp(a, b)
  \/ \E a, b \in BulkAddrs, n \in 1 .. MaxBulk : BulkInMap(a, b, n) /\ BulkCopyOp(a, b, n)
  \/ \E a, b, c \in Addrs : ComputeOp(a, b, c)
  \/ \E p \in Pcs : PcOp(p)
  \/ CallOp
  \/ RetOp
  \/ ClearShadowMemory

Spec == Init /\ [][Next]_vars

-----------------------------------------------------------------------------
TypeOK ==
  /\ shad \in [Cells -> SUBSET Labels]
  /\ current_frame \in 0 .. MaxCallDepth
  /\ pc \in Pcs
  /\ taint_state_changed \in BOOLEAN
  /\ tpc \subseteq Pcs
  /\ status \in {"run", "assert", "oob"}
  /\ changed \in BOOLEAN

-----------------------------------------------------------------------------
(* Properties.                                                             *)

(* A step that does not end in an assert or an out-of-bounds write. *)
Done == status' = "run"

(* BULKCOPYOP delivers, for every i < n, the set the source byte a+i held  *)
(* to destination byte b+i and touches no other cell, when the two ranges  *)
(* do not overlap (hard-disk taint copies between disk and RAM).           *)
Shift(a, i) == [a EXCEPT !.val = @ + i]
Disjoint(a, b, n) ==
  \A i, j \in 0 .. n - 1 : CellOf(Shift(a, i)) # CellOf(Shift(b, j))
BulkCopyDelivers ==
  [][ \A a, b \in BulkAddrs, n \in 1 .. MaxBulk :
        BulkInMap(a, b, n) /\ Disjoint(a, b, n) /\ BulkCopyOp(a, b, n) =>
          shad' = [c \in Cells |->
                     IF \E i \in 0 .. n - 1 : c = CellOf(Shift(b, i))
                       THEN LET i == CHOOSE i \in 0 .. n - 1 : c = CellOf(Shift(b, i))
                            IN  shad[CellOf(Shift(a, i))]
                       ELSE shad[c]]
    ]_vars

(* LLVM values live in shad->llv at num_vals * frame + slot * MAXREGSIZE   *)
(* + offset.  A single op must change the label set of at most one        *)
(* (frame, slot, offset) triple: a callee's write must not show up in a    *)
(* caller's frame nor a FUNCARG write in the caller's own values.          *)
LlvAddrs == {a \in Addrs : a.typ = "LADDR" /\ a.flag = "NONE"}
LlvKeys == (0 .. FunctionFrames - 1) \X LlvAddrs
LlvRead(s, k) == s[<<"llv", LlvIndex(k[1], k[2])>>]
NoLlvAliasing ==
  [][ Cardinality({k \in LlvKeys : LlvRead(shad', k) # LlvRead(shad, k)}) <= 1 ]_vars

(* The PC op commits the previous pc to tpc whenever the taint state      *)
(* changed during that instruction (spec section 4.4): a PC op that ends   *)
(* an instruction whose ops changed the shadow records its pc.             *)
TpcRecordsChangingPcs ==
  [][ TaintedInstructions /\ changed /\ ~changed' /\ Done => pc \in tpc' ]_vars

(* clear_shadow_memory leaves no taint anywhere: afterwards every address  *)
(* queries empty.                                                          *)
ClearLeavesNoTaint ==
  [][ ClearShadowMemory => \A c \in Cells : shad'[c] = {} ]_vars

=============================================================================
