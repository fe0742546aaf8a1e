--------------------------- MODULE MCTaintRewriter ---------------------------
(* TaintRewriter for TLC: the instruction kinds each run lets a function *)
(* contain.                                                              *)
EXTENDS TaintRewriter

(* Every handler, with the inputs on which the rewriter is faithful: a   *)
(* store to CPU state only when volatile, memsets of constant fills      *)
(* (other fills abort the pass), mmu stores of non-constants,           *)
(* unsupported intrinsics and helpers called on constants, helpers that *)
(* return void, and a void return.                                       *)
MCKindsFaithful ==
  {"binop", "cmp", "cast", "gep", "load_state", "store_volatile",
   "mmu_load", "mmu_store", "memcpy", "memmove", "memset", "ret_void",
   "call_mix", "call_compute", "call_untracked", "intrinsic_other_const",
   "helper_void", "helper_const_arg"}

(* A register is loaded, then stored back through the CPU state. *)
MCKindsStateStore == {"load_state", "store_state", "ret_void"}

(* A function that stores a constant through __st?_mmu_panda. *)
MCKindsConstStore == {"mmu_store_const", "mmu_load", "ret_void"}

(* A function that returns a computed value. *)
MCKindsRetValue == {"load_state", "binop", "ret_value"}

(* A helper called on a value loaded from a register returns it. *)
MCKindsHelperArg == {"load_state", "helper_value", "ret_void"}

(* An intrinsic the rewriter does not support, on a loaded value. *)
MCKindsIntrinsic == {"load_state", "intrinsic_other", "ret_void"}

(* A memset whose fill is a value loaded from a register. *)
MCKindsMemsetValue == {"load_state", "memset_value", "ret_void"}
==============================================================================
