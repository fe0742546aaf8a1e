-------------------------- MODULE MCTaintOpBuffer --------------------------
(* Instruction tables for TaintOpBuffer.  Every instruction is one byte    *)
(* wide (one op per operand byte); LLVM slots live in frame 0, where no    *)
(* two slots share a cell (MaxRegSize = 1), so only the op patching is     *)
(* under test here.                                                        *)
EXTENDS TaintOpBuffer

A(t, v, f) == [typ |-> t, val |-> v, off |-> 0, flag |-> f]
U   == A("UNK", 0, "READLOG")        \* an address the log fills in
M0  == A("MADDR", 0, "NONE")
M1  == A("MADDR", 1, "NONE")
G0  == A("GREG", 0, "NONE")
Irr == A("GSPEC", 1, "IRRELEVANT")   \* an unobservable CPU-state field
P0  == A("PADDR", 0, "NONE")
L(v) == A("LADDR", v, "NONE")

Copy(a, b)       == [typ |-> "COPY", a |-> a, b |-> b, c |-> U]
Delete(a)        == [typ |-> "DELETE", a |-> a, b |-> U, c |-> U]
Compute(a, b, c) == [typ |-> "COMPUTE", a |-> a, b |-> b, c |-> c]

NoTables == [bb |-> 0, labels |-> <<0, 0>>, switchConds |-> << >>,
             switchLabels |-> << >>, phiLabels |-> << >>, phiVals |-> << >>,
             dst |-> 0, src |-> 0, port |-> FALSE]
Insn(name, readlog, emitted, fields) ==
  [f \in {"name", "readlog", "ops"} \cup DOMAIN NoTables |->
     CASE f = "name" -> name [] f = "readlog" -> readlog [] f = "ops" -> emitted
       [] f \in DOMAIN fields -> fields[f]
       [] OTHER -> NoTables[f]]

(* Loads, stores, memset and a port load. *)
MemInsns ==
  <<Insn("load", TRUE, <<Copy(U, L(0))>>, [dst |-> 0]),
    Insn("store", TRUE, <<Copy(L(1), U)>>, [src |-> 1]),
    Insn("memset", TRUE, <<Delete(U)>>, [port |-> FALSE]),
    Insn("load", TRUE, <<Copy(U, L(2))>>, [dst |-> 2, port |-> TRUE])>>
MemPaths == {<<1, 2, 3>>, <<4>>}
MemEnv == {M0, G0, L(1), P0}
MemEntrySet == {M0, G0, Irr}

(* Control flow: a branch and a switch (two cases and a default) into a  *)
(* phi of slots 1 and 2, and a select between slots 1 and 2.             *)
ControlInsns ==
  <<Insn("condbranch", TRUE, << >>, [bb |-> 1, labels |-> <<3, 3>>]),
    Insn("switch", TRUE, << >>, [bb |-> 2, switchConds |-> <<5, 7>>,
                                 switchLabels |-> <<3, 3, 4>>]),
    Insn("phi", FALSE, <<Copy(U, L(0))>>, [phiLabels |-> <<1, 2>>, phiVals |-> <<1, 2>>, dst |-> 0]),
    Insn("select", TRUE, <<Copy(U, L(3))>>, [labels |-> <<1, 2>>, dst |-> 3])>>
ControlPaths == {<<1, 3>>, <<2, 3>>, <<4>>}
ControlEnv == {L(1), L(2)}

(* A one-byte memcpy, run with every pair of logged addresses. *)
MemcpyInsns == <<Insn("memcpy", TRUE, <<Copy(U, U)>>, [port |-> FALSE])>>
MemcpyPaths == {<<1>>}

(* A store in tainted-pointer mode: COPY of the value, then COMPUTE of    *)
(* the pointer's slot into the stored-to cell.                            *)
StoreInsns == <<Insn("store", TRUE, <<Copy(L(1), U), Compute(L(2), U, U)>>, [src |-> 1])>>
StorePaths == {<<1>>}
StoreEnv == {L(1), L(2)}
StoreEntrySet == {M0, M1}

(* A select between a constant (false) and slot 1 (true), into slot 0. *)
SelectInsns == <<Insn("select", TRUE, <<Copy(U, L(0))>>, [labels |-> <<-1, 1>>, dst |-> 0])>>
SelectPaths == {<<1>>}
SelectEnv == {L(0), L(1)}

(* A phi in a block entered from block 1 (a constant) or block 2 (slot 1). *)
PhiInsns ==
  <<Insn("condbranch", TRUE, << >>, [bb |-> 1, labels |-> <<3, 3>>]),
    Insn("condbranch", TRUE, << >>, [bb |-> 2, labels |-> <<3, 3>>]),
    Insn("phi", FALSE, <<Copy(U, L(0))>>, [phiLabels |-> <<1, 2>>, phiVals |-> <<-1, 1>>, dst |-> 0])>>
PhiPaths == {<<1, 3>>, <<2, 3>>}
PhiEnv == {L(0), L(1)}

NoneSet == {}
PortSet == {P0}
OneByteMap == [m \in {"hd", "ram", "io", "ports"} |-> IF m = "hd" \/ m = "io" THEN 0 ELSE 2]
NoMalloc == {}
=============================================================================
