--------------------------- MODULE MCTaintShadow ---------------------------
(* Instances of TaintShadow for TLC: a handful of addresses chosen so that *)
(* each kind of address, the FUNCARG frame and the IRRELEVANT flag occur, *)
(* and so that LLVM slots of neighbouring frames meet in shad->llv.        *)
EXTENDS TaintShadow

A(t, v, o, f) == [typ |-> t, val |-> v, off |-> o, flag |-> f]

M0   == A("MADDR", 0, 0, "NONE")
M1   == A("MADDR", 1, 0, "NONE")
H0   == A("HADDR", 0, 0, "NONE")
L0   == A("LADDR", 0, 0, "NONE")
L1   == A("LADDR", 1, 0, "NONE")
L0F  == A("LADDR", 0, 0, "FUNCARG")
G0   == A("GREG", 0, 0, "NONE")
K    == A("CONST", 0, 0, "NONE")
Irr  == A("UNK", 0, 0, "IRRELEVANT")

(* Operations and their semantics: one address of each kind that matters. *)
OpsAddrs == {M0, L0F, G0, K, Irr}
(* Frames: two LLVM slots and a FUNCARG slot of one value. *)
FrameAddrs == {L0, L1, L0F}
(* tpc: one RAM byte and one disk byte. *)
TpcAddrs == {M0, H0}
(* clear_shadow_memory: one LLVM value. *)
ClearAddrs == {L0}
(* Bulk copies between disk and RAM, with overlap inside RAM. *)
BulkAddrSet == {H0, M0, M1}

(* Extent of the sparse and RAM maps: one byte for the operations, three *)
(* for bulk copies of up to two bytes with overlap.                      *)
OpsMapSize  == [m \in {"hd", "ram", "io", "ports"} |-> 1]
BulkMapSize == [m \in {"hd", "ram", "io", "ports"} |-> 3]

(* The maps fast_shad_new takes from malloc in a real run: the LLVM,      *)
(* register and return shadows are small; RAM is large and mmapped.       *)
MCMallocMaps == {"llv", "grv", "gsv", "ret"}
=============================================================================
