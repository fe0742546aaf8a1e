------------------------------ MODULE MCRRLog ------------------------------
(* A guest of six instructions: an IO read at instruction 1 whose        *)
(* device emulation makes a nested physical-memory read, and a port read *)
(* at instruction 4, far enough apart that blocks of up to two           *)
(* instructions must be cut to land on an interrupt between them.  eip   *)
(* repeats (a loop of three).  Instruction 3 is a hlt: eip moves on to  *)
(* 20 while the count stays at 3.                                        *)
EXTENDS RRLog

MCProg == <<[at |-> 1, site |-> "RR_CALLSITE_IO_READ_0", nested |-> "RR_CALLSITE_CPU_PHYSICAL_MEMORY_RW_1"],
            [at |-> 4, site |-> "RR_CALLSITE_CPU_INB", nested |-> "none"]>>
MCEipAt == [c \in 0..5 |-> 16 + (c % 3)]
MCEcxAt == [c \in 0..5 |-> c % 2]
MCValues == {1, 2}
MCIrqVals == {0, 4}
MCHltEipAt == [c \in {3} |-> 20]
=============================================================================
