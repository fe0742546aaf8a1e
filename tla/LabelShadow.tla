---------------------------- MODULE LabelShadow ----------------------------
(* What the shadow operations promise of label sets (spec sections 3.1    *)
(* and 4): every cell holds a set of labels, initially empty; label adds  *)
(* one label, compute stores the union of two cells' sets, copy copies a  *)
(* cell's set, delete empties a cell.  This is the abstraction the        *)
(* TaintShadow module uses for the value of a cell.                       *)
CONSTANTS Labels, Cells

VARIABLES sets,  \* Cells -> the set of labels a query of the cell iterates
          last   \* the call served last, with its arguments

vars == <<sets, last>>

Init == sets = [c \in Cells |-> {}] /\ last = <<"init">>

Label(c, l) ==
  sets' = [sets EXCEPT ![c] = @ \cup {l}] /\ last' = <<"label", c, l>>

Compute(a, b, c) ==
  sets' = [sets EXCEPT ![c] = sets[a] \cup sets[b]] /\ last' = <<"compute", a, b, c>>

Copy(a, b) ==
  sets' = [sets EXCEPT ![b] = sets[a]] /\ last' = <<"copy", a, b>>

Delete(c) == sets' = [sets EXCEPT ![c] = {}] /\ last' = <<"delete", c>>

Next ==
  \/ \E c \in Cells, l \in Labels : Label(c, l)
  \/ \E a, b, c \in Cells : Compute(a, b, c)
  \/ \E a, b \in Cells : Copy(a, b)
  \/ \E c \in Cells : Delete(c)

Spec == Init /\ [][Next]_vars
=============================================================================
