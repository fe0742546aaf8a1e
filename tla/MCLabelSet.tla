---------------------------- MODULE MCLabelSet ----------------------------
(* Two labels, three shadow cells and room for four nodes: enough for a *)
(* union with a union child, a set shared by copy and then unioned with *)
(* the copy, and a cell unioned with itself or with an empty cell.      *)
EXTENDS LabelSet, TLC

CONSTANTS c1, c2, c3, l1, l2

MCCells == {c1, c2, c3}
MCLabels == {l1, l2}

(* Cells and labels are only compared for equality, so permuting either *)
(* maps behaviours to behaviours; every property here is a safety one.  *)
MCSymmetry == Permutations(MCCells) \cup Permutations(MCLabels)
=============================================================================
