------------------------------ MODULE LabelSet ------------------------------
(* Label sets as label_set.h builds them: a persistent DAG whose leaves   *)
(* are singletons (child1 = NULL, a label) and whose inner nodes are      *)
(* unions (child1, child2).  The heap is the sequence of nodes malloc has *)
(* returned, a pointer is an index into it, and NULL is 0.  The cells are *)
(* shadow cells after address resolution (TaintShadow models that part);  *)
(* the actions are the shadow operations of taint_processor.cpp that      *)
(* make and share label sets: tp_label, tp_compute, tp_copy, tp_delete.   *)
EXTENDS Naturals, Sequences, FiniteSets

CONSTANTS Labels,    \* label values (uint32_t)
          Cells,     \* shadow cells
          MaxNodes   \* bound on the nodes malloc hands out

VARIABLES heap,  \* the LabelSet nodes allocated so far, in order
          shad,  \* Cells -> the LabelSetP the cell holds
          last   \* the call served last, with its arguments (history)

vars == <<heap, shad, last>>

NULL == 0

(* The values of a LabelSetP and of a struct LabelSet.  A leaf's label    *)
(* shares storage with child2; child1 = NULL tells the two apart.         *)
LabelSetP == 0..MaxNodes
Leaf == [child1 : {NULL}, label : Labels]
Union == [child1 : LabelSetP \ {NULL}, child2 : LabelSetP \ {NULL}]

(* malloc of one node: its pointer and the heap it leaves. *)
Alloc(h, node) == [ptr |-> Len(h) + 1, heap |-> Append(h, node)]

label_set_singleton(l) == [child1 |-> NULL, label |-> l]

(* Mutants of label_set_union: with || for && in the two-sided case,   *)
(* and with the one-sided cases tested before the two-sided one.        *)
label_set_unionAnyAlloc(h, ls1, ls2) ==
  IF ls1 = ls2 THEN [ptr |-> ls1, heap |-> h]
  ELSE Alloc(h, [child1 |-> ls1, child2 |-> ls2])

label_set_unionFirstWins(h, ls1, ls2) ==
  IF ls1 = ls2 \/ ls1 /= NULL THEN [ptr |-> ls1, heap |-> h]
  ELSE [ptr |-> ls2, heap |-> h]

(* label_set_union: the same pointer, or a new union node when both are  *)
(* non-NULL, or whichever is non-NULL (NULL when both are).              *)
label_set_union(h, ls1, ls2) ==
  IF ls1 = ls2 THEN [ptr |-> ls1, heap |-> h]
  ELSE IF ls1 /= NULL /\ ls2 /= NULL
       THEN Alloc(h, [child1 |-> ls1, child2 |-> ls2])
  ELSE [ptr |-> IF ls1 /= NULL THEN ls1 ELSE ls2, heap |-> h]

(* Mutant of label_set_iter: the right branch walks child1 again. *)
RECURSIVE label_set_iterLeftTwice(_, _)
label_set_iterLeftTwice(h, ls) ==
  IF ls = NULL THEN << >>
  ELSE IF h[ls].child1 /= NULL
       THEN label_set_iterLeftTwice(h, h[ls].child1) \o label_set_iterLeftTwice(h, h[ls].child1)
  ELSE << h[ls].label >>

(* label_set_iter: the labels passed to iter, in order: nothing for NULL, *)
(* child1's then child2's for a union, the label for a leaf.             *)
RECURSIVE label_set_iter(_, _)
label_set_iter(h, ls) ==
  IF ls = NULL THEN << >>
  ELSE IF h[ls].child1 /= NULL
       THEN label_set_iter(h, h[ls].child1) \o label_set_iter(h, h[ls].child2)
  ELSE << h[ls].label >>

(* tp_ls_iter: nothing for an empty set, else label_set_iter. *)
tp_ls_iter(c) == label_set_iter(heap, shad[c])

Elems(s) == {s[i] : i \in DOMAIN s}

(* tp_label: union(query(a), singleton(l)) is put in the cell. *)
tp_label(c, l) ==
  LET s == Alloc(heap, label_set_singleton(l))
      u == label_set_union(s.heap, shad[c], s.ptr)
  IN  /\ Len(u.heap) <= MaxNodes
      /\ heap' = u.heap
      /\ shad' = [shad EXCEPT ![c] = u.ptr]
      /\ last' = <<"label", c, l>>

(* tp_compute: c gets union(query(a), query(b)). *)
tp_compute(a, b, c) ==
  LET u == label_set_union(heap, shad[a], shad[b])
  IN  /\ Len(u.heap) <= MaxNodes
      /\ heap' = u.heap
      /\ shad' = [shad EXCEPT ![c] = u.ptr]
      /\ last' = <<"compute", a, b, c>>

(* tp_copy: returns at once when the addresses are equal; else b gets    *)
(* a's pointer, shared.                                                  *)
tp_copy(a, b) ==
  /\ a /= b
  /\ shad' = [shad EXCEPT ![b] = shad[a]]
  /\ last' = <<"copy", a, b>>
  /\ UNCHANGED heap

(* tp_delete: the cell's entry is removed (the set is not freed). *)
tp_delete(c) ==
  /\ shad' = [shad EXCEPT ![c] = NULL]
  /\ last' = <<"delete", c>>
  /\ UNCHANGED heap

Init == heap = << >> /\ shad = [c \in Cells |-> NULL] /\ last = <<"init">>

Next ==
  \/ \E c \in Cells, l \in Labels : tp_label(c, l)
  \/ \E a, b, c \in Cells : tp_compute(a, b, c)
  \/ \E a, b \in Cells : tp_copy(a, b)
  \/ \E c \in Cells : tp_delete(c)

Spec == Init /\ [][Next]_vars

TypeOK ==
  /\ Len(heap) <= MaxNodes
  /\ \A n \in DOMAIN heap : heap[n] \in Leaf \cup Union
  /\ shad \in [Cells -> 0..Len(heap)]

(* The labels of the leaves reachable from ls, by reachability rather   *)
(* than traversal: the reachable nodes are those in every set of nodes   *)
(* that holds ls and is closed under taking a union's children.  This is *)
(* the reference the traversal must agree with.                          *)
ClosedUnder(h, S) ==
  \A n \in S : h[n].child1 /= NULL => {h[n].child1, h[n].child2} \subseteq S
Denotes(h, ls) ==
  LET closed == {S \in SUBSET DOMAIN h : ls \in S /\ ClosedUnder(h, S)}
      reach  == {n \in DOMAIN h : \A S \in closed : n \in S}
  IN  IF ls = NULL THEN {}
      ELSE {h[n].label : n \in {m \in reach : h[m].child1 = NULL}}

(* What a query of each cell iterates (tp_ls_iter) behaves as the set    *)
(* semantics of LabelShadow, across sharing by tp_copy, unions of a cell *)
(* with itself or with NULL, and later deletes.                          *)
Abs == INSTANCE LabelShadow WITH sets <- [c \in Cells |-> Elems(tp_ls_iter(c))], last <- last
ImplementsLabelShadow == Abs!Spec

(* label_set_iter visits exactly the labels of the leaves reachable from *)
(* each cell's set, on every heap the operations build.                  *)
IterEnumerates == \A c \in Cells : Elems(tp_ls_iter(c)) = Denotes(heap, shad[c])
=============================================================================
