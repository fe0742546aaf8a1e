CONSTANTS
  c1 = c1
  c2 = c2
  c3 = c3
  l1 = l1
  l2 = l2
  Cells <- MCCells
  Labels <- MCLabels
  MaxNodes = 4
SYMMETRY MCSymmetry
SPECIFICATION Spec
INVARIANT TypeOK
INVARIANT IterEnumerates
PROPERTY ImplementsLabelShadow
