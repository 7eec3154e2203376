SPECIFICATION Spec
CONSTANTS
  Lists <- TwoLists
  Cells <- ThreeCells
  NULL = NULL
  c1 = c1
  c2 = c2
  c3 = c3
INVARIANTS PointersAgree ScanInOrder
