\* Every sequence of calls on lists of up to four nodes.
SPECIFICATION Spec
CONSTANTS
  Nodes = {n1, n2, n3, n4}
  Values = {a, b}
  NULL = NULL
  MinIndex <- MCMinIndex
SYMMETRY Symmetry
INVARIANTS
  TypeOK
  Linked
  CursorAtIndex
  FailuresExplained
PROPERTIES
  Refinement
CHECK_DEADLOCK FALSE
