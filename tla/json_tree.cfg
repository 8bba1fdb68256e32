SPECIFICATION Spec
CONSTANTS
  Node = {n1,n2,n3,n4}
  NULL = NULL
  Kind = {"object"}
  Name <- Names
  MaxReferences = 1
SYMMETRY Symmetry
PROPERTIES ImplementsForest LinksHold
CHECK_DEADLOCK FALSE
