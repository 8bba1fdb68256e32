SPECIFICATION Spec
CONSTANTS
  ConnId = {c1, c2, c3}
  Node = {n1, n2, n3}
  Nil = Nil
  SerialCallbacks = TRUE
  AllocMayFail = FALSE
SYMMETRY Symmetry
INVARIANTS NoCrash NoNodeLeak
PROPERTY ImplementsRegistry
