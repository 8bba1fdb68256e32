SPECIFICATION Spec
CONSTANTS
  ConnId = {c1, c2}
  Node = {n1, n2}
  Nil = Nil
  SerialCallbacks = FALSE
  AllocMayFail = TRUE
SYMMETRY Symmetry
INVARIANTS ExtraOwnsNode TableMatchesConnections LoginRecorded NoCrossLogin
CHECK_DEADLOCK FALSE
