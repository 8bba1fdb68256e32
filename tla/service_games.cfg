SPECIFICATION Spec
CONSTANTS
  Proc = {p1, p2, p3}
  Path = {f1, f2}
  None = None
SYMMETRY Symmetry
INVARIANTS LoadedForOwner LoadsOwnDriver InstallWorks NothingStays
CHECK_DEADLOCK FALSE
