SPECIFICATION Spec
CONSTANTS
  Pid = {p1, p2}
  LoopThread = {t1, t2}
  None = None
INVARIANTS ContextValid  OnlyCaughtThreads
PROPERTY KeepsNotifying
CHECK_DEADLOCK FALSE
