SPECIFICATION Spec
CONSTANTS
  Pid = {1}
  Value = {1, 2}
  Game = 3
  GameValue = {1}
  Width = 4
  MaxHandles = 2
  None = None
INVARIANTS SweepClears
