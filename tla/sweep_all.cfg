SPECIFICATION Spec
CONSTANTS
  Pid = {1, 5}
  Value = {1, 2, 5}
  Game = 2
  GameValue = {1}
  Width = 4
  MaxHandles = 2
  None = None
INVARIANTS SweepExamines
PROPERTY KeepsSweeping
