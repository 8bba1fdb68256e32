SPECIFICATION Spec
CONSTANTS
  MaySplit = TRUE
  StaleHeader <- StaleZero
  MaxBacklog = 6
PROPERTY WaitEnds
CHECK_DEADLOCK FALSE
