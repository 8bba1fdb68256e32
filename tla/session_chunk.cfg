SPECIFICATION Spec
CONSTANTS
  MaySplit = TRUE
  StaleHeader <- StaleZero
  MaxBacklog = 6
INVARIANTS NoSpuriousSuccess
CHECK_DEADLOCK FALSE
