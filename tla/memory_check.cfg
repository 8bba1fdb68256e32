SPECIFICATION CheckSpec
CONSTANTS
  MaySplit = FALSE
  StaleHeader <- StaleNoSuccess
  MaxBacklog = 0
  HookList <- Hooks
  Module <- Modules
  Home <- HomeOf
  MaxChanges = 3
INVARIANTS Lockstep ReportsAreAttributed ChangesReachServer ReportsAreCaused
PROPERTIES ImplementsService KeepsChecking ImplementsSession
CHECK_DEADLOCK FALSE
