CONSTANTS
  MaxEvents = 2
  SyncWrites = TRUE
  PowerLoss = TRUE
  Faults <- NoFaults
  Cut = Cut
  MaxAppends = 4
  MaxFaults = 0
  MaxCrashes = 2
SPECIFICATION Spec
INVARIANT
  CrashesAreRepaired
CHECK_DEADLOCK FALSE
