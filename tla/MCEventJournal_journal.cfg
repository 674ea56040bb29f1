SPECIFICATION FairSpec
CONSTANTS
  MaxEvents = 2
  SyncWrites = TRUE
  PowerLoss = TRUE
  Faults <- AllFaults
  Cut = Cut
  MaxAppends = 5
  MaxFaults = 2
  MaxCrashes = 2
INVARIANTS
  TypeOK
  AckedSurvives
  SnapshotOrdered
  JournalBounded
PROPERTIES
  ImplementsDurableLog
  AppendsSettle
CHECK_DEADLOCK FALSE
