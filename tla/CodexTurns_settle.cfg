SPECIFICATION FairSpec
CONSTANTS
  MaxQueued = 1
  MaxCommands = 3
PROPERTIES CommandsSettle QueuedRun
CHECK_DEADLOCK FALSE
