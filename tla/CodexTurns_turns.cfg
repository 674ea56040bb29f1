SPECIFICATION Spec
CONSTANTS
  MaxQueued = 2
  MaxCommands = 4
INVARIANTS TypeOK OkMeansDone DoneInOrder NothingForgotten ActiveIsCurrent
CHECK_DEADLOCK FALSE
