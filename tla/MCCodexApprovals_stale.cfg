SPECIFICATION Spec
CONSTANTS
  s1 = s1
  m1 = m1
  Sessions = {s1}
  Materials = {m1}
  Timeout = 2
  CommandTtl = 1
  MaxTime = 2
  MaxRequests = 2
  MaxDecisions = 2
  MaxRuns = 2
PROPERTIES StaleDecisionsRejected
CHECK_DEADLOCK FALSE
