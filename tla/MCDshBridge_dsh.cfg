CONSTANTS
  Sessions = {s1}
  CallIds = {c1}
  Commands = {x}
  Options = {"approve_once", "cancel"}
  NoSession = NoSession
  MaxQueue = 1
  ApprovalLife = 1
  CommandLife = 1
  Watched = {}
  MaxTime = 1
  MaxApprovals = 2
  MaxDecisions = 2
  MaxReports = 1
  MaxSockets = 2
  MaxEventIds = 2000
SPECIFICATION FairSpec
INVARIANTS TypeOK OneOutcome NeverStranded
PROPERTIES ImplementsOneShotApproval RequestsSettle
CHECK_DEADLOCK FALSE
