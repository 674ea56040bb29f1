CONSTANTS
  Sessions = {s1}
  CallIds = {c1}
  Commands = {x}
  Options = {"approve_once"}
  NoSession = NoSession
  MaxQueue = 4
  ApprovalLife = 1
  CommandLife = 1
  Watched = {"host.connected", "host.heartbeat", "session.status.changed", "approval.requested"}
  MaxTime = 1
  MaxApprovals = 1
  MaxDecisions = 0
  MaxReports = 0
  MaxSockets = 2
  MaxEventIds = 2000
SPECIFICATION Spec
INVARIANT OnlyDuplicatesIgnored
CHECK_DEADLOCK FALSE
