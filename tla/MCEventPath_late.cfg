SPECIFICATION Spec
CONSTANTS
  Host = host
  Session = session
  NoSession = noSession
  Decisions = {"approve_once"}
  Reports <- Heartbeats
  Journals = {TRUE}
  LateRuns = TRUE
  MaxHistory = 4
  MaxQueue = 2
  MaxEventIds = 2
  MaxEvents = 4
  MaxRuns = 2
  MaxLinks = 2
  MaxSnapshots = 1
  MaxFailures = 0
INVARIANTS OutOfOrderIgnored
CHECK_DEADLOCK FALSE
