SPECIFICATION Spec
CONSTANTS
  Host = host
  Session = session
  NoSession = noSession
  Decisions = {"approve_once"}
  Reports <- Heartbeats
  Journals = {TRUE}
  LateRuns = FALSE
  MaxHistory = 2
  MaxQueue = 4
  MaxEventIds = 2
  MaxEvents = 4
  MaxRuns = 2
  MaxLinks = 2
  MaxSnapshots = 1
  MaxFailures = 0
INVARIANTS RestartsAreTaken
CHECK_DEADLOCK FALSE
