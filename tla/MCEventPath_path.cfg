SPECIFICATION Spec
CONSTANTS
  Host = host
  Session = session
  NoSession = noSession
  Decisions = {"approve_once"}
  Reports <- Waits
  Journals = {TRUE, FALSE}
  LateRuns = FALSE
  MaxHistory = 2
  MaxQueue = 2
  MaxEventIds = 2
  MaxEvents = 4
  MaxRuns = 2
  MaxLinks = 2
  MaxSnapshots = 1
  MaxFailures = 1
INVARIANTS TypeOK SubscribersFollowHistory OnlyOvertakenIgnored ViewIsTruth ShownWasSaid WaitingMeansPending
CHECK_DEADLOCK FALSE
