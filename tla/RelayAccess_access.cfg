CONSTANTS
  Devices = {1, 2}
  MaxEvents = 4
  MaxKills = 1
  MaxPersists = 2
SPECIFICATION Spec
INVARIANTS TypeOK OneDevicePerOffer NewestLinkServes
PROPERTIES ImplementsDeviceGrants RevokedIsSilent HandledInOrder ForwardsAreLive RefusedForReason
CHECK_DEADLOCK FALSE
