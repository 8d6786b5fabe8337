SPECIFICATION FairSpec
CONSTANTS
  uHelm = uHelm
  sSensor = sSensor
  Clients <- Both
  Buffer = 1
  MaxSessions = 2
  MaxPackets = 2
INVARIANTS
  MapsAgree
  SessionsIsolated
PROPERTIES
  NameReleased
CHECK_DEADLOCK FALSE
