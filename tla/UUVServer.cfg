SPECIFICATION FairSpec
CONSTANTS
  NumSensors = 2
  Named <- MCNamed
  States <- MCOneState
  Speeds <- MCSpeeds
  InitSpeed = 4
  MaxReadings = 1
  MaxRequests = 2
INVARIANTS
  ReadingsConserved
  ReportConsistent
  CommandInForce
PROPERTIES
  ImplementsReadings
  RequestAnswered
CHECK_DEADLOCK FALSE
