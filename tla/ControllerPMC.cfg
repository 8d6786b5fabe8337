SPECIFICATION FairLoopSpec
CONSTANTS
  MaxCycles = 3
  LastCSC = 2
  Slowest = 1
  Fastest = 3
  Base = 2
  Verdicts = {TRUE, FALSE}
INVARIANTS
  OwnReply
  PlannedIsInForce
  LogComplete
  FastConfigurationsLost
  PlannerSurvives
PROPERTIES
  ShutdownEnds
CHECK_DEADLOCK FALSE
