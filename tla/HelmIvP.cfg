SPECIFICATION FairSpec
CONSTANTS
  Standby = TRUE
  AllowOverride = TRUE
  ParkOnAllStop = FALSE
  StartInDrive <- Primary
  BehaviorsInMission = FALSE
  Threshold = 1
  MaxMail = 2
  Decisions <- AnyDecision
  Commands <- Overrides
  MaxCommands = 2
  MaxCrashes = 1
  Crashing <- Primary
INVARIANTS
  NeverCoasts
  StopsWhenItQuits
PROPERTIES
  OneSteers
  TakesOver
CHECK_DEADLOCK FALSE
