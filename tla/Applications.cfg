SPECIFICATION FairAppSpec
CONSTANTS
  Modes <- MCModes
  AppTicks <- MCPeriods
  Periods <- MCPeriods
  MaxTickPeriods <- MCMaxTickPeriods
  ShortestPeriod = 2
  IntMax = 8
  Late = 1
  MaxMail = 2
  Lines <- MCLines
  MaxLines = 3
  Nominal = 3
  Horizon = 31
  Xs <- MCXs
  Ys <- MCYs
  MaxMoves = 3
  MaxIterates = 5
  Configured = {SENSOR1, SENSOR2}
  DefaultPort = 8888
  ConfPort = 8888
  MaxConnections = 3
INVARIANTS
  IteratesInTime
  RateFollowsSchedule
  NoChangeMissed
  WayAccountedFor
  NeverDeaf
  OneServer
PROPERTIES
  SensorRecovers
  ConnectionSettles
CHECK_DEADLOCK FALSE
