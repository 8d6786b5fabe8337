----------------------------- MODULE Applications -----------------------------
(***************************************************************************)
(* A vehicle process built on CMOOSApp.  What it runs on the main loop of  *)
(* MOOSAppLoop is chosen by main(): an application of any kind, which may  *)
(* set its rate as it likes and be given mail in any mode; sSensor, which  *)
(* sets the rate by its schedule; sOdometry; or sUUV, of which this is the *)
(* start-up.  The latter three are started with the default mode and an    *)
(* AppTick of their own.                                                   *)
(***************************************************************************)
EXTENDS Sensor, UUVStartup

CONSTANTS Xs, Ys, MaxMoves, MaxIterates   \* see Odometry

(* The distances sOdometry computes are whole numbers.                     *)
ASSUME OdometryAssumption ==
  /\ Xs \subseteq Nat /\ Ys \subseteq Nat
  /\ \A a, c \in Xs \cup {0}, b, d \in Ys \cup {0} :
       \E r \in 0 .. (a + b + c + d) : r * r = (a - c) * (a - c) + (b - d) * (b - d)

VARIABLES
  app,        \* what main() has constructed: "any", "sSensor", "sOdometry", "sUUV"
  m_current_x, m_previous_x, m_current_y, m_previous_y, m_first_reading,
  m_total_distance, m_iterations, navMail, moves, x, y, travelled, paired, mixed

O == INSTANCE Odometry WITH mail <- navMail

odometryVars ==
  <<m_current_x, m_previous_x, m_current_y, m_previous_y, m_first_reading,
    m_total_distance, m_iterations, navMail, moves, x, y, travelled, paired, mixed>>
scheduleVars == <<schedule, event_index, now, ranAt, retired, applied>>
appVars == <<app, loopVars, scheduleVars, odometryVars, startupVars>>

AppInit ==
  /\ app \in {"any", "sSensor", "sOdometry", "sUUV"}
  /\ Init /\ O!Init /\ StartupInit
  /\ app # "any" => /\ m_IterationMode = REGULAR_ITERATE_AND_MAIL
                    /\ m_dfFreq = Nominal /\ m_dfMaxAppTick = 0

(* The steps of each application change nothing of the others.             *)
Runs(name) == app = name /\ UNCHANGED app
LoopStep == Runs("any") /\ UNCHANGED <<scheduleVars, odometryVars, startupVars>>
SensorStep == Runs("sSensor") /\ UNCHANGED <<odometryVars, startupVars>>
OdometryStep == Runs("sOdometry") /\ UNCHANGED <<loopVars, scheduleVars, startupVars>>
StartupStep == Runs("sUUV") /\ UNCHANGED <<loopVars, scheduleVars, odometryVars>>

AppNext ==
  \/ LoopNext /\ LoopStep
  \/ Next /\ SensorStep
  \/ O!Next /\ OdometryStep
  \/ StartupNext /\ StartupStep

AppSpec == AppInit /\ [][AppNext]_appVars

(* Time goes on, an application's threads are scheduled and a mission file *)
(* ends; mail, losses of the connection and the controller are not owed.   *)
FairAppSpec ==
  /\ AppSpec
  /\ WF_appVars(Tick /\ LoopStep) /\ WF_appVars(AppThread /\ LoopStep)
  /\ WF_appVars(StartUpDone /\ SensorStep)
  /\ WF_appVars(Iterate /\ SensorStep) /\ WF_appVars(Elapse /\ SensorStep)
  /\ WF_appVars(up /\ MainThread /\ StartupStep)
  /\ WF_appVars(up /\ (ConnectToServer \/ InitServer \/ ConnectRegister) /\ StartupStep)

------------------------------------------------------------------------------
(* With both coordinates of one position at every Iterate, the distance    *)
(* sOdometry reports is that of the way from the origin; and no part of    *)
(* the way is missed, unless one Iterate gets mail of several positions.   *)
WayAccountedFor == O!WayAccountedFor

(* The claim of sOdometry's report.  (Refuted: see README.)                *)
DistanceTravelled == O!DistanceTravelled

==============================================================================
