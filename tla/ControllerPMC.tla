---------------------------- MODULE ControllerPMC ----------------------------
(***************************************************************************)
(* The controller as MainController assembles it: the timer thread of      *)
(* Controller, whose analyser, planner and executor are those of PMC.      *)
(* While the timer thread verifies one configuration after the other, the  *)
(* main thread, the socket and sUUV go on, so the simulation time may be   *)
(* over and the shutdown line sent in the middle of an analysis.           *)
(***************************************************************************)
EXTENDS PMC, Sequences

CONSTANT MaxCycles   \* bound: cycles the timer starts before it is cancelled

VARIABLES timer, main, reader, toServer, toClient, server,
          inits, rates, speeds, states, ends, speedInForce, statesInForce,
          exitCode, logged, merged

C == INSTANCE Controller

allButTimer == <<main, reader, toServer, toClient, server, inits, rates, speeds, states,
                 ends, speedInForce, statesInForce, exitCode, logged, merged>>
allVars == <<vars, timer, allButTimer>>

LoopInit == Init /\ C!Init

(* analyser.run, and planner.run up to the choice of a result.             *)
Analysis ==
  /\ timer = "plan"
  /\ StartAnalysis \/ \E ok \in Verdicts : Verify(ok)
  /\ UNCHANGED <<timer, allButTimer>>

(* planner.run and executor.run end the analysis; a planner that throws    *)
(* takes the timer thread with it.                                         *)
PlanAndSend ==
  /\ timer = "plan" /\ Plan
  /\ IF pc' = "failed"
       THEN timer' = "dead" /\ UNCHANGED allButTimer
       ELSE C!Plan

TimerThread == Analysis \/ PlanAndSend \/ (C!Exchange /\ UNCHANGED vars)
MainThread == C!MainThread /\ UNCHANGED vars
Server == C!Server /\ UNCHANGED vars

Running == exitCode = "none"

LoopNext ==
  Running /\ (TimerThread \/ MainThread \/ Server \/ (C!ServerDies /\ UNCHANGED vars))

(* Timer, sleep and sockets run on and PRISM answers; nothing obliges the  *)
(* server to die.                                                          *)
FairLoopSpec ==
  /\ LoopInit /\ [][LoopNext]_allVars
  /\ WF_allVars(TimerThread /\ Running)
  /\ WF_allVars(MainThread /\ Running)
  /\ WF_allVars(Server /\ Running)

------------------------------------------------------------------------------
(* The request of the one thread that waits is on its way, or its reply    *)
(* is: before the shutdown each of the timer's reads gets the answer to    *)
(* its own request, and a waiting timer leaves nothing in the streams.     *)
OwnReply == C!OwnReply

(* The loop is closed: when a cycle has ended before the shutdown, sUUV    *)
(* runs with the speed and the sensors that cycle planned, and these are a *)
(* configuration found to meet the requirements, or the one the planner    *)
(* falls back on when the analysis kept none that does.                    *)
PlannedIsInForce ==
  (timer = "waiting" /\ main = "sleeping" /\ server = "up") =>
    /\ speedInForce = speeds /\ statesInForce = speeds /\ ends = speeds
    /\ PlanMeetsRequirements

(* A log that was exported has one row for every cycle that ended, each    *)
(* put together from entries of one and the same cycle.                    *)
LogComplete == C!LogComplete

(* After the simulation time the process ends by itself, in the middle of  *)
(* an analysis too, unless the shutdown line was merged with the timer's   *)
(* request.                                                                *)
ShutdownEnds == C!ShutdownEnds

(* launch.sh tells its user where the log is whenever the controller has   *)
(* ended: so a log was written.  (Refuted: see README.)                    *)
LogWritten == C!LogWritten
==============================================================================
