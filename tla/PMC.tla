--------------------------------- MODULE PMC ---------------------------------
(***************************************************************************)
(* The analyser and the planner of the controller's probabilistic variant. *)
(*                                                                         *)
(* AnalyserPMC.run verifies every configuration, a sensor combination CSC  *)
(* (a bit per sensor) at a speed sp (tenths of a metre per second), and    *)
(* files the result in PMCResultsMap under an index computed from both.    *)
(* PlannerPMC.run then takes a result that meets both requirements.        *)
(* What PRISM answers for a configuration is external: ok stands for       *)
(* r1 > MIN_READINGS /\ r2 < MAX_ENERGY.                                   *)
(***************************************************************************)
EXTENDS Integers

CONSTANTS
  LastCSC,   \* NUM_OF_SENSOR_CONFIGS - 1: 7
  Slowest,   \* first sp of the loop: 10
  Fastest,   \* last sp of the loop: 40
  Base,      \* the speed the index counts from: 20
  Verdicts   \* what PRISM may find of a configuration

Stride == Fastest - Base + 1   \* the literal 21

ASSUME PMCAssumption ==
  /\ LastCSC \in Nat \ {0}
  /\ {Slowest, Fastest, Base} \subseteq Nat
  /\ Slowest < Base /\ Base <= Fastest
  /\ Base - Slowest <= Stride
  /\ Verdicts \subseteq BOOLEAN

CSCs == 1 .. LastCSC
Speeds == Slowest .. Fastest
Indices == -Base .. LastCSC * Stride
Result == [csc : CSCs, speed : Speeds, ok : BOOLEAN]
NoResult == [csc |-> 0]
Unknown == [csc |-> -1]

VARIABLES
  pc,             \* "idle", "analyse", "plan" or "failed"
  CSC, sp,        \* the loop variables
  PMCResultsMap,  \* [Indices -> Result or NoResult]
  plan            \* the result whose speed and sensors Knowledge holds

vars == <<pc, CSC, sp, PMCResultsMap, plan>>

TypeOK ==
  /\ pc \in {"idle", "analyse", "plan", "failed"}
  /\ CSC \in CSCs /\ sp \in Speeds
  /\ PMCResultsMap \in [Indices -> Result \cup {NoResult}]
  /\ plan \in Result \cup {Unknown}

Init ==
  /\ pc = "idle" /\ CSC = 1 /\ sp = Slowest
  /\ PMCResultsMap = [i \in Indices |-> NoResult]
  /\ plan = Unknown

(* Mutants: the index counts down from Base, or up from Slowest.           *)
Index_Down(c, s) == (c - 1) * Stride + (Base - s)
Index_FromSlowest(c, s) == (c - 1) * Stride + (s - Slowest)

Index(c, s) == (c - 1) * Stride + (s - Base)

(* AnalyserPMC.run clears the map and enters its loops.                    *)
StartAnalysis ==
  /\ pc = "idle"
  /\ PMCResultsMap' = [i \in Indices |-> NoResult]
  /\ CSC' = 1 /\ sp' = Slowest
  /\ pc' = "analyse"
  /\ UNCHANGED plan

(* One configuration: PMCResult keeps everything but the cost.             *)
Verify(ok) ==
  /\ pc = "analyse"
  /\ PMCResultsMap' = [PMCResultsMap EXCEPT ![Index(CSC, sp)] =
                         [csc |-> CSC, speed |-> sp, ok |-> ok]]
  /\ CASE sp < Fastest -> sp' = sp + 1 /\ UNCHANGED <<CSC, pc>>
       [] sp = Fastest /\ CSC < LastCSC ->
            sp' = Slowest /\ CSC' = CSC + 1 /\ UNCHANGED pc
       [] OTHER -> pc' = "plan" /\ UNCHANGED <<CSC, sp>>
  /\ UNCHANGED plan

(* All costs are 0, so the first result that meets the requirements, in    *)
(* the map's unspecified order, is never improved on.                      *)
Candidates == {i \in Indices : PMCResultsMap[i] # NoResult /\ PMCResultsMap[i].ok}
BestIndices == IF Candidates = {} THEN {-1} ELSE Candidates

Plan ==
  /\ pc = "plan"
  /\ \E bestIndex \in BestIndices :
       IF PMCResultsMap[bestIndex] = NoResult
         THEN pc' = "failed" /\ UNCHANGED plan      \* NullPointerException
         ELSE pc' = "idle" /\ plan' = PMCResultsMap[bestIndex]
  /\ UNCHANGED <<CSC, sp, PMCResultsMap>>

Next == StartAnalysis \/ (\E ok \in Verdicts : Verify(ok)) \/ Plan

Spec == Init /\ [][Next]_vars

------------------------------------------------------------------------------
(* Which configuration's result a finished analysis holds: a later sensor  *)
(* combination overwrites the fast end of the one before it, so all but    *)
(* the last combination keep only the first Stride speeds.  In the code:   *)
(* above 3.0 m/s only the combination with all sensors on is ever planned. *)
Kept(c, s) == \E i \in Indices : PMCResultsMap[i] # NoResult
                                 /\ PMCResultsMap[i].csc = c
                                 /\ PMCResultsMap[i].speed = s

FastConfigurationsLost ==
  pc = "plan" =>
    \A c \in CSCs, s \in Speeds : Kept(c, s) <=> (c = LastCSC \/ s < Slowest + Stride)

(* The planner never dies on a missing result: with nothing to choose from *)
(* the index -1 it starts with happens to be a configuration's.            *)
PlannerSurvives == pc # "failed"

(* A new plan meets the requirements whenever a kept result does; the only *)
(* plan that does not is combination 1 at the speed just below Base.       *)
PlanMeetsRequirements ==
  (pc = "idle" /\ plan # Unknown) =>
    \/ plan.ok /\ \E i \in Indices : PMCResultsMap[i] = plan
    \/ Candidates = {} /\ plan = PMCResultsMap[-1]
                       /\ plan.csc = 1 /\ plan.speed = Base - 1

(* What the comment above the analyser's loops says: every configuration   *)
(* is verified and its result is there for the planner.                    *)
EveryConfigurationKept ==
  pc = "plan" => \A c \in CSCs, s \in Speeds : Kept(c, s)
==============================================================================
