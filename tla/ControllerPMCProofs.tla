------------------------- MODULE ControllerPMCProofs -------------------------
(***************************************************************************)
(* The analyser and planner, and the controller assembled with them.       *)
(*                                                                         *)
(* The planner of the probabilistic controller always finds an entry,      *)
(* whatever PRISM answers and for every geometry of the loops: the index   *)
(* -1 that stands for "nothing found" belongs to combination 1 at the      *)
(* speed just below Base, which the loops reach because Slowest < Base.    *)
(* And what a finished analysis holds: two configurations share an index   *)
(* exactly when the later one is one combination up and Stride slower.     *)
(***************************************************************************)
EXTENDS ControllerPMC, TLAPS, SequenceTheorems

(* The loops have gone past combination 1 at the speed Base - 1.           *)
Passed == pc = "plan" \/ (pc = "analyse" /\ (CSC > 1 \/ sp >= Base))

(* The inductive invariant: once passed, that configuration's index holds  *)
(* a result, of some configuration, for good.                              *)
SentinelFilled == Passed => PMCResultsMap[-1] # NoResult

Inv == TypeOK /\ PlannerSurvives /\ SentinelFilled

(* The constants as the provers like them: integers with their order.      *)
LEMMA Geometry ==
  /\ LastCSC \in Int /\ LastCSC >= 1
  /\ Slowest \in Int /\ Fastest \in Int /\ Base \in Int /\ Stride \in Int
  /\ Slowest >= 0 /\ Slowest < Base /\ Base <= Fastest /\ Stride >= 1
BY PMCAssumption DEF Stride

(* -1 is an index of the map.                                              *)
LEMMA SentinelIsIndex == -1 \in Indices
<1>1. LastCSC * Stride \in Int /\ LastCSC * Stride >= -1
  BY Geometry, LastCSC \in Nat, Stride \in Nat, LastCSC * Stride \in Nat
<1> QED BY <1>1, Geometry DEF Indices

(* A result is not the absence of one.                                     *)
LEMMA ResultsDiffer == \A r \in Result : r # NoResult
BY Geometry DEF Result, NoResult, CSCs

(* The process starts in the invariant.                                    *)
LEMMA InitInv == Init => Inv
BY Geometry DEF Init, Inv, TypeOK, PlannerSurvives, SentinelFilled, Passed, CSCs, Speeds,
   Result, NoResult, Unknown

(* Each of the three steps preserves the invariant.                        *)
LEMMA StepInv == Inv /\ [Next]_vars => Inv'
<1> SUFFICES ASSUME Inv, [Next]_vars PROVE Inv'
  OBVIOUS
<1> USE Geometry, SentinelIsIndex
<1>1. CASE StartAnalysis
  BY <1>1 DEF StartAnalysis, Inv, TypeOK, PlannerSurvives, SentinelFilled, Passed, CSCs,
     Speeds
<1>2. ASSUME NEW ok \in Verdicts, Verify(ok) PROVE Inv'
  <2> DEFINE new == [csc |-> CSC, speed |-> sp, ok |-> ok]
             at == Index(CSC, sp)
  <2>1. new \in Result /\ new # NoResult
    BY <1>2, PMCAssumption, ResultsDiffer DEF Inv, TypeOK, Result
  <2>2. PMCResultsMap' = [PMCResultsMap EXCEPT ![at] = new]
    BY <1>2 DEF Verify
  <2> HIDE DEF new, at
  <2>3. PMCResultsMap' \in [Indices -> Result \cup {NoResult}]
    BY <2>1, <2>2 DEF Inv, TypeOK
  <2>4. CSC' \in CSCs /\ sp' \in Speeds /\ pc' \in {"analyse", "plan"} /\ plan' = plan
    BY <1>2 DEF Verify, Inv, TypeOK, CSCs, Speeds
  <2>5. PMCResultsMap'[-1] = IF at = -1 THEN new ELSE PMCResultsMap[-1]
    BY <2>2 DEF Inv, TypeOK
  <2>6. SentinelFilled'
    <3> SUFFICES ASSUME Passed' PROVE PMCResultsMap'[-1] # NoResult
      BY DEF SentinelFilled
    <3>1. CASE Passed
      BY <3>1, <2>5, <2>1 DEF Inv, SentinelFilled
    <3>2. CASE ~Passed
      <4>1. pc = "analyse" /\ CSC = 1 /\ sp < Base
        BY <3>2, <1>2 DEF Verify, Passed, Inv, TypeOK, CSCs, Speeds
      <4>2. sp = Base - 1
        BY <4>1, <1>2 DEF Verify, Passed, Inv, TypeOK, CSCs, Speeds
      <4>3. at = -1
        BY <4>1, <4>2 DEF at, Index
      <4> QED BY <4>3, <2>5, <2>1
    <3> QED BY <3>1, <3>2
  <2> QED BY <2>3, <2>4, <2>6 DEF Inv, TypeOK, PlannerSurvives
<1>3. CASE Plan
  <2>1. PICK bestIndex \in BestIndices :
          IF PMCResultsMap[bestIndex] = NoResult
            THEN pc' = "failed" /\ UNCHANGED plan
            ELSE pc' = "idle" /\ plan' = PMCResultsMap[bestIndex]
    BY <1>3 DEF Plan
  <2>2. pc = "plan" /\ UNCHANGED <<CSC, sp, PMCResultsMap>>
    BY <1>3 DEF Plan
  <2>3. bestIndex \in Indices /\ PMCResultsMap[bestIndex] # NoResult
    BY <2>2 DEF BestIndices, Candidates, Inv, SentinelFilled, Passed
  <2>4. PMCResultsMap[bestIndex] \in Result
    BY <2>3 DEF Inv, TypeOK
  <2> QED BY <2>1, <2>2, <2>3, <2>4 DEF Inv, TypeOK, PlannerSurvives, SentinelFilled, Passed
<1>4. CASE UNCHANGED vars
  BY <1>4 DEF vars, Inv, TypeOK, PlannerSurvives, SentinelFilled, Passed
<1> QED BY <1>1, <1>2, <1>3, <1>4 DEF Next

(* For every number of sensor combinations and every speed range that      *)
(* starts below Base, no answer of PRISM makes PlannerPMC.run fail on a    *)
(* missing result.                                                         *)
THEOREM PlannerNeverFails == Spec => []PlannerSurvives
<1>1. Inv => PlannerSurvives
  BY DEF Inv
<1> QED BY InitInv, StepInv, <1>1, PTL DEF Spec

------------------------------------------------------------------------------
(* Every configuration has a place in the map.                             *)
LEMMA IndexInMap ==
  ASSUME NEW c \in CSCs, NEW s \in Speeds
  PROVE  Index(c, s) \in Indices
<1> USE Geometry
<1>1. c \in Int /\ 1 <= c /\ c <= LastCSC /\ s \in Int /\ Slowest <= s /\ s <= Fastest
  BY DEF CSCs, Speeds
<1>2. c - 1 \in Nat /\ LastCSC - c \in Nat /\ Stride \in Nat
  BY <1>1
<1>3. (c - 1) * Stride \in Nat /\ (LastCSC - c) * Stride \in Nat
  BY <1>2
<1>4. LastCSC * Stride = (c - 1) * Stride + Stride + (LastCSC - c) * Stride
  BY <1>1
<1>5. s - Base <= Stride - 1 /\ s - Base >= -Base
  BY <1>1, PMCAssumption DEF Stride
<1> QED BY <1>1, <1>3, <1>4, <1>5 DEF Index, Indices

(* Two configurations at one place: one combination up, Stride slower.     *)
LEMMA Collision ==
  ASSUME NEW c \in CSCs, NEW d \in CSCs, c < d, NEW s \in Speeds, NEW t \in Speeds,
         Index(c, s) = Index(d, t)
  PROVE  d = c + 1 /\ t = s - Stride
<1> USE Geometry
<1>1. c \in Int /\ d \in Int /\ s \in Int /\ t \in Int /\ s <= Fastest /\ t >= Slowest
  BY DEF CSCs, Speeds
<1>2. s - t < 2 * Stride
  BY <1>1, PMCAssumption DEF Stride
<1>3. CASE d = c + 1
  <2>1. (d - 1) * Stride = (c - 1) * Stride + Stride BY <1>1, <1>3
  <2>2. (c - 1) * Stride \in Int BY <1>1
  <2> QED BY <1>1, <1>3, <2>1, <2>2 DEF Index
<1>4. CASE d >= c + 2
  <2>1. d - c - 2 \in Nat /\ Stride \in Nat BY <1>1, <1>4
  <2>2. (d - c - 2) * Stride \in Nat BY <2>1
  <2>3. (d - 1) * Stride = (c - 1) * Stride + 2 * Stride + (d - c - 2) * Stride
    BY <1>1
  <2>4. (c - 1) * Stride \in Int BY <1>1
  <2> QED BY <1>1, <1>2, <2>2, <2>3, <2>4 DEF Index
<1> QED BY <1>1, <1>3, <1>4

(* The loops have verified this configuration.                             *)
Visited(c, s) ==
  pc = "plan" \/ (pc = "analyse" /\ (c < CSC \/ (c = CSC /\ s < sp)))

Filed(c, s) == PMCResultsMap[Index(c, s)].csc = c /\ PMCResultsMap[Index(c, s)].speed = s

Overwritten(c, s) == c < LastCSC /\ s - Stride >= Slowest /\ Visited(c + 1, s - Stride)

(* Every result lies under its own index, and a configuration that was     *)
(* verified is there until the one it shares its index with is.            *)
OwnIndex ==
  \A i \in Indices : PMCResultsMap[i] # NoResult =>
                       Index(PMCResultsMap[i].csc, PMCResultsMap[i].speed) = i

Account ==
  \A c \in CSCs, s \in Speeds : Visited(c, s) => (Filed(c, s) <=> ~Overwritten(c, s))

KeptInv == Inv /\ OwnIndex /\ Account

(* Nothing is verified at the start.                                       *)
LEMMA KeptInit == Init => KeptInv
BY InitInv DEF Init, KeptInv, OwnIndex, Account, Visited

(* A verification accounts for its configuration and the overwritten one.  *)
LEMMA KeptStep == KeptInv /\ [Next]_vars => KeptInv'
<1> SUFFICES ASSUME KeptInv, [Next]_vars PROVE OwnIndex' /\ Account'
  BY StepInv DEF KeptInv
<1> USE Geometry
<1>1. CASE StartAnalysis
  <2>1. OwnIndex' BY <1>1 DEF StartAnalysis, OwnIndex
  <2>2. \A c \in CSCs, s \in Speeds : ~Visited(c, s)'
    BY <1>1 DEF StartAnalysis, Visited, CSCs, Speeds
  <2> QED BY <2>1, <2>2 DEF Account
<1>2. ASSUME NEW ok \in Verdicts, Verify(ok) PROVE OwnIndex' /\ Account'
  <2> DEFINE new == [csc |-> CSC, speed |-> sp, ok |-> ok]
             at == Index(CSC, sp)
  <2>1. PMCResultsMap' = [PMCResultsMap EXCEPT ![at] = new]
    BY <1>2 DEF Verify
  <2>2. new.csc = CSC /\ new.speed = sp
    OBVIOUS
  <2>3. CSC \in CSCs /\ sp \in Speeds /\ pc = "analyse" /\ DOMAIN PMCResultsMap = Indices
    BY <1>2 DEF KeptInv, Inv, TypeOK, Verify
  <2>4. at \in Indices /\ at = Index(CSC, sp)
    BY <2>3, IndexInMap
  <2> HIDE DEF new, at
  <2>5. \A i \in Indices : PMCResultsMap'[i] = IF i = at THEN new ELSE PMCResultsMap[i]
    BY <2>1, <2>3
  <2>6. OwnIndex'
    BY <2>2, <2>4, <2>5 DEF OwnIndex, KeptInv, Index
  <2>7. ASSUME NEW c \in CSCs, NEW s \in Speeds
        PROVE  Visited(c, s)' <=> Visited(c, s) \/ (c = CSC /\ s = sp)
    <3>1. CASE sp < Fastest
      BY <3>1, <1>2, <2>3 DEF Verify, Visited, CSCs, Speeds
    <3>2. CASE sp = Fastest /\ CSC < LastCSC
      BY <3>2, <1>2, <2>3 DEF Verify, Visited, CSCs, Speeds
    <3>3. CASE sp = Fastest /\ CSC = LastCSC
      BY <3>3, <1>2, <2>3 DEF Verify, Visited, CSCs, Speeds
    <3> QED BY <3>1, <3>2, <3>3, <2>3 DEF CSCs, Speeds
  <2>8. ASSUME NEW c \in CSCs, NEW s \in Speeds, Visited(c, s)'
        PROVE  (Filed(c, s) <=> ~Overwritten(c, s))'
    <3>1. Index(c, s)' = Index(c, s) /\ Index(c, s) \in Indices
      BY IndexInMap DEF Index
    <3>2. CASE c = CSC /\ s = sp
      <4>1. Filed(c, s)'
        BY <3>1, <3>2, <2>2, <2>4, <2>5 DEF Filed
      <4>2. ~Overwritten(c, s)'
        <5> SUFFICES ASSUME c < LastCSC, s - Stride >= Slowest, Visited(c + 1, s - Stride)'
                     PROVE  FALSE
          BY DEF Overwritten
        <5>1. c + 1 \in CSCs /\ s - Stride \in Speeds
          BY DEF CSCs, Speeds
        <5> QED BY <5>1, <2>7, <3>2, <2>3 DEF Visited, CSCs, Speeds
      <4> QED BY <4>1, <4>2
    <3>3. CASE ~(c = CSC /\ s = sp)
      <4>1. Visited(c, s) /\ (c < CSC \/ (c = CSC /\ s < sp))
        <5>1. Visited(c, s) BY <2>8, <3>3, <2>7
        <5> QED BY <5>1, <2>3 DEF Visited
      <4>2. CASE Index(c, s) = at
        <5>1. c < CSC
          BY <4>1, <4>2, <2>4, <2>3 DEF Index, CSCs, Speeds
        <5>2. CSC = c + 1 /\ sp = s - Stride
          BY <5>1, <4>2, <2>3, <2>4, Collision
        <5>3. ~Filed(c, s)'
          BY <5>1, <4>2, <3>1, <2>2, <2>5, <2>3 DEF Filed, CSCs
        <5>4. Overwritten(c, s)'
          <6>1. c + 1 \in CSCs /\ s - Stride \in Speeds
            BY <5>2, <2>3
          <6>2. Visited(c + 1, s - Stride)'
            BY <6>1, <5>2, <2>7
          <6> QED BY <6>1, <6>2 DEF Overwritten, CSCs, Speeds
        <5> QED BY <5>3, <5>4
      <4>3. CASE Index(c, s) # at
        <5>1. Filed(c, s)' <=> Filed(c, s)
          BY <4>3, <3>1, <2>5 DEF Filed
        <5>2. Overwritten(c, s)' <=> Overwritten(c, s)
          <6>1. CASE c < LastCSC /\ s - Stride >= Slowest
            <7>1. c + 1 \in CSCs /\ s - Stride \in Speeds
              BY <6>1 DEF CSCs, Speeds
            <7>2. Index(c + 1, s - Stride) = Index(c, s)
              <8>1. c \in Int /\ s \in Int BY DEF CSCs, Speeds
              <8> QED BY <8>1 DEF Index
            <7>3. ~(c + 1 = CSC /\ s - Stride = sp)
              BY <7>2, <4>3, <2>4
            <7> QED BY <7>1, <7>3, <2>7 DEF Overwritten
          <6>2. CASE ~(c < LastCSC /\ s - Stride >= Slowest)
            BY <6>2 DEF Overwritten
          <6> QED BY <6>1, <6>2
        <5> QED BY <5>1, <5>2, <4>1 DEF KeptInv, Account
      <4> QED BY <4>2, <4>3
    <3> QED BY <3>2, <3>3
  <2> QED BY <2>6, <2>8 DEF Account
<1>3. CASE Plan
  <2>1. UNCHANGED PMCResultsMap /\ pc' \in {"idle", "failed"}
    BY <1>3 DEF Plan
  <2> QED BY <2>1 DEF KeptInv, OwnIndex, Account, Visited, Index
<1>4. CASE UNCHANGED vars
  <2>1. UNCHANGED <<pc, CSC, sp, PMCResultsMap>> BY <1>4 DEF vars
  <2> QED BY <2>1 DEF KeptInv, OwnIndex, Account, Visited, Filed, Overwritten, Index
<1> QED BY <1>1, <1>2, <1>3, <1>4 DEF Next

(* At the end of an analysis, all are verified.                            *)
LEMMA KeptIsFiled ==
  ASSUME KeptInv, pc = "plan"
  PROVE  FastConfigurationsLost
<1> SUFFICES ASSUME NEW c \in CSCs, NEW s \in Speeds
             PROVE  Kept(c, s) <=> (c = LastCSC \/ s < Slowest + Stride)
  BY DEF FastConfigurationsLost
<1> USE Geometry
<1>1. Filed(c, s) <=> ~(c < LastCSC /\ s - Stride >= Slowest)
  BY DEF KeptInv, Account, Visited, Overwritten
<1>2. Index(c, s) \in Indices
  BY IndexInMap
<1>3. Kept(c, s) => Filed(c, s)
  BY DEF Kept, KeptInv, OwnIndex, Filed
<1>4. Filed(c, s) => Kept(c, s)
  <2> SUFFICES ASSUME Filed(c, s) PROVE Kept(c, s)
    OBVIOUS
  <2>1. c # 0 BY DEF CSCs
  <2>2. PMCResultsMap[Index(c, s)] # NoResult BY <2>1 DEF Filed, NoResult
  <2> QED BY <2>2, <1>2 DEF Filed, Kept
<1> QED BY <1>1, <1>3, <1>4 DEF CSCs, Speeds

(* For every geometry of the loops, a finished analysis has kept exactly   *)
(* the last combination and the slowest Stride speeds of the others.       *)
THEOREM WhatIsKept == Spec => []FastConfigurationsLost
<1>1. KeptInv => FastConfigurationsLost
  BY KeptIsFiled DEF FastConfigurationsLost
<1> QED BY KeptInit, KeptStep, <1>1, PTL DEF Spec
------------------------------------------------------------------------------
(***************************************************************************)
(* What holds of the assembled controller for any number of cycles, every  *)
(* geometry of the analyser's loops and every answer of PRISM.             *)
(*                                                                         *)
(* The inductive invariant has four parts: Planned, which is Inv of        *)
(* the planner sharpened by what the index -1 holds; Counted, which relates *)
(* the lengths of Knowledge's lists to the place the timer thread has      *)
(* reached; Logged, that a log is exported at the end only; and Served,    *)
(* which relates the two streams and what sUUV has in force to the timer's *)
(* place as long as nothing but the timer has written.                     *)
(***************************************************************************)

LoopSpec == LoopInit /\ [][LoopNext]_allVars

(* Once passed, the index -1 belongs to combination 1 just below Base.     *)
Sentinel ==
  Passed => PMCResultsMap[-1].csc = 1 /\ PMCResultsMap[-1].speed = Base - 1

Planned == Inv /\ Sentinel /\ PlanMeetsRequirements

Timers == {"waiting", "fired", "sensor", "plan", "effector", "dead"}

Counted ==
  /\ timer \in Timers
  /\ inits \in Nat /\ rates \in Nat /\ speeds \in Nat /\ states \in Nat /\ ends \in Nat
  /\ rates <= inits /\ states <= speeds
  /\ timer \in {"waiting", "fired"} => inits = ends /\ speeds = ends
  /\ timer = "sensor" => inits = ends + 1 /\ speeds = ends /\ rates <= ends
  /\ timer = "plan" => inits = ends + 1 /\ speeds = ends
  /\ timer = "effector" => inits = ends + 1 /\ speeds = ends + 1
  /\ timer = "dead" => inits = ends + 1 /\ speeds \in {ends, ends + 1}

Logged == (Running => logged = -1) /\ C!LogComplete

(* Only the timer has written to the socket, and sUUV is there to answer.  *)
Undisturbed == main \in {"sleeping", "cancelled"} /\ server = "up"

InForce == speedInForce = speeds /\ statesInForce = speeds

Served ==
  Undisturbed =>
    /\ timer = "sensor" => C!OneOutstanding(C!Sensors, "report")
    /\ timer = "effector" =>
         \/ toServer = <<C!Command(speeds)>> /\ toClient = <<>>
         \/ toServer = <<>> /\ toClient = <<"OK">> /\ InForce
    /\ timer \notin {"sensor", "effector"} => toServer = <<>> /\ toClient = <<>>
    /\ timer = "waiting" => InForce

LoopInv == Planned /\ Counted /\ Logged /\ Served

------------------------------------------------------------------------------
(* The index -1 is filled by one configuration only.                       *)
LEMMA OneSentinel ==
  ASSUME NEW c \in CSCs, NEW s \in Speeds, Index(c, s) = -1
  PROVE  c = 1 /\ s = Base - 1
<1> USE Geometry
<1>1. c \in Int /\ c >= 1 /\ s \in Int /\ s >= Slowest BY DEF CSCs, Speeds
<1>2. Base - Slowest <= Stride BY PMCAssumption
<1>3. CASE c = 1
  BY <1>1, <1>3 DEF Index
<1>4. CASE c # 1
  <2>1. c - 2 \in Nat /\ Stride \in Nat BY <1>1, <1>4
  <2>2. (c - 2) * Stride \in Nat BY <2>1
  <2>3. (c - 1) * Stride = (c - 2) * Stride + Stride BY <1>1, <2>1
  <2>4. Index(c, s) >= 0 BY <1>1, <1>2, <2>2, <2>3 DEF Index
  <2> QED BY <2>4
<1> QED BY <1>3, <1>4

(* No plan, and no index passed, at the start.                             *)
LEMMA PlannedInit == Init => Planned
BY InitInv DEF Init, Planned, Sentinel, Passed, PlanMeetsRequirements

(* What a plan is, and what the index -1 holds, step by step.              *)
LEMMA PlannedStep == Planned /\ [Next]_vars => Planned'
<1> SUFFICES ASSUME Planned, [Next]_vars PROVE Planned'
  OBVIOUS
<1> USE Geometry, SentinelIsIndex
<1>1. Inv /\ Inv' BY StepInv DEF Planned
<1>2. CASE StartAnalysis
  BY <1>1, <1>2 DEF StartAnalysis, Planned, Sentinel, Passed, PlanMeetsRequirements, Inv,
     TypeOK, CSCs, Speeds
<1>3. ASSUME NEW ok \in Verdicts, Verify(ok) PROVE Planned'
  <2> DEFINE new == [csc |-> CSC, speed |-> sp, ok |-> ok]
             at == Index(CSC, sp)
  <2>1. PMCResultsMap' = [PMCResultsMap EXCEPT ![at] = new]
    BY <1>3 DEF Verify
  <2>2. new.csc = CSC /\ new.speed = sp
    OBVIOUS
  <2> HIDE DEF new, at
  <2>3. CSC \in CSCs /\ sp \in Speeds /\ pc = "analyse"
    BY <1>1, <1>3 DEF Inv, TypeOK, Verify
  <2>4. PMCResultsMap'[-1] = IF at = -1 THEN new ELSE PMCResultsMap[-1]
    BY <2>1, <1>1 DEF Inv, TypeOK
  <2>5. at = -1 => CSC = 1 /\ sp = Base - 1
    BY <2>3, OneSentinel DEF at
  <2>6. Passed' /\ ~Passed => at = -1
    <3> SUFFICES ASSUME Passed', ~Passed PROVE at = -1
      OBVIOUS
    <3>1. CSC = 1 /\ sp < Base
      BY <2>3 DEF Passed, CSCs, Speeds
    <3>2. sp = Base - 1
      BY <3>1, <2>3, <1>3 DEF Verify, Passed, CSCs, Speeds
    <3> QED BY <3>1, <3>2 DEF at, Index
  <2>7. Sentinel'
    BY <2>2, <2>4, <2>5, <2>6 DEF Planned, Sentinel
  <2>8. PlanMeetsRequirements'
    <3>1. pc' # "idle" BY <2>3, <1>3 DEF Verify
    <3> QED BY <3>1 DEF PlanMeetsRequirements
  <2> QED BY <1>1, <2>7, <2>8 DEF Planned
<1>4. CASE Plan
  <2>1. PICK bestIndex \in BestIndices :
          IF PMCResultsMap[bestIndex] = NoResult
            THEN pc' = "failed" /\ UNCHANGED plan
            ELSE pc' = "idle" /\ plan' = PMCResultsMap[bestIndex]
    BY <1>4 DEF Plan
  <2>2. pc = "plan" /\ UNCHANGED <<CSC, sp, PMCResultsMap>>
    BY <1>4 DEF Plan
  <2>3. Sentinel'
    BY <2>1, <2>2 DEF Planned, Sentinel, Passed
  <2>4. pc' # "failed"
    BY <1>1 DEF Inv, PlannerSurvives
  <2>5. plan' = PMCResultsMap[bestIndex] /\ Candidates' = Candidates
    BY <2>1, <2>2, <2>4 DEF Candidates
  <2>6. PlanMeetsRequirements'
    <3>1. CASE Candidates = {}
      <4>1. plan' = PMCResultsMap[-1]
        BY <3>1, <2>5, <2>1 DEF BestIndices
      <4>2. plan'.csc = 1 /\ plan'.speed = Base - 1
        BY <4>1, <2>2 DEF Planned, Sentinel, Passed
      <4> QED BY <3>1, <4>1, <4>2, <2>2, <2>5 DEF PlanMeetsRequirements
    <3>2. CASE Candidates # {}
      <4>1. bestIndex \in Indices /\ PMCResultsMap[bestIndex].ok
        BY <3>2, <2>1 DEF BestIndices, Candidates
      <4> QED BY <4>1, <2>2, <2>5 DEF PlanMeetsRequirements
    <3> QED BY <3>1, <3>2
  <2> QED BY <1>1, <2>3, <2>6 DEF Planned
<1>5. CASE UNCHANGED vars
  <2>1. UNCHANGED <<pc, CSC, sp, PMCResultsMap, plan>> BY <1>5 DEF vars
  <2> QED
    BY <2>1, <1>1 DEF Planned, Sentinel, Passed, PlanMeetsRequirements, Candidates
<1> QED BY <1>2, <1>3, <1>4, <1>5 DEF Next

------------------------------------------------------------------------------
(* The timer thread's steps keep the lists in step with its place; those   *)
(* of the other processes do not touch them.                               *)
LEMMA CountedStep == Counted /\ [LoopNext]_allVars => Counted'
<1> SUFFICES ASSUME Counted, [LoopNext]_allVars PROVE Counted'
  OBVIOUS
<1> USE DEF Counted, Timers
<1>1. CASE Analysis
  BY <1>1 DEF Analysis, allButTimer
<1>2. CASE PlanAndSend
  <2>1. CASE C!Plan
    BY <2>1 DEF C!Plan
  <2>2. CASE timer' = "dead" /\ UNCHANGED allButTimer /\ timer = "plan"
    BY <2>2 DEF allButTimer
  <2> QED BY <1>2, <2>1, <2>2 DEF PlanAndSend
<1>3. CASE C!Exchange
  <2>1. CASE C!Fire BY <2>1 DEF C!Fire, C!knowledge
  <2>2. CASE C!StartCycle BY <2>2 DEF C!StartCycle
  <2>3. CASE C!Lock("timer") BY <2>3 DEF C!Lock, C!knowledge
  <2>4. ASSUME NEW reply, C!SensorReply(reply) PROVE Counted'
    BY <2>4 DEF C!SensorReply
  <2>5. ASSUME NEW reply, C!EffectorReply(reply) PROVE Counted'
    BY <2>5 DEF C!EffectorReply
  <2> QED BY <1>3, <2>1, <2>2, <2>3, <2>4, <2>5 DEF C!Exchange
<1>4. CASE C!MainThread
  BY <1>4 DEF C!MainThread, C!Cancel, C!ShutDown, C!LogData, C!Lock, C!ShutDownReply,
     C!knowledge
<1>5. CASE C!Server \/ C!ServerDies
  BY <1>5 DEF C!Server, C!Serve, C!ServerDies, C!knowledge
<1>6. CASE UNCHANGED allVars
  BY <1>6 DEF allVars, allButTimer
<1> QED
  BY <1>1, <1>2, <1>3, <1>4, <1>5, <1>6 DEF LoopNext, TimerThread, MainThread, Server

(* A log is exported at the end only, when the lists are in step.          *)
LEMMA LoggedStep == Counted /\ Logged /\ [LoopNext]_allVars => Logged'
<1> SUFFICES ASSUME Counted, Logged, [LoopNext]_allVars PROVE Logged'
  OBVIOUS
<1>1. CASE UNCHANGED allVars
  BY <1>1 DEF allVars, allButTimer, Logged, Running, C!LogComplete
<1>2. CASE LoopNext
  <2>1. logged = -1 BY <1>2 DEF LoopNext, Logged
  <2>2. CASE UNCHANGED logged
    BY <2>1, <2>2 DEF Logged, C!LogComplete
  <2>3. CASE C!LogData
    <3>1. UNCHANGED <<inits, rates, speeds, states, ends>>
      BY <2>3 DEF C!LogData, C!knowledge
    <3>2. CASE C!Zips
      <4>1. logged' = speeds /\ exitCode' = "1"
        BY <2>3, <3>2 DEF C!LogData, C!Exit
      <4>2. ends = speeds /\ inits - 1 <= speeds /\ rates - 1 <= speeds
            /\ (rates > 0 => states = speeds)
        BY <3>2 DEF C!Zips, Counted, Timers
      <4> QED BY <3>1, <4>1, <4>2 DEF Logged, Running, C!LogComplete
    <3>3. CASE ~C!Zips
      BY <2>1, <2>3, <3>3 DEF C!LogData, Logged, C!LogComplete
    <3> QED BY <3>2, <3>3
  <2>4. CASE TimerThread
    BY <2>2, <2>4 DEF TimerThread, Analysis, PlanAndSend, allButTimer, C!Plan, C!Exchange,
       C!Fire, C!StartCycle, C!Lock, C!SensorReply, C!EffectorReply
  <2>5. CASE C!MainThread
    BY <2>2, <2>3, <2>5 DEF C!MainThread, C!Cancel, C!ShutDown, C!Lock, C!ShutDownReply
  <2>6. CASE C!Server \/ C!ServerDies
    BY <2>2, <2>6 DEF C!Server, C!Serve, C!ServerDies
  <2> QED BY <1>2, <2>4, <2>5, <2>6 DEF LoopNext, MainThread, Server
<1> QED BY <1>1, <1>2

------------------------------------------------------------------------------
(* A queue of one element, taken as a whole and added to.                  *)
LEMMA TakeOne ==
  ASSUME NEW x, NEW n \in 1 .. Len(<<x>>)
  PROVE  n = 1 /\ SubSeq(<<x>>, 1, n) = <<x>> /\ SubSeq(<<x>>, n + 1, Len(<<x>>)) = <<>>
<1>1. Len(<<x>>) = 1 /\ n = 1 OBVIOUS
<1>2. SubSeq(<<x>>, 1, 1) = <<x>>
  <2>1. <<x>> \in Seq({x}) OBVIOUS
  <2> QED BY <2>1, <1>1, SubSeqFull
<1>3. SubSeq(<<x>>, 2, 1) = <<>> OBVIOUS
<1> QED BY <1>1, <1>2, <1>3

(* A queue that was empty, added to.                                       *)
LEMMA AddOne == ASSUME NEW x PROVE Append(<<>>, x) = <<x>>
OBVIOUS

(* What the server makes of a read() that returned one line.               *)
LEMMA ServeOne ==
  ASSUME NEW line, NEW n \in 1 .. Len(toServer), toServer = <<line>>, toClient = <<>>,
         C!Serve(n)
  PROVE  /\ toServer' = <<>> /\ toClient' = <<C!ReplyTo(<<line>>)>>
         /\ C!Apply(<<line>>) /\ UNCHANGED <<timer, main, server, speeds>>
<1>1. n = 1 /\ SubSeq(toServer, 1, n) = <<line>> /\ SubSeq(toServer, n + 1, Len(toServer)) = <<>>
  BY TakeOne
<1>2. Append(toClient, C!ReplyTo(<<line>>)) = <<C!ReplyTo(<<line>>)>>
  BY AddOne
<1> QED BY <1>1, <1>2 DEF C!Serve, C!knowledge

(* A line that asks for the sensors, read alone, is answered by a report.  *)
LEMMA ReportReply == C!ReplyTo(<<C!Sensors>>) = "report"
<1> DEFINE lines == <<C!Sensors>>
<1>1. DOMAIN lines = {1} /\ lines[1].cmd = "SENSORS" /\ Head(lines) = C!Sensors /\ Len(lines) = 1
  BY DEF C!Sensors
<1> HIDE DEF lines
<1>2. C!ReplyTo(lines) = "report"
  BY <1>1 DEF C!ReplyTo
<1> QED BY <1>2 DEF lines

(* A command read alone is acknowledged and puts its cycle in force.       *)
LEMMA CommandReply ==
  ASSUME NEW k \in Nat
  PROVE  /\ C!ReplyTo(<<C!Command(k)>>) = "OK"
         /\ C!Apply(<<C!Command(k)>>) => speedInForce' = k /\ statesInForce' = k
<1> DEFINE lines == <<C!Command(k)>>
<1>1. lines[1].cmd = "SPEED" /\ lines[1].cycle = k /\ Head(lines) = lines[1]
      /\ DOMAIN lines = {1}
  BY DEF C!Command
<1> HIDE DEF lines
<1>2. \E i \in DOMAIN lines : lines[i].cmd = "SPEED"
  BY <1>1
<1>3. C!ReplyTo(lines) = "OK"
  BY <1>2 DEF C!ReplyTo
<1>4. (CHOOSE l \in {lines[i] : i \in DOMAIN lines} : l.cmd = "SPEED") = lines[1]
  <2>1. {lines[i] : i \in DOMAIN lines} = {lines[1]} BY <1>1
  <2> QED BY <2>1, <1>1
<1>5. C!Apply(lines) => speedInForce' = k /\ statesInForce' = k
  BY <1>1, <1>2, <1>4 DEF C!Apply
<1> QED BY <1>3, <1>5 DEF lines

(* While only the timer writes, each step answers its own request.         *)
LEMMA ServedStep == Counted /\ Served /\ [LoopNext]_allVars => Served'
<1> SUFFICES ASSUME Counted, Served, [LoopNext]_allVars, Undisturbed' PROVE Served'
  BY DEF Served
<1> USE DEF Served, Undisturbed, InForce
<1>1. CASE UNCHANGED allVars
  BY <1>1 DEF allVars, allButTimer, C!OneOutstanding
<1>2. CASE Analysis
  BY <1>2 DEF Analysis, allButTimer, C!OneOutstanding
<1>3. CASE PlanAndSend
  <2>1. timer = "plan" BY <1>3 DEF PlanAndSend
  <2>2. CASE timer' = "dead" /\ UNCHANGED allButTimer
    BY <2>1, <2>2 DEF allButTimer
  <2>3. CASE C!Plan
    <3>1. Undisturbed /\ toServer = <<>> /\ toClient = <<>> /\ toClient' = <<>>
      BY <2>1, <2>3 DEF C!Plan
    <3>2. CASE rates = 0
      BY <2>3, <3>1, <3>2 DEF C!Plan
    <3>3. CASE rates # 0
      <4>1. timer' = "effector" /\ toServer' = Append(toServer, C!Command(speeds + 1))
            /\ speeds' = speeds + 1
        BY <2>3, <3>3 DEF C!Plan, C!Println
      <4>2. toServer' = <<C!Command(speeds')>>
        BY <3>1, <4>1, AddOne
      <4> QED BY <3>1, <4>1, <4>2
    <3> QED BY <3>2, <3>3
  <2> QED BY <1>3, <2>2, <2>3 DEF PlanAndSend
<1>4. CASE C!Exchange
  <2>1. CASE C!Fire
    BY <2>1 DEF C!Fire, C!knowledge, C!vehicle
  <2>2. CASE C!StartCycle
    <3>1. Undisturbed /\ toServer = <<>> /\ toClient' = <<>> /\ timer' = "sensor"
      BY <2>2 DEF C!StartCycle
    <3>2. toServer' = <<C!Sensors>>
      BY <2>2, <3>1, AddOne DEF C!StartCycle, C!Println
    <3> QED BY <3>1, <3>2 DEF C!OneOutstanding
  <2>3. CASE C!Lock("timer")
    BY <2>3 DEF C!Lock, C!knowledge, C!vehicle, C!OneOutstanding
  <2>4. ASSUME NEW reply, C!SensorReply(reply) PROVE Served'
    <3>1. Undisturbed /\ timer = "sensor" /\ server = "up" /\ UNCHANGED toServer
      BY <2>4 DEF C!SensorReply
    <3>2. toClient # <<>> /\ reply = Head(toClient) /\ toClient' = Tail(toClient)
      BY <2>4, <3>1 DEF C!SensorReply, C!ReadLine
    <3>3. toServer = <<>> /\ toClient = <<"report">>
      BY <3>1, <3>2 DEF C!OneOutstanding
    <3>4. reply = "report" /\ toClient' = <<>>
      BY <3>2, <3>3
    <3> QED BY <2>4, <3>1, <3>3, <3>4 DEF C!SensorReply
  <2>5. ASSUME NEW reply, C!EffectorReply(reply) PROVE Served'
    <3>1. Undisturbed /\ timer = "effector" /\ timer' = "waiting" /\ UNCHANGED toServer
      BY <2>5 DEF C!EffectorReply
    <3>2. toClient # <<>> /\ toClient' = Tail(toClient)
      BY <2>5, <3>1 DEF C!EffectorReply, C!ReadLine
    <3>3. toServer = <<>> /\ toClient = <<"OK">> /\ InForce
      BY <3>1, <3>2
    <3>4. toClient' = <<>>
      BY <3>2, <3>3
    <3> QED BY <2>5, <3>1, <3>3, <3>4 DEF C!EffectorReply, C!vehicle
  <2> QED BY <1>4, <2>1, <2>2, <2>3, <2>4, <2>5 DEF C!Exchange
<1>5. CASE C!MainThread
  <2>1. CASE C!Cancel
    BY <2>1 DEF C!Cancel, C!knowledge, C!vehicle, C!OneOutstanding
  <2>2. main' \in {"sleeping", "cancelled"} BY DEF Undisturbed
  <2>3. CASE C!Lock("main")
    BY <2>2, <2>3 DEF C!Lock, C!Reading
  <2>4. CASE C!ShutDown BY <2>2, <2>4 DEF C!ShutDown
  <2>5. CASE C!LogData BY <2>2, <2>5 DEF C!LogData, C!Exit
  <2>6. ASSUME NEW reply, C!ShutDownReply(reply) PROVE Served'
    BY <2>2, <2>6 DEF C!ShutDownReply, C!Exit
  <2> QED BY <1>5, <2>1, <2>3, <2>4, <2>5, <2>6 DEF C!MainThread
<1>6. CASE C!ServerDies
  BY <1>6 DEF C!ServerDies
<1>7. CASE C!Server
  <2>1. PICK n \in 1 .. Len(toServer) : C!Serve(n)
    BY <1>7 DEF C!Server
  <2>2. Undisturbed /\ toServer # <<>>
    BY <2>1 DEF C!Serve
  <2>3. CASE timer = "sensor"
    <3>1. toServer = <<C!Sensors>> /\ toClient = <<>>
      BY <2>2, <2>3 DEF C!OneOutstanding
    <3>2. toServer' = <<>> /\ toClient' = <<"report">> /\ timer' = "sensor"
      BY <2>1, <2>3, <3>1, ServeOne, ReportReply
    <3> QED BY <3>2 DEF C!OneOutstanding
  <2>4. CASE timer = "effector"
    <3>1. toServer = <<C!Command(speeds)>> /\ toClient = <<>> /\ speeds \in Nat
      BY <2>2, <2>4 DEF Counted
    <3>2. /\ toServer' = <<>> /\ toClient' = <<C!ReplyTo(<<C!Command(speeds)>>)>>
          /\ C!Apply(<<C!Command(speeds)>>) /\ timer' = timer /\ speeds' = speeds
      BY <2>1, <3>1, ServeOne
    <3>3. toClient' = <<"OK">> /\ InForce'
      BY <3>1, <3>2, CommandReply
    <3> QED BY <2>4, <3>2, <3>3
  <2> QED BY <2>2, <2>3, <2>4
<1> QED
  BY <1>1, <1>2, <1>3, <1>4, <1>5, <1>6, <1>7
  DEF LoopNext, TimerThread, MainThread, Server

------------------------------------------------------------------------------
(* The controller starts in the invariant.                                 *)
LEMMA LoopInitInv == LoopInit => LoopInv
<1> SUFFICES ASSUME Init, C!Init PROVE LoopInv
  BY DEF LoopInit
<1>1. Planned BY PlannedInit
<1>2. Counted BY DEF C!Init, Counted, Timers
<1>3. Logged BY DEF C!Init, Logged, Running, C!LogComplete
<1>4. Served BY DEF C!Init, Served, Undisturbed, InForce
<1> QED BY <1>1, <1>2, <1>3, <1>4 DEF LoopInv

(* Every step of every process preserves it.                               *)
LEMMA LoopStepInv == LoopInv /\ [LoopNext]_allVars => LoopInv'
<1> SUFFICES ASSUME LoopInv, [LoopNext]_allVars PROVE LoopInv'
  OBVIOUS
<1>1. [Next]_vars
  BY DEF LoopNext, TimerThread, Analysis, PlanAndSend, MainThread, Server, Next, allVars
<1>2. Planned' BY <1>1, PlannedStep DEF LoopInv
<1> QED BY <1>2, CountedStep, LoggedStep, ServedStep DEF LoopInv

(* So it holds throughout.                                                 *)
LEMMA LoopInvariant == FairLoopSpec => []LoopInv
<1>1. FairLoopSpec => LoopSpec
  BY PTL DEF FairLoopSpec, LoopSpec
<1>2. LoopSpec => []LoopInv
  BY LoopInitInv, LoopStepInv, PTL DEF LoopSpec
<1> QED BY <1>1, <1>2, PTL

(* Before the shutdown, Client.read never returns another request's reply, *)
(* however many cycles run and however slowly sUUV reads.                  *)
THEOREM OwnReplies == FairLoopSpec => []OwnReply
<1>1. LoopInv => OwnReply
  <2> SUFFICES ASSUME LoopInv, Undisturbed
               PROVE CASE timer = "sensor"   -> C!OneOutstanding(C!Sensors, "report")
                       [] timer = "effector" -> C!OneOutstanding(C!Command(speeds), "OK")
                       [] OTHER              -> toServer = <<>> /\ toClient = <<>>
    BY DEF OwnReply, C!OwnReply, Undisturbed
  <2>1. CASE timer = "sensor"
    BY <2>1 DEF LoopInv, Served
  <2>2. CASE timer = "effector"
    BY <2>2 DEF LoopInv, Served, C!OneOutstanding
  <2>3. CASE timer \notin {"sensor", "effector"}
    BY <2>3 DEF LoopInv, Served
  <2> QED BY <2>1, <2>2, <2>3
<1> QED BY LoopInvariant, <1>1, PTL

(* What Effector.run has sent at the end of a cycle is what sUUV runs      *)
(* with, and it is a plan that meets the requirements whenever the         *)
(* analysis kept one.                                                      *)
THEOREM PlansInForce == FairLoopSpec => []PlannedIsInForce
<1>1. LoopInv => PlannedIsInForce
  BY DEF LoopInv, Planned, Counted, Served, Undisturbed, InForce, PlannedIsInForce
<1> QED BY LoopInvariant, <1>1, PTL

(* A log that logData exports has a row for every cycle that ended, none   *)
(* of them mixed from two cycles.                                          *)
THEOREM LogsComplete == FairLoopSpec => []LogComplete
<1>1. LoopInv => LogComplete
  BY DEF LoopInv, Logged, LogComplete
<1> QED BY LoopInvariant, <1>1, PTL

(* The assembled controller implements the analyser and planner by         *)
(* themselves: nothing that the timer, the socket or the shutdown do       *)
(* between two verifications changes what an analysis computes.            *)
THEOREM LoopImplementsPMC == FairLoopSpec => Spec
<1>1. LoopInit => Init
  BY DEF LoopInit
<1>2. [LoopNext]_allVars => [Next]_vars
  BY DEF LoopNext, TimerThread, Analysis, PlanAndSend, MainThread, Server, Next, allVars
<1> QED BY <1>1, <1>2, PTL DEF FairLoopSpec, Spec

(* So in the controller too, PlannerPMC.run never fails on a missing       *)
(* result.                                                                 *)
THEOREM LoopNeverFails == FairLoopSpec => []PlannerSurvives
BY LoopImplementsPMC, PlannerNeverFails, PTL

(* And in the controller too, a finished analysis has kept the slowest     *)
(* Stride speeds of every combination but the last, and all of the last.   *)
THEOREM LoopKeeps == FairLoopSpec => []FastConfigurationsLost
BY LoopImplementsPMC, WhatIsKept, PTL
==============================================================================
