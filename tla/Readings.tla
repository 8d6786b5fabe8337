------------------------------ MODULE Readings ------------------------------
(***************************************************************************)
(* What the SENSORS service of sUUV promises the controller, as if         *)
(* getSummary and reset were one locked step per sensor: a report takes    *)
(* everything counted for a sensor since the last one, at one moment, and  *)
(* a reading is told once.  The promise for a sensor ends when it is       *)
(* spoiled.  UUVServer implements it, and spoils a sensor only when the    *)
(* two threads overlap on it.                                              *)
(***************************************************************************)
EXTENDS Integers

CONSTANTS
  Sensors,   \* the sensors of the vehicle
  Counts     \* the counters kept for each: readings, successful readings

VARIABLES
  pending,   \* counted and not yet taken into a report
  batch,     \* taken into the report under way
  told,      \* in the reports the client has received
  taken,     \* the sensors the report under way already covers
  spoiled    \* the sensors nothing is promised of any more

vars == <<pending, batch, told, taken, spoiled>>

Nothing == [f \in Counts |-> 0]
Plus(a, b) == [f \in Counts |-> a[f] + b[f]]

Init ==
  /\ pending = [s \in Sensors |-> Nothing]
  /\ batch = [s \in Sensors |-> Nothing]
  /\ told = [s \in Sensors |-> Nothing]
  /\ taken = {}
  /\ spoiled = {}

(* A reading of sensor s arrives; it may be a success.                     *)
Deliver(s, success) ==
  /\ s \notin spoiled
  /\ pending' = [pending EXCEPT ![s] =
                   Plus(@, [f \in Counts |-> IF f = "numOfReadings" THEN 1 ELSE success])]
  /\ UNCHANGED <<batch, told, taken, spoiled>>

(* The report under way takes all that is pending for s.                   *)
Take(s) ==
  /\ s \notin taken
  /\ taken' = taken \cup {s}
  /\ batch' = [batch EXCEPT ![s] = pending[s]]
  /\ pending' = [pending EXCEPT ![s] = Nothing]
  /\ UNCHANGED <<told, spoiled>>

(* The client receives the report, which covers every sensor.              *)
Report ==
  /\ taken = Sensors
  /\ told' = [s \in Sensors |-> Plus(told[s], batch[s])]
  /\ batch' = [s \in Sensors |-> Nothing]
  /\ taken' = {}
  /\ UNCHANGED <<pending, spoiled>>

(* What is counted for s is no longer reliable: it is forgotten here.      *)
Spoil(s) ==
  /\ spoiled' = spoiled \cup {s}
  /\ pending' = [pending EXCEPT ![s] = Nothing]
  /\ batch' = [batch EXCEPT ![s] = Nothing]
  /\ told' = [told EXCEPT ![s] = Nothing]
  /\ UNCHANGED taken

Next ==
  \/ \E s \in Sensors, success \in {0, 1} : Deliver(s, success)
  \/ \E s \in Sensors : Take(s) \/ Spoil(s)
  \/ Report

Spec == Init /\ [][Next]_vars

==============================================================================
