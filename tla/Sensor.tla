------------------------------- MODULE Sensor -------------------------------
(***************************************************************************)
(* sSensor: a sensor that publishes a reading at every Iterate and whose   *)
(* rate follows a schedule of changes read from the mission file.          *)
(*                                                                         *)
(* While the mission file is read, handleChange puts each CHANGE line into *)
(* m_changes.  Afterwards the main loop of MOOSAppLoop calls Iterate, which *)
(* looks at one change only, the one of event_index, and sets the rate of  *)
(* that same loop.                                                         *)
(***************************************************************************)
EXTENDS MOOSAppLoop, Sequences

CONSTANTS
  Lines,      \* the CHANGE lines a mission may hold: a start and a finish
              \* time and the period of the new rate, 0 for a rate of 0
  MaxLines,   \* bound: CHANGE lines in the mission file
  Nominal,    \* the period of AppTick
  Horizon     \* bound: time is not told apart after it

ASSUME SensorAssumption ==
  /\ Lines \subseteq [start : Nat, finish : Nat, rate : Nat]
  /\ MaxLines \in Nat /\ Horizon \in Nat
  /\ Nominal \in AppTicks

VARIABLES
  phase,        \* "config" while OnStartUp reads the mission file
  lines,        \* how many CHANGE lines it has read
  m_changes,    \* the schedule
  event_index,  \* Iterate's static counter, from 1 here
  now,          \* MOOSTime - GetAppStartTime, in ticks
  ranAt,        \* history: the time of the last Iterate, -1 before the first
  retired,      \* history: it retired a change
  applied       \* history: the changes whose rate was ever set

schedule == <<phase, lines, m_changes>>
sensorVars == <<loopVars, schedule, event_index, now, ranAt, retired, applied>>

SensorTypeOK ==
  /\ phase \in {"config", "running"} /\ lines \in 0 .. MaxLines
  /\ m_changes \in Seq([start : Nat, finish : Nat, rate : Nat])
  /\ event_index \in 1 .. Len(m_changes) + 1
  /\ now \in 0 .. Horizon /\ ranAt \in -1 .. Horizon
  /\ retired \in BOOLEAN /\ applied \subseteq DOMAIN m_changes

Init ==
  /\ LoopInit
  /\ phase = "config" /\ lines = 0 /\ m_changes = <<>>
  /\ event_index = 1 /\ now = 0
  /\ ranAt = -1 /\ retired = FALSE /\ applied = {}

------------------------------------------------------------------------------
(* Change's constructor: a rate of 0 becomes 1e-7 Hz, whose period fits no *)
(* int.                                                                    *)
Change(l) == [l EXCEPT !.rate = IF l.rate = 0 THEN Never ELSE l.rate]

(* Mutant: push_back, in the order of the lines.                           *)
Place_AtEnd(d) == Len(m_changes) + 1

(* The first change that starts after d has finished, or the end.          *)
Place(d) ==
  CHOOSE k \in 1 .. Len(m_changes) + 1 :
    /\ k <= Len(m_changes) => m_changes[k].start > d.finish
    /\ \A i \in 1 .. k - 1 : m_changes[i].start <= d.finish

Insert(d) ==
  [i \in 1 .. Len(m_changes) + 1 |->
     IF i < Place(d) THEN m_changes[i]
     ELSE IF i = Place(d) THEN d ELSE m_changes[i - 1]]

(* One CHANGE line; a line whose start is after its finish is ignored.     *)
handleChange(l) ==
  /\ phase = "config" /\ lines < MaxLines
  /\ lines' = lines + 1
  /\ m_changes' = IF l.start > l.finish THEN m_changes ELSE Insert(Change(l))
  /\ UNCHANGED <<loopVars, phase, event_index, now, ranAt, retired, applied>>

(* OnStartUp returns and the main loop begins.                             *)
StartUpDone ==
  /\ phase = "config"
  /\ phase' = "running"
  /\ UNCHANGED <<loopVars, lines, m_changes, event_index, now, ranAt, retired, applied>>

------------------------------------------------------------------------------
(* The three branches of Iterate.  Each also publishes a reading.          *)
Current == m_changes[event_index]
Scheduled == event_index <= Len(m_changes)

SetRate(r) == RunOnTime(SetAppFreq(r), r)

InForce ==
  /\ Scheduled /\ now >= Current.start /\ now <= Current.finish
  /\ SetRate(Current.rate)
  /\ applied' = applied \cup {event_index} /\ retired' = FALSE
  /\ UNCHANGED event_index

(* Mutant: event_index is not advanced.                                    *)
Recovered_Stays ==
  /\ Scheduled /\ now > Current.finish
  /\ SetRate(Nominal)
  /\ retired' = TRUE
  /\ UNCHANGED <<event_index, applied>>

(* Mutant: the next change is skipped as well.                             *)
Recovered_Two ==
  /\ Scheduled /\ now > Current.finish
  /\ SetRate(Nominal)
  /\ event_index' = event_index + 2 /\ retired' = TRUE
  /\ UNCHANGED applied

Recovered ==
  /\ Scheduled /\ now > Current.finish
  /\ SetRate(Nominal)
  /\ event_index' = event_index + 1 /\ retired' = TRUE
  /\ UNCHANGED applied

(* Before the next change, or after the last.                              *)
Undisturbed ==
  /\ Scheduled => now < Current.start
  /\ RunOnTime(m_dfFreq, m_dfMaxAppTick)
  /\ retired' = FALSE
  /\ UNCHANGED <<event_index, applied>>

Iterate ==
  /\ phase = "running"
  /\ InForce \/ Recovered \/ Undisturbed
  /\ ranAt' = now
  /\ UNCHANGED <<schedule, now>>

(* Time passes.                                                            *)
Elapse ==
  /\ phase = "running"
  /\ Tick
  /\ now' = IF now < Horizon THEN now + 1 ELSE now
  /\ UNCHANGED <<schedule, event_index, ranAt, retired, applied>>

Next ==
  \/ \E l \in Lines : handleChange(l)
  \/ StartUpDone \/ Iterate \/ Elapse

Spec == Init /\ [][Next]_sensorVars

------------------------------------------------------------------------------
Covers(c, t) == c.start <= t /\ t <= c.finish

(* No two changes of the schedule have an instant in common.               *)
Disjoint ==
  \A i, j \in DOMAIN m_changes : i # j =>
    m_changes[i].finish < m_changes[j].start \/ m_changes[j].finish < m_changes[i].start

(* The rate the mission file asks for at time t.                           *)
Wanted(t) ==
  IF \E i \in DOMAIN m_changes : Covers(m_changes[i], t)
  THEN m_changes[CHOOSE i \in DOMAIN m_changes : Covers(m_changes[i], t)].rate
  ELSE Nominal

RateIsWanted ==
  (phase = "running" /\ Disjoint /\ ~retired) => m_dfFreq = Wanted(ranAt)

NoStaleRate ==
  (phase = "running" /\ m_dfFreq # Nominal) =>
    \E i \in DOMAIN m_changes : Covers(m_changes[i], ranAt) /\ m_changes[i].rate = m_dfFreq

(* Whatever the order of the CHANGE lines, a schedule without overlaps is  *)
(* followed: after an Iterate the rate is the one wanted at its time,      *)
(* unless that Iterate was spent on retiring a change.  And whatever the   *)
(* overlaps, it is the nominal rate or that of a change that covers the    *)
(* time of the last Iterate: no change outlasts its time.                  *)
RateFollowsSchedule == RateIsWanted /\ NoStaleRate

(* The waits the schedule can cause.                                       *)
Waits == {Nominal} \cup {m_changes[i].rate : i \in DOMAIN m_changes}

(* Every change lasts two of the longest waits, which are all defined.     *)
Ample ==
  \A w \in Waits :
    /\ w + Late <= Never
    /\ \A i \in DOMAIN m_changes :
         m_changes[i].finish - m_changes[i].start >= 2 * (w + Late) - 1

(* An Iterate may be spent on the change before and another comes a wait   *)
(* later: a change that lasts two of the longest waits is never passed     *)
(* over, in a schedule made of such changes.                               *)
NoChangeMissed ==
  Disjoint /\ Ample => \A i \in DOMAIN m_changes : i < event_index => i \in applied

(* Every change comes to an end and the sensor recovers, unless a rate of  *)
(* 0 puts its loop to sleep for good.                                      *)
SensorRecovers ==
  (phase = "running") ~>
    ((~Scheduled /\ m_dfFreq = Nominal) \/ ~Wakes)

==============================================================================
