-------------------------- MODULE ApplicationsProofs --------------------------
(***************************************************************************)
(* When a MOOS application iterates, how far sOdometry reckons, and at     *)
(* what rate sSensor runs, for every mode, rate, mail and schedule.        *)
(*                                                                         *)
(* The loop's argument is about one clock: age counts from the last run of *)
(* the loop.  Iterate is never younger than it (Clocks), so a wait that    *)
(* ends by age is long enough; and in the modes where every run iterates,  *)
(* a connection's wait is no older than it, while the wait bounds age.     *)
(*                                                                         *)
(* sOdometry's is about the mail, which alternates x and y (Alternates),   *)
(* so that its state is either that of a position or half-way to one.      *)
(*                                                                         *)
(* sSensor's is that the schedule is sorted if it has no overlaps, and its *)
(* changes are looked at in that order (Windows, Progress); from it comes  *)
(* which rate is in force (Following).  With the loop's clock it bounds    *)
(* when each change is first looked at (Punctual).                         *)
(***************************************************************************)
EXTENDS Applications, SequenceTheorems, WellFoundedInduction, TLAPS

LoopTypes ==
  /\ m_IterationMode \in 0 .. 2
  /\ m_dfFreq \in Nat /\ m_dfMaxAppTick \in Nat
  /\ nAppPeriod_ms \in 0 .. Never /\ nAppPeriod_ms \in AppPeriods(m_dfFreq)
  /\ age \in 0 .. Never /\ sinceIterate \in 0 .. Never /\ waited \in 0 .. Never

Clocks ==
  /\ age <= sinceIterate
  /\ ~connected => waited = 0
  /\ m_IterationMode # REGULAR_ITERATE_AND_COMMS_DRIVEN_MAIL => waited <= age
  /\ pausing => m_IterationMode = COMMS_DRIVEN_ITERATE_AND_MAIL
  /\ age <= Late + (IF pausing THEN m_dfMaxAppTick ELSE nAppPeriod_ms)

LoopInv == LoopTypes /\ Clocks /\ NotTooOften

(* Every change of the schedule asks for a rate.                           *)
Rates == m_changes \in Seq([start : Nat, finish : Nat, rate : Nat]) /\ event_index \in Nat \ {0}

AppInv == LoopInv /\ Rates

(* The assumptions on the constants, together.                             *)
LEMMA Constants ==
  /\ Modes \subseteq 0 .. 2 /\ AppTicks \subseteq Nat /\ Periods \subseteq Nat
  /\ MaxTickPeriods \subseteq Nat /\ Late \in Nat /\ Nominal \in Nat
  /\ IntMax \in Nat /\ Never \in Nat /\ Never = IntMax + 1
BY MOOSAppLoopAssumption, SensorAssumption DEF Never

(* A run of the loop is within any wait that follows it.                   *)
LEMMA WithinTheDelay == \A n \in 0 .. Never : 0 <= Late + n
BY Constants

(* Every frequency converts to a wait from none to endless.                *)
LEMMA PeriodFits == ASSUME NEW f \in Nat PROVE AppPeriods(f) \subseteq 0 .. Never
BY Constants DEF AppPeriods

(* The main loop starts in its invariant.                                  *)
LEMMA LoopStarts == LoopInit => LoopInv
<1> SUFFICES ASSUME LoopInit PROVE LoopInv
  OBVIOUS
<1> USE Constants DEF LoopInit
<1>1. m_dfFreq \in Nat /\ nAppPeriod_ms \in 0 .. Never
  BY PeriodFits
<1>2. LoopTypes
  BY <1>1 DEF LoopTypes
<1>3. Clocks
  BY <1>1 DEF Clocks
<1> QED BY <1>2, <1>3 DEF LoopInv, NotTooOften

(* What a run of the loop leaves behind, whether it iterates or not.       *)
LEMMA WorkDone ==
  ASSUME LoopTypes, m_dfFreq' \in Nat, m_dfMaxAppTick' \in Nat, ~tooSoon',
         age' = 0, ~pausing', m_IterationMode' = m_IterationMode,
         connected' = connected, nAppPeriod_ms' \in AppPeriods(m_dfFreq'),
         sinceIterate' \in 0 .. Never, waited' \in 0 .. Never,
         ~connected => waited' = 0,
         m_IterationMode # REGULAR_ITERATE_AND_COMMS_DRIVEN_MAIL => waited' = 0
  PROVE  LoopInv'
<1> USE Constants
<1>1. nAppPeriod_ms' \in 0 .. Never
  BY PeriodFits
<1>2. LoopTypes'
  BY <1>1 DEF LoopTypes, AppPeriods, Never
<1>3. Clocks'
  <2>1. nAppPeriod_ms' >= 0 /\ waited' >= 0 /\ sinceIterate' >= 0
    BY <1>1
  <2>2. age' <= Late + (IF pausing' THEN m_dfMaxAppTick' ELSE nAppPeriod_ms')
    <3>1. (IF pausing' THEN m_dfMaxAppTick' ELSE nAppPeriod_ms') = nAppPeriod_ms'
      OBVIOUS
    <3>2. age' <= Late + nAppPeriod_ms'
      BY <1>1, WithinTheDelay, Zenon
    <3> QED BY <3>1, <3>2
  <2> QED BY <2>1, <2>2 DEF Clocks
<1> QED BY <1>2, <1>3 DEF LoopInv, NotTooOften

(* The run of the mail, and of Iterate if it is its time.                  *)
LEMMA WorkStep ==
  ASSUME LoopInv, NEW due \in BOOLEAN, NEW f \in Nat, NEW max \in Nat,
         DoRunWork(due, f, max),
         due => sinceIterate >= LeastGap,
         due \/ m_IterationMode = REGULAR_ITERATE_AND_COMMS_DRIVEN_MAIL
  PROVE  LoopInv'
<1> USE Constants DEF LoopInv
<1>1. /\ age' = 0 /\ ~pausing'
      /\ m_IterationMode' = m_IterationMode /\ connected' = connected
      /\ nAppPeriod_ms' \in AppPeriods(m_dfFreq')
  BY DEF DoRunWork, commVars
<1>2. CASE due /\ connected
  <2>1. m_dfFreq' = f /\ m_dfMaxAppTick' = max /\ sinceIterate' = 0 /\ waited' = 0
    BY <1>2 DEF DoRunWork
  <2>2. ~tooSoon'
    <3>1. tooSoon' = (tooSoon \/ sinceIterate < LeastGap)
      BY <1>2 DEF DoRunWork
    <3>2. ~(sinceIterate < LeastGap)
      BY <1>2 DEF LoopTypes, LeastGap, Shorter
    <3> QED BY <3>1, <3>2 DEF NotTooOften
  <2>3. sinceIterate' \in 0 .. Never /\ waited' \in 0 .. Never
    BY <2>1
  <2> QED BY <1>1, <2>1, <2>2, <2>3, WorkDone
<1>3. CASE ~(due /\ connected)
  <2>1. UNCHANGED <<m_dfFreq, m_dfMaxAppTick, sinceIterate, waited, tooSoon>>
    BY <1>3 DEF DoRunWork, history
  <2>2. m_IterationMode # REGULAR_ITERATE_AND_COMMS_DRIVEN_MAIL => waited = 0
    BY <1>3 DEF Clocks
  <2>3. m_dfFreq' \in Nat /\ m_dfMaxAppTick' \in Nat /\ ~tooSoon'
    BY <2>1 DEF LoopTypes, NotTooOften
  <2>4. sinceIterate' \in 0 .. Never /\ waited' \in 0 .. Never
        /\ (~connected => waited' = 0)
        /\ (m_IterationMode # REGULAR_ITERATE_AND_COMMS_DRIVEN_MAIL => waited' = 0)
    BY <2>1, <2>2 DEF LoopTypes, Clocks
  <2> QED BY <1>1, <2>3, <2>4, WorkDone
<1> QED BY <1>2, <1>3

(* Each of the four ways out of SleepAsRequired.                           *)
LEMMA RunStep ==
  ASSUME LoopInv, NEW f \in Nat, NEW max \in Nat, Run(f, max)
  PROVE  LoopInv'
<1> USE Constants DEF LoopInv, LoopTypes
<1>1. nAppPeriod_ms \in Int /\ m_dfMaxAppTick \in Int /\ LeastGap <= nAppPeriod_ms
  BY DEF LeastGap, Shorter
<1>2. CASE RunOnTime(f, max)
  <2>1. sinceIterate >= LeastGap
    BY <1>1, <1>2 DEF RunOnTime, Clocks, LeastGap, Shorter
  <2> QED BY <1>2, <2>1, WorkStep DEF RunOnTime
<1>3. CASE RunForMail(f, max)
  <2>1. m_IterationMode = REGULAR_ITERATE_AND_COMMS_DRIVEN_MAIL
    BY <1>3 DEF RunForMail
  <2>2. age >= m_dfFreq => sinceIterate >= LeastGap
    BY <2>1, <1>1 DEF Clocks, LeastGap, Shorter, AppPeriods
  <2>3. (age >= m_dfFreq) \in BOOLEAN
    OBVIOUS
  <2> QED BY <1>3, <2>1, <2>2, <2>3, WorkStep DEF RunForMail
<1>4. CASE IterateForMail(f, max)
  <2>1. sinceIterate >= LeastGap
    BY <1>1, <1>4 DEF IterateForMail, Clocks, LeastGap, Shorter
  <2> QED BY <1>4, <2>1, WorkStep DEF IterateForMail
<1>5. CASE RunAfterPause(f, max)
  <2>1. sinceIterate >= LeastGap
    BY <1>1, <1>5 DEF RunAfterPause, Clocks, LeastGap, Shorter
  <2> QED BY <1>5, <2>1, WorkStep DEF RunAfterPause
<1> QED BY <1>2, <1>3, <1>4, <1>5 DEF Run

(* The passing of time, the thread being no later than it may be.          *)
LEMMA TickStep == LoopInv /\ Tick => LoopInv'
<1> SUFFICES ASSUME LoopInv, Tick PROVE LoopInv'
  OBVIOUS
<1> USE Constants DEF LoopInv, LoopTypes, Tick, Older, commVars
<1>1. LoopTypes'
  BY DEF AppPeriods, Never
<1>2. Clocks'
  BY DEF Clocks
<1>3. NotTooOften'
  BY DEF NotTooOften
<1> QED BY <1>1, <1>2, <1>3

(* A step of another part of the program.                                  *)
LEMMA SameLoop == LoopInv /\ UNCHANGED loopVars => LoopInv'
BY DEF loopVars, LoopInv, LoopTypes, Clocks, NotTooOften, AppPeriods, Never

(* Every step of an application of any kind.                               *)
LEMMA LoopKeeps == LoopInv /\ LoopNext => LoopInv'
<1> SUFFICES ASSUME LoopInv, LoopNext PROVE LoopInv'
  OBVIOUS
<1> USE Constants
<1>1. m_dfFreq \in Nat /\ m_dfMaxAppTick \in Nat
  BY DEF LoopInv, LoopTypes
<1>2. CASE Run(m_dfFreq, m_dfMaxAppTick)
  BY <1>1, <1>2, RunStep
<1>3. ASSUME NEW f \in Periods, NEW max \in MaxTickPeriods, Run(SetAppFreq(f), max)
      PROVE  LoopInv'
  <2>1. SetAppFreq(f) \in Nat /\ max \in Nat
    BY <1>1 DEF SetAppFreq
  <2> QED BY <1>3, <2>1, RunStep
<1>4. CASE Pause
  BY <1>4 DEF Pause, WokenByMail, LoopInv, LoopTypes, Clocks, NotTooOften, history, commVars,
     AppPeriods, Never
<1>5. CASE OnMailCallBack
  BY <1>5 DEF OnMailCallBack, LoopInv, LoopTypes, Clocks, NotTooOften, history, commVars,
     AppPeriods, Never
<1>6. CASE Reconnect
  BY <1>6 DEF Reconnect, LoopInv, LoopTypes, Clocks, NotTooOften, AppPeriods, Never
<1> QED
  BY <1>2, <1>3, <1>4, <1>5, <1>6, TickStep DEF LoopNext, AppThread

------------------------------------------------------------------------------
(* A CHANGE line is a change of a rate, also for a rate of 0.              *)
LEMMA LinesAreChanges ==
  ASSUME NEW l \in Lines
  PROVE  [l EXCEPT !.rate = IF l.rate = 0 THEN Never ELSE l.rate]
           \in [start : Nat, finish : Nat, rate : Nat]
BY Constants, SensorAssumption

(* Among the places for a change that starts before no other ends, the     *)
(* first: Place is well defined.                                           *)
LEMMA PlaceInRange ==
  ASSUME NEW d, d.finish \in Nat, m_changes \in Seq([start : Nat, finish : Nat, rate : Nat])
  PROVE  /\ Place(d) \in 1 .. Len(m_changes) + 1
         /\ Place(d) <= Len(m_changes) => m_changes[Place(d)].start > d.finish
         /\ \A i \in 1 .. Place(d) - 1 : m_changes[i].start <= d.finish
<1> DEFINE fits == {k \in 1 .. Len(m_changes) + 1 :
                      k <= Len(m_changes) => m_changes[k].start > d.finish}
           before == {ss \in Nat \X Nat : ss[1] < ss[2]}
<1>1. Len(m_changes) \in Nat OBVIOUS
<1>2. IsWellFoundedOn(before, Nat)
  BY NatLessThanWellFounded DEF OpToRel
<1>3. Len(m_changes) + 1 \in fits /\ fits \subseteq Nat
  BY <1>1
<1>4. PICK k \in fits : \A j \in fits : <<j, k>> \notin before
  <2> HIDE DEF fits, before
  <2> QED BY <1>2, <1>3, WFMin
<1>5. \A i \in 1 .. k - 1 : m_changes[i].start <= d.finish
  <2> SUFFICES ASSUME NEW i \in 1 .. k - 1 PROVE m_changes[i].start <= d.finish
    OBVIOUS
  <2>1. i \in Nat /\ k \in Nat /\ i < k /\ i \in 1 .. Len(m_changes)
    BY <1>1
  <2>2. i \notin fits
    BY <1>4, <2>1
  <2>3. m_changes[i] \in [start : Nat, finish : Nat, rate : Nat]
    BY <2>1, ElementOfSeq
  <2>4. m_changes[i].start \in Nat
    BY <2>3
  <2>5. ~(i <= Len(m_changes) => m_changes[i].start > d.finish)
    BY <2>1, <2>2
  <2> QED BY <2>4, <2>5
<1>6. \E j \in 1 .. Len(m_changes) + 1 :
        /\ j <= Len(m_changes) => m_changes[j].start > d.finish
        /\ \A i \in 1 .. j - 1 : m_changes[i].start <= d.finish
  BY <1>5
<1> QED BY <1>6 DEF Place

(* The insertion of a change keeps the schedule a sequence of changes.     *)
LEMMA RatesStep ==
  ASSUME Rates, NEW l \in Lines, handleChange(l)
  PROVE  Rates'
<1> DEFINE C == [start : Nat, finish : Nat, rate : Nat]
           d == Change(l)
           n == Len(m_changes)
<1>1. event_index' = event_index
  BY DEF handleChange
<1>2. CASE UNCHANGED m_changes
  BY <1>1, <1>2 DEF Rates
<1>3. CASE m_changes' = Insert(d)
  <2>1. d \in C
    BY Constants, LinesAreChanges DEF Change
  <2>2. d.finish \in Nat
    BY <2>1
  <2> HIDE DEF C, d
  <2>3. m_changes \in Seq(C) /\ n \in Nat
    BY DEF Rates, C
  <2>4. Place(d) \in 1 .. n + 1
    BY <2>2, PlaceInRange DEF Rates
  <2> DEFINE new(i) == IF i < Place(d) THEN m_changes[i]
                       ELSE IF i = Place(d) THEN d ELSE m_changes[i - 1]
  <2>5. ASSUME NEW i \in 1 .. n + 1 PROVE new(i) \in C
    <3>1. CASE i < Place(d)
      <4>1. i \in 1 .. n BY <3>1, <2>3, <2>4
      <4>2. m_changes[i] \in C BY <4>1, <2>3, ElementOfSeq
      <4> QED BY <4>2, <3>1
    <3>2. CASE i = Place(d)
      BY <2>1, <2>4, <3>2
    <3>3. CASE i > Place(d)
      <4>1. i - 1 \in 1 .. n BY <3>3, <2>3, <2>4
      <4>2. m_changes[i - 1] \in C BY <4>1, <2>3, ElementOfSeq
      <4> QED BY <4>2, <3>3, <2>4
    <3> QED BY <3>1, <3>2, <3>3, <2>3, <2>4
  <2>6. Insert(d) = [i \in 1 .. n + 1 |-> new(i)]
    BY DEF Insert
  <2>7. Insert(d) \in Seq(C)
    <3> HIDE DEF new, n
    <3>1. n + 1 \in Nat BY <2>3
    <3> QED BY <2>5, <2>6, <3>1, IsASeq
  <2> QED BY <1>1, <1>3, <2>7 DEF Rates, C
<1> QED BY <1>2, <1>3 DEF handleChange

(* Every step of sSensor.                                                  *)
LEMMA SensorKeeps == AppInv /\ Next => AppInv'
<1> SUFFICES ASSUME LoopInv, Rates, Next PROVE LoopInv' /\ Rates'
  BY DEF AppInv
<1>1. ASSUME NEW l \in Lines, handleChange(l) PROVE LoopInv' /\ Rates'
  BY <1>1, RatesStep, SameLoop DEF handleChange
<1>2. CASE StartUpDone
  BY <1>2, SameLoop DEF StartUpDone, Rates
<1>3. CASE Elapse
  BY <1>3, TickStep DEF Elapse, schedule, Rates
<1>4. CASE Iterate
  <2>1. ASSUME NEW r \in Nat, SetRate(r) PROVE LoopInv'
    <3>1. SetAppFreq(r) \in Nat BY DEF SetAppFreq, LoopInv, LoopTypes
    <3> QED BY <2>1, <3>1, RunStep DEF SetRate, Run
  <2>2. m_changes' = m_changes
    BY <1>4 DEF Iterate, schedule
  <2>3. CASE InForce
    <3>1. event_index \in 1 .. Len(m_changes)
      BY <2>3 DEF InForce, Scheduled, Rates
    <3>2. m_changes[event_index] \in [start : Nat, finish : Nat, rate : Nat]
      BY <3>1, ElementOfSeq DEF Rates
    <3>3. Current.rate \in Nat
      BY <3>2 DEF Current
    <3> QED BY <2>1, <2>2, <2>3, <3>3 DEF InForce, Rates
  <2>4. CASE Recovered
    BY <2>1, <2>2, <2>4, Constants DEF Recovered, Rates
  <2>5. CASE Undisturbed
    <3>1. m_dfFreq \in Nat /\ m_dfMaxAppTick \in Nat
      BY DEF LoopInv, LoopTypes
    <3> QED BY <2>2, <2>5, <3>1, RunStep DEF Undisturbed, Run, Rates
  <2> QED BY <1>4, <2>3, <2>4, <2>5 DEF Iterate
<1> QED BY <1>1, <1>2, <1>3, <1>4 DEF Next

(* Every process starts in the invariant.                                  *)
LEMMA AppInitInv == AppInit => AppInv
BY LoopStarts DEF AppInit, Init, AppInv, Rates

(* Every step of every process preserves it.                               *)
LEMMA AppStepInv == AppInv /\ [AppNext]_appVars => AppInv'
<1> SUFFICES ASSUME AppInv, [AppNext]_appVars PROVE AppInv'
  OBVIOUS
<1>1. CASE LoopNext /\ LoopStep
  BY <1>1, LoopKeeps DEF AppInv, LoopStep, scheduleVars, schedule, Rates
<1>2. CASE Next /\ SensorStep
  BY <1>2, SensorKeeps
<1>3. CASE O!Next /\ OdometryStep
  BY <1>3, SameLoop DEF AppInv, OdometryStep, scheduleVars, schedule, Rates
<1>4. CASE StartupNext /\ StartupStep
  BY <1>4, SameLoop DEF AppInv, StartupStep, scheduleVars, schedule, Rates
<1>5. CASE UNCHANGED appVars
  BY <1>5, SameLoop DEF appVars, AppInv, scheduleVars, schedule, Rates
<1> QED BY <1>1, <1>2, <1>3, <1>4, <1>5 DEF AppNext

(* Whatever the modes, rates, mail and schedule, and however long it runs, *)
(* no application's Iterate comes before the shorter of its periods is     *)
(* over, nor, where mail does not replace it, after the longer one.        *)
THEOREM InTime == FairAppSpec => []IteratesInTime
<1>1. AppInv => IteratesInTime
  <2> SUFFICES ASSUME AppInv PROVE NotTooLate
    BY DEF AppInv, LoopInv, IteratesInTime
  <2> SUFFICES ASSUME m_IterationMode # REGULAR_ITERATE_AND_COMMS_DRIVEN_MAIL
               PROVE  waited <= Longer(nAppPeriod_ms, m_dfMaxAppTick) + Late
    BY DEF NotTooLate
  <2>1. waited <= age /\ age \in Int /\ waited \in Int
        /\ nAppPeriod_ms \in Int /\ m_dfMaxAppTick \in Int
    BY Constants DEF AppInv, LoopInv, LoopTypes, Clocks
  <2>2. CASE pausing
    <3>1. age <= Late + m_dfMaxAppTick BY <2>2 DEF AppInv, LoopInv, Clocks
    <3> QED BY <3>1, <2>1, Constants DEF Longer
  <2>3. CASE ~pausing
    <3>1. age <= Late + nAppPeriod_ms BY <2>3 DEF AppInv, LoopInv, Clocks
    <3> QED BY <3>1, <2>1, Constants DEF Longer
  <2> QED BY <2>2, <2>3
<1>2. AppSpec => []AppInv
  BY AppInitInv, AppStepInv, PTL DEF AppSpec
<1>3. FairAppSpec => AppSpec
  BY PTL DEF FairAppSpec
<1> QED BY <1>1, <1>2, <1>3, PTL

------------------------------------------------------------------------------
(* sOdometry.                                                              *)

X0 == Xs \cup {0}
Y0 == Ys \cup {0}

(* The mail alternates between the coordinates and ends with a position.   *)
Alternates ==
  /\ navMail \in Seq(O!Messages)
  /\ \A i \in 1 .. Len(navMail) - 1 : navMail[i].key # navMail[i + 1].key
  /\ navMail # <<>> => navMail[Len(navMail)].key = "NAV_Y"

(* The x of the next position has been read, its y has not.                *)
Halfway == navMail # <<>> /\ navMail[1].key = "NAV_Y"

Counting ==
  /\ m_current_x \in X0 /\ m_previous_x \in X0 /\ m_current_y \in Y0 /\ m_previous_y \in Y0
  /\ x \in X0 /\ y \in Y0
  /\ m_total_distance \in Nat /\ travelled \in Nat
  /\ m_total_distance >= travelled
  /\ paired => m_total_distance = travelled
  /\ m_current_y = y
  /\ IF Halfway THEN m_previous_x = x ELSE m_current_x = x
  /\ m_first_reading =>
       m_current_x = 0 /\ m_previous_x = 0 /\ m_current_y = 0 /\ m_previous_y = 0

OdometryInv ==
  /\ Alternates /\ paired \in BOOLEAN /\ mixed \in BOOLEAN
  /\ paired => ~mixed
  /\ ~mixed => Counting

LEMMA DistanceNat ==
  ASSUME NEW a \in X0, NEW b \in Y0, NEW c \in X0, NEW d \in Y0
  PROVE  O!Distance(a, b, c, d) \in Nat
<1>1. a \in Nat /\ b \in Nat /\ c \in Nat /\ d \in Nat
  BY OdometryAssumption DEF X0, Y0
<1>2. \E r \in 0 .. (a + b + c + d) : r * r = (a - c) * (a - c) + (b - d) * (b - d)
  BY OdometryAssumption DEF X0, Y0
<1>3. O!Distance(a, b, c, d) \in 0 .. (a + b + c + d)
  BY <1>2 DEF O!Distance
<1> QED BY <1>1, <1>3

(* Where the odometer is before its mail, and after one message and two.   *)
Before == [xs |-> <<m_current_x, m_previous_x>>, ys |-> <<m_current_y, m_previous_y>>,
           at |-> <<x, y>>, way |-> travelled]
AfterOne == O!Handle(Before, navMail[1])
AfterTwo == O!Handle(AfterOne, navMail[2])

LEMMA MailOfTwo ==
  ASSUME NEW n \in 0 .. 2
  PROVE  O!OnNewMail(n) = IF n = 0 THEN Before ELSE IF n = 1 THEN AfterOne ELSE AfterTwo
<1> DEFINE Loop(r) == r = [i \in 0 .. n |-> IF i = 0 THEN Before
                                            ELSE O!Handle(r[i - 1], navMail[i])]
           w == [i \in 0 .. n |-> IF i = 0 THEN Before ELSE IF i = 1 THEN AfterOne ELSE AfterTwo]
           f == CHOOSE r : Loop(r)
<1>1. Loop(w)
  <2> SUFFICES ASSUME NEW i \in 0 .. n
               PROVE  w[i] = IF i = 0 THEN Before ELSE O!Handle(w[i - 1], navMail[i])
    OBVIOUS
  <2>1. CASE i = 0
    BY <2>1
  <2>2. CASE i = 1
    <3>1. w[i] = AfterOne /\ w[i - 1] = Before
      BY <2>2
    <3> HIDE DEF w
    <3> QED BY <2>2, <3>1 DEF AfterOne
  <2>3. CASE i = 2
    <3>1. w[i] = AfterTwo /\ w[i - 1] = AfterOne
      BY <2>3
    <3> HIDE DEF w
    <3> QED BY <2>3, <3>1 DEF AfterTwo
  <2> QED BY <2>1, <2>2, <2>3
<1>2. Loop(f)
  <2> HIDE DEF Loop
  <2> QED BY <1>1
<1>3. O!OnNewMail(n) = f[n]
  BY DEF O!OnNewMail, Before
<1>4. f[0] = Before /\ \A i \in 1 .. n : f[i] = O!Handle(f[i - 1], navMail[i])
  <2> HIDE DEF f
  <2>1. 0 \in 0 .. n /\ \A i \in 1 .. n : i \in 0 .. n /\ i # 0
    OBVIOUS
  <2> QED BY <1>2, <2>1
<1> HIDE DEF f
<1>5. n >= 1 => f[1] = AfterOne
  BY <1>4 DEF AfterOne
<1>6. n >= 2 => f[2] = AfterTwo
  BY <1>4, <1>5 DEF AfterTwo
<1> QED BY <1>3, <1>4, <1>5, <1>6

(* What a message of each coordinate does.                                 *)
LEMMA HandleForms ==
  ASSUME NEW s, NEW xs, NEW ys, NEW at, NEW way, NEW m,
         s = [xs |-> xs, ys |-> ys, at |-> at, way |-> way]
  PROVE  O!Handle(s, m) =
           IF m.key = "NAV_X" THEN [xs |-> <<m.value, xs[1]>>, ys |-> ys, at |-> at, way |-> way]
           ELSE [xs |-> xs, ys |-> <<m.value, ys[1]>>, at |-> <<xs[1], m.value>>,
                 way |-> way + O!Distance(xs[1], m.value, at[1], at[2])]
<1>1. CASE m.key = "NAV_X"
  BY <1>1 DEF O!Handle, O!Shifted
<1>2. CASE m.key # "NAV_X"
  BY <1>2 DEF O!Handle, O!Shifted
<1> QED BY <1>1, <1>2

(* A message.                                                              *)
LEMMA MessageTypes ==
  ASSUME Alternates, NEW i \in 1 .. Len(navMail)
  PROVE  \/ navMail[i].key = "NAV_X" /\ navMail[i].value \in X0
         \/ navMail[i].key = "NAV_Y" /\ navMail[i].value \in Y0
<1>1. navMail[i] \in O!Messages
  BY ElementOfSeq DEF Alternates
<1> QED BY <1>1 DEF O!Messages, X0, Y0

(* The rest of the mail.                                                   *)
LEMMA RestAlternates ==
  ASSUME Alternates, NEW n \in 0 .. Len(navMail),
         navMail' = SubSeq(navMail, n + 1, Len(navMail))
  PROVE  /\ Alternates'
         /\ Halfway' <=> n < Len(navMail) /\ navMail[n + 1].key = "NAV_Y"
<1> DEFINE k == Len(navMail)
           q == SubSeq(navMail, n + 1, k)
<1>1. navMail \in Seq(O!Messages) /\ k \in Nat /\ n \in Nat /\ n <= k
  BY DEF Alternates
<1>2. /\ q \in Seq(O!Messages) /\ Len(q) = k - n
      /\ \A i \in 1 .. k - n : q[i] = navMail[n + i]
  <2>1. q \in Seq(O!Messages)
    <3>1. \A i \in n + 1 .. k : i \in 1 .. k
      BY <1>1
    <3> QED BY <1>1, <3>1, SubSeqProperties
  <2>2. Len(q) = k - n
    BY <1>1, SubSeqProperties
  <2>3. ASSUME NEW i \in 1 .. k - n PROVE q[i] = navMail[n + i]
    <3>1. i \in 1 .. (k - (n + 1) + 1)
      BY <1>1
    <3>2. q[i] = navMail[n + 1 + i - 1]
      BY <1>1, <3>1, SubSeqProperties
    <3> QED BY <1>1, <3>2
  <2> QED BY <2>1, <2>2, <2>3
<1>3. navMail' = q
  OBVIOUS
<1> HIDE DEF q
<1>4. ASSUME NEW i \in 1 .. Len(q) - 1 PROVE q[i].key # q[i + 1].key
  <2> DEFINE j == n + i
  <2>1. j \in 1 .. k - 1 /\ i \in 1 .. k - n /\ i + 1 \in 1 .. k - n /\ n + (i + 1) = j + 1
    BY <1>1, <1>2
  <2>2. q[i] = navMail[j] /\ q[i + 1] = navMail[j + 1]
    BY <1>2, <2>1
  <2> HIDE DEF j
  <2> QED BY <2>1, <2>2 DEF Alternates
<1>5. q # <<>> => Len(q) > 0 /\ q[Len(q)] = navMail[k]
  BY <1>1, <1>2, EmptySeq
<1>6. q # <<>> => navMail # <<>>
  BY <1>1, <1>2, EmptySeq
<1>7. Alternates'
  BY <1>2, <1>3, <1>4, <1>5, <1>6 DEF Alternates
<1>8. q # <<>> <=> n < k
  BY <1>1, <1>2, EmptySeq
<1>9. n < k => q[1] = navMail[n + 1]
  BY <1>1, <1>2
<1> QED BY <1>3, <1>7, <1>8, <1>9 DEF Halfway

LEMMA MoveStep ==
  ASSUME OdometryInv, O!Move
  PROVE  OdometryInv'
<1>1. PICK a \in Xs, b \in Ys :
        navMail' = navMail \o <<[key |-> "NAV_X", value |-> a], [key |-> "NAV_Y", value |-> b]>>
  BY DEF O!Move
<1> DEFINE p == <<[key |-> "NAV_X", value |-> a], [key |-> "NAV_Y", value |-> b]>>
           k == Len(navMail)
           q == navMail \o p
<1>2. navMail \in Seq(O!Messages) /\ k \in Nat
  BY DEF OdometryInv, Alternates
<1>3. p \in Seq(O!Messages) /\ Len(p) = 2 /\ p[1].key = "NAV_X" /\ p[2].key = "NAV_Y"
  <2>1. [key |-> "NAV_X", value |-> a] \in O!Messages /\ [key |-> "NAV_Y", value |-> b] \in O!Messages
    BY DEF O!Messages
  <2> QED BY <2>1
<1> HIDE DEF p
<1>4. /\ q \in Seq(O!Messages) /\ Len(q) = k + 2
      /\ \A i \in 1 .. k : q[i] = navMail[i]
      /\ q[k + 1] = p[1] /\ q[k + 2] = p[2]
  <2>1. /\ q \in Seq(O!Messages) /\ Len(q) = k + 2
        /\ \A i \in 1 .. k + 2 : q[i] = IF i <= k THEN navMail[i] ELSE p[i - k]
    <3>1. /\ q \in Seq(O!Messages) /\ Len(q) = k + Len(p)
          /\ \A i \in 1 .. k + Len(p) : q[i] = IF i <= k THEN navMail[i] ELSE p[i - k]
      BY <1>2, <1>3, ConcatProperties, Zenon
    <3> HIDE DEF q, k
    <3> QED BY <1>3, <3>1
  <2>2. k + 1 \in 1 .. k + 2 /\ k + 2 \in 1 .. k + 2 /\ ~(k + 1 <= k) /\ ~(k + 2 <= k)
        /\ (k + 1) - k = 1 /\ (k + 2) - k = 2 /\ \A i \in 1 .. k : i \in 1 .. k + 2 /\ i <= k
    BY <1>2
  <2> HIDE DEF q, k
  <2> QED BY <2>1, <2>2
<1>5. navMail' = q
  BY <1>1 DEF p
<1> HIDE DEF q
<1>6. ASSUME NEW i \in 1 .. Len(q) - 1 PROVE q[i].key # q[i + 1].key
  <2>1. CASE i < k
    <3>1. i \in 1 .. k - 1 /\ q[i] = navMail[i] /\ q[i + 1] = navMail[i + 1]
      BY <1>2, <1>4, <2>1
    <3> QED BY <3>1 DEF OdometryInv, Alternates
  <2>2. CASE i = k
    <3>1. navMail # <<>>
      BY <1>2, <2>2, EmptySeq
    <3>2. q[i] = navMail[k] /\ q[i + 1] = p[1]
      BY <1>2, <1>4, <2>2
    <3> QED BY <1>3, <3>1, <3>2 DEF OdometryInv, Alternates
  <2>3. CASE i = k + 1
    <3>1. q[i] = p[1] /\ q[i + 1] = p[2]
      BY <1>2, <1>4, <2>3
    <3> QED BY <1>3, <3>1
  <2> QED BY <1>2, <1>4, <2>1, <2>2, <2>3
<1>7. Alternates'
  BY <1>2, <1>3, <1>4, <1>5, <1>6 DEF Alternates
<1>8. Halfway' <=> Halfway
  <2>1. q # <<>>
    BY <1>2, <1>4, EmptySeq
  <2>2. CASE navMail = <<>>
    <3>1. q[1] = p[1]
      BY <1>2, <1>4, <2>2, EmptySeq
    <3> QED BY <1>3, <1>5, <2>2, <3>1 DEF Halfway
  <2>3. CASE navMail # <<>>
    <3>1. q[1] = navMail[1]
      BY <1>2, <1>4, <2>3, EmptySeq
    <3> QED BY <1>5, <2>1, <2>3, <3>1 DEF Halfway
  <2> QED BY <2>2, <2>3
<1>9. /\ UNCHANGED <<m_current_x, m_previous_x, m_current_y, m_previous_y, m_first_reading,
                     m_total_distance, x, y, travelled, paired, mixed>>
  BY DEF O!Move, O!odometry
<1> QED BY <1>7, <1>8, <1>9 DEF OdometryInv, Counting

LEMMA IterateStep ==
  ASSUME OdometryInv, NEW n \in 0 .. Len(navMail), O!Iterate(n)
  PROVE  OdometryInv'
<1> DEFINE s == O!OnNewMail(n)
<1>1. /\ navMail' = SubSeq(navMail, n + 1, Len(navMail))
      /\ m_current_x' = s.xs[1] /\ m_previous_x' = s.xs[2]
      /\ m_current_y' = s.ys[1] /\ m_previous_y' = s.ys[2]
      /\ m_total_distance' = m_total_distance + O!Added(s.xs, s.ys)
      /\ x' = s.at[1] /\ y' = s.at[2] /\ travelled' = s.way
      /\ m_first_reading' = FALSE
      /\ paired' = (paired /\ n = 2 /\ navMail[1].key = "NAV_X")
      /\ mixed' = (mixed \/ n > 2 \/ (n = 2 /\ navMail[1].key = "NAV_Y"))
  BY DEF O!Iterate
<1>2. Alternates /\ Len(navMail) \in Nat
  BY DEF OdometryInv, Alternates
<1>3. Alternates' /\ (Halfway' <=> n < Len(navMail) /\ navMail[n + 1].key = "NAV_Y")
  BY <1>1, <1>2, RestAlternates
<1>4. /\ paired' \in BOOLEAN /\ mixed' \in BOOLEAN
      /\ paired' => paired /\ n = 2 /\ navMail[1].key = "NAV_X"
      /\ ~mixed' => ~mixed /\ ~(n > 2) /\ ~(n = 2 /\ navMail[1].key = "NAV_Y")
      /\ paired' => ~mixed'
  <2>1. paired \in BOOLEAN /\ mixed \in BOOLEAN /\ (paired => ~mixed)
    BY DEF OdometryInv
  <2>2. n = 2 => ~(n > 2)
    OBVIOUS
  <2>3. "NAV_X" # "NAV_Y"
    OBVIOUS
  <2> QED BY <1>1, <2>1, <2>2, <2>3, Zenon
<1> HIDE DEF s
<1>5. ASSUME ~mixed' PROVE Counting'
  <2>1. Counting /\ n \in 0 .. 2 /\ ~(n = 2 /\ navMail[1].key = "NAV_Y")
    BY <1>2, <1>4, <1>5 DEF OdometryInv
  <2>2. s = IF n = 0 THEN Before ELSE IF n = 1 THEN AfterOne ELSE AfterTwo
    BY <2>1, MailOfTwo DEF s
  <2>3. CASE n = 0
    <3>1. s.xs[1] = m_current_x /\ s.xs[2] = m_previous_x /\ s.ys[1] = m_current_y
          /\ s.ys[2] = m_previous_y /\ s.at[1] = x /\ s.at[2] = y /\ s.way = travelled
      BY <2>2, <2>3 DEF Before
    <3>2. Halfway' <=> Halfway
      BY <1>2, <1>3, <2>3, EmptySeq DEF Halfway, Alternates
    <3>3. O!Added(s.xs, s.ys) \in Nat
      BY <2>1, <3>1, DistanceNat DEF O!Added, Counting, X0, Y0
    <3> QED BY <1>1, <1>4, <2>1, <2>3, <3>1, <3>2, <3>3 DEF Counting
  <2>4. CASE n = 1 /\ navMail[1].key = "NAV_X"
    <3> DEFINE v == navMail[1].value
    <3>1. v \in X0 /\ 1 \in 1 .. Len(navMail)
      BY <1>2, <2>4, MessageTypes
    <3>2. s = [xs |-> <<v, m_current_x>>, ys |-> <<m_current_y, m_previous_y>>,
               at |-> <<x, y>>, way |-> travelled]
      BY <2>2, <2>4, HandleForms DEF AfterOne, Before
    <3>3. s.xs[1] = v /\ s.xs[2] = m_current_x /\ s.ys[1] = m_current_y
          /\ s.ys[2] = m_previous_y /\ s.at[1] = x /\ s.at[2] = y /\ s.way = travelled
      BY <3>2
    <3>4. ~Halfway /\ Halfway'
      <4>1. navMail # <<>> /\ Len(navMail) # 1
        BY <1>2, <2>4, <3>1, EmptySeq DEF Alternates
      <4>2. Len(navMail) > 1 /\ navMail[1].key # navMail[2].key
        <5>1. Len(navMail) > 1 /\ 1 \in 1 .. Len(navMail) - 1
          BY <1>2, <4>1, <3>1
        <5>2. navMail[1].key # navMail[1 + 1].key
          BY <1>2, <5>1 DEF Alternates
        <5> QED BY <5>1, <5>2
      <4>3. navMail[2].key = "NAV_Y"
        BY <1>2, <2>4, <4>2, MessageTypes
      <4> QED BY <1>3, <2>4, <4>2, <4>3 DEF Halfway
    <3>5. O!Added(s.xs, s.ys) \in Nat
      BY <2>1, <3>1, <3>3, DistanceNat DEF O!Added, Counting, X0, Y0
    <3> HIDE DEF v
    <3> QED BY <1>1, <1>4, <2>1, <2>4, <3>1, <3>3, <3>4, <3>5 DEF Counting
  <2>5. CASE n = 1 /\ navMail[1].key # "NAV_X"
    <3> DEFINE v == navMail[1].value
    <3>1. v \in Y0 /\ navMail[1].key = "NAV_Y" /\ 1 \in 1 .. Len(navMail)
      BY <1>2, <2>5, MessageTypes
    <3>2. s = [xs |-> <<m_current_x, m_previous_x>>, ys |-> <<v, m_current_y>>,
               at |-> <<m_current_x, v>>,
               way |-> travelled + O!Distance(m_current_x, v, x, y)]
      BY <2>2, <2>5, HandleForms DEF AfterOne, Before
    <3>3. s.xs[1] = m_current_x /\ s.xs[2] = m_previous_x /\ s.ys[1] = v
          /\ s.ys[2] = m_current_y /\ s.at[1] = m_current_x /\ s.at[2] = v
          /\ s.way = travelled + O!Distance(m_current_x, v, x, y)
      BY <3>2
    <3>4. Halfway /\ ~Halfway'
      <4>1. navMail # <<>>
        BY <1>2, <3>1, EmptySeq
      <4>2. 1 < Len(navMail) => navMail[2].key # "NAV_Y"
        BY <1>2, <3>1 DEF Alternates
      <4> QED BY <1>3, <2>5, <3>1, <4>1, <4>2 DEF Halfway
    <3>5. O!Added(s.xs, s.ys) = O!Distance(m_current_x, v, x, y)
      BY <2>1, <3>3, <3>4 DEF O!Added, Counting
    <3>6. O!Distance(m_current_x, v, x, y) \in Nat
      BY <2>1, <3>1, DistanceNat DEF Counting
    <3> HIDE DEF v
    <3> QED BY <1>1, <1>4, <2>1, <2>5, <3>1, <3>3, <3>4, <3>5, <3>6 DEF Counting
  <2>6. CASE n = 2
    <3> DEFINE v == navMail[1].value
               u == navMail[2].value
    <3>1. /\ 1 \in 1 .. Len(navMail) /\ 2 \in 1 .. Len(navMail)
          /\ navMail[1].key = "NAV_X" /\ v \in X0
      BY <1>2, <2>1, <2>6, MessageTypes
    <3>2. navMail[2].key = "NAV_Y" /\ u \in Y0
      <4>1. navMail[1].key # navMail[2].key
        BY <1>2, <3>1 DEF Alternates
      <4> QED BY <1>2, <3>1, <4>1, MessageTypes
    <3>3. AfterOne = [xs |-> <<v, m_current_x>>, ys |-> <<m_current_y, m_previous_y>>,
                      at |-> <<x, y>>, way |-> travelled]
      BY <3>1, HandleForms DEF AfterOne, Before
    <3>4. s = [xs |-> <<v, m_current_x>>, ys |-> <<u, m_current_y>>, at |-> <<v, u>>,
               way |-> travelled + O!Distance(v, u, x, y)]
      BY <2>2, <2>6, <3>2, <3>3, HandleForms DEF AfterTwo
    <3>5. s.xs[1] = v /\ s.xs[2] = m_current_x /\ s.ys[1] = u /\ s.ys[2] = m_current_y
          /\ s.at[1] = v /\ s.at[2] = u /\ s.way = travelled + O!Distance(v, u, x, y)
      BY <3>4
    <3>6. ~Halfway /\ ~Halfway'
      <4>1. 2 < Len(navMail) => navMail[3].key # "NAV_Y"
        BY <1>2, <3>2 DEF Alternates
      <4> QED BY <1>3, <2>6, <3>1, <4>1 DEF Halfway
    <3>7. O!Added(s.xs, s.ys) = O!Distance(v, u, x, y)
      BY <2>1, <3>5, <3>6 DEF O!Added, Counting
    <3>8. O!Distance(v, u, x, y) \in Nat
      BY <2>1, <3>1, <3>2, DistanceNat DEF Counting
    <3> HIDE DEF v, u
    <3> QED BY <1>1, <1>4, <2>1, <2>6, <3>1, <3>2, <3>5, <3>6, <3>7, <3>8 DEF Counting
  <2> QED BY <2>1, <2>3, <2>4, <2>5, <2>6
<1> QED BY <1>3, <1>4, <1>5 DEF OdometryInv

LEMMA OdometryInitInv == AppInit => OdometryInv
<1> SUFFICES ASSUME AppInit PROVE OdometryInv
  OBVIOUS
<1>1. /\ m_current_x = 0 /\ m_previous_x = 0 /\ m_current_y = 0 /\ m_previous_y = 0
      /\ m_first_reading = TRUE /\ m_total_distance = 0 /\ navMail = <<>>
      /\ x = 0 /\ y = 0 /\ travelled = 0 /\ paired = TRUE /\ mixed = FALSE
  BY DEF AppInit, O!Init
<1>2. Alternates
  BY <1>1, EmptySeq DEF Alternates
<1>3. Counting
  BY <1>1 DEF Counting, Halfway, X0, Y0
<1> QED BY <1>1, <1>2, <1>3 DEF OdometryInv

LEMMA SameOdometry == OdometryInv /\ UNCHANGED odometryVars => OdometryInv'
BY DEF odometryVars, OdometryInv, Alternates, Counting, Halfway

LEMMA OdometryStepInv == OdometryInv /\ [AppNext]_appVars => OdometryInv'
<1> SUFFICES ASSUME OdometryInv, [AppNext]_appVars PROVE OdometryInv'
  OBVIOUS
<1>1. CASE O!Next /\ OdometryStep
  <2>1. CASE O!Move
    BY <2>1, MoveStep
  <2>2. ASSUME NEW n \in 0 .. Len(navMail), O!Iterate(n) PROVE OdometryInv'
    BY <2>2, IterateStep
  <2> QED BY <1>1, <2>1, <2>2 DEF O!Next
<1> QED BY <1>1, SameOdometry DEF AppNext, LoopStep, SensorStep, StartupStep, appVars

(* With both coordinates of a position at every Iterate the distance is    *)
(* that of the way; and as long as no Iterate gets mail of more than one   *)
(* position, no part of the way is missed, however late or split the mail  *)
(* comes and however long the vehicle moves about.                         *)
THEOREM NoWayMissed == FairAppSpec => []WayAccountedFor
<1>1. OdometryInv => WayAccountedFor
  <2> SUFFICES ASSUME OdometryInv
               PROVE  (paired => m_total_distance = travelled)
                      /\ (~mixed => m_total_distance >= travelled)
    BY DEF WayAccountedFor, O!WayAccountedFor, O!ExactWhenPaired, O!NoneMissed
  <2> QED BY DEF OdometryInv, Counting
<1>2. AppSpec => []OdometryInv
  BY OdometryInitInv, OdometryStepInv, PTL DEF AppSpec
<1>3. FairAppSpec => AppSpec
  BY PTL DEF FairAppSpec
<1> QED BY <1>1, <1>2, <1>3, PTL

------------------------------------------------------------------------------
(* The schedule of sSensor.                                                *)

(* The rates of the mission are ones SetAppFreq does not hold on to.       *)
RatesAllowed == \A r \in {Nominal} \cup {l.rate : l \in Lines} : r = 0 \/ r >= ShortestPeriod

Sorted ==
  \A i, j \in DOMAIN m_changes : i < j => m_changes[i].finish < m_changes[j].start

Windows ==
  /\ \A i \in DOMAIN m_changes : m_changes[i].start <= m_changes[i].finish
  /\ Disjoint => Sorted
  /\ RatesAllowed => \A i \in DOMAIN m_changes : m_changes[i].rate >= ShortestPeriod

(* Only sSensor gets to its main loop, the one of the default mode.        *)
Kinds ==
  /\ phase \in {"config", "running"}
  /\ app # "sSensor" => phase = "config"
  /\ app = "sSensor" =>
       connected = TRUE /\ m_IterationMode = REGULAR_ITERATE_AND_MAIL /\ pausing = FALSE
  /\ phase = "config" =>
       /\ event_index = 1 /\ now = 0 /\ ranAt = -1 /\ applied = {}
       /\ app = "sSensor" => m_dfFreq = Nominal /\ age = 0

Progress ==
  /\ now \in Nat /\ ranAt \in Int /\ ranAt <= now /\ retired \in BOOLEAN
  /\ event_index <= Len(m_changes) + 1
  /\ \A i \in DOMAIN m_changes : i < event_index => m_changes[i].finish < ranAt

(* The rate is the nominal one or that of the change of event_index.       *)
Following ==
  /\ m_dfFreq = 0 \/ m_dfFreq >= ShortestPeriod
  /\ m_dfFreq # Nominal =>
       Scheduled /\ m_dfFreq = Current.rate /\ Covers(Current, ranAt)
  /\ Disjoint /\ ~retired =>
       /\ \A i \in DOMAIN m_changes : Covers(m_changes[i], ranAt) => m_dfFreq = m_changes[i].rate
       /\ (\A i \in DOMAIN m_changes : ~Covers(m_changes[i], ranAt)) => m_dfFreq = Nominal

(* The last run of Iterate, or the beginning.                              *)
Since == IF ranAt < 0 THEN 0 ELSE ranAt

(* Which changes have been applied, and by when the next one is looked at. *)
Punctual ==
  /\ m_dfFreq \in Waits /\ now - Since <= age
  /\ applied \subseteq 1 .. event_index /\ 1 .. event_index - 1 \subseteq applied
  /\ event_index \in applied => Scheduled /\ Covers(Current, ranAt)
  /\ Scheduled /\ event_index \notin applied =>
       \E w \in Waits : Since <= Current.start + w + Late - 1

SensorInv ==
  /\ Windows /\ Kinds /\ Progress
  /\ phase = "running" /\ RatesAllowed => Following
  /\ phase = "running" /\ Disjoint /\ Ample => Punctual

(* A schedule that is not changed keeps what is only about it.             *)
LEMMA SameSchedule ==
  ASSUME m_changes' = m_changes
  PROVE  /\ Windows => Windows'
         /\ Disjoint' <=> Disjoint
         /\ Ample' <=> Ample
         /\ Waits' = Waits
BY DEF Windows, Disjoint, Sorted, Ample, Waits

LEMMA ChangeTypes ==
  ASSUME Rates, NEW i \in DOMAIN m_changes
  PROVE  /\ m_changes[i].start \in Nat /\ m_changes[i].finish \in Nat
         /\ m_changes[i].rate \in Nat /\ i \in 1 .. Len(m_changes)
<1>1. i \in 1 .. Len(m_changes) /\ Len(m_changes) \in Nat
  BY DEF Rates
<1>2. m_changes[i] \in [start : Nat, finish : Nat, rate : Nat]
  BY <1>1, ElementOfSeq DEF Rates
<1> QED BY <1>1, <1>2

(* An insertion: the windows stay sorted as long as none overlap.          *)
LEMMA WindowsStep ==
  ASSUME Rates, Windows, NEW l \in Lines, handleChange(l)
  PROVE  Windows'
<1> DEFINE d == Change(l)
           n == Len(m_changes)
           k == Place(d)
           moved(i) == IF i < k THEN i ELSE i + 1
<1>1. CASE m_changes' = m_changes
  BY <1>1, SameSchedule
<1>2. CASE l.start <= l.finish /\ m_changes' = Insert(d)
  <2>1. /\ d \in [start : Nat, finish : Nat, rate : Nat]
        /\ d.start = l.start /\ d.finish = l.finish
        /\ d.rate = IF l.rate = 0 THEN Never ELSE l.rate
    BY Constants, SensorAssumption DEF Change
  <2>2. d.start \in Nat /\ d.finish \in Nat /\ d.rate \in Nat /\ d.start <= d.finish
    BY <1>2, <2>1
  <2>3. RatesAllowed => d.rate >= ShortestPeriod
    <3>1. RatesAllowed => l.rate = 0 \/ l.rate >= ShortestPeriod
      BY DEF RatesAllowed
    <3>2. Never >= ShortestPeriod
      BY MOOSAppLoopAssumption DEF Never
    <3> QED BY <2>1, <3>1, <3>2
  <2> HIDE DEF d
  <2>4. n \in Nat /\ DOMAIN m_changes = 1 .. n
    BY DEF Rates
  <2>5. /\ k \in 1 .. n + 1
        /\ k <= n => m_changes[k].start > d.finish
        /\ \A i \in 1 .. k - 1 : m_changes[i].start <= d.finish
    BY <2>2, PlaceInRange DEF Rates
  <2> HIDE DEF k, n
  <2>6. Insert(d) = [i \in 1 .. n + 1 |-> IF i < k THEN m_changes[i]
                                          ELSE IF i = k THEN d ELSE m_changes[i - 1]]
    BY DEF Insert, k, n
  <2> DEFINE new == m_changes'
  <2>7. /\ DOMAIN new = 1 .. n + 1 /\ new[k] = d
        /\ \A i \in 1 .. n : moved(i) \in 1 .. n + 1 /\ moved(i) # k /\ new[moved(i)] = m_changes[i]
        /\ \A j \in 1 .. n + 1 : j # k => \E i \in 1 .. n : j = moved(i)
        /\ \A i, j \in 1 .. n : (i < j <=> moved(i) < moved(j)) /\ (i # j => moved(i) # moved(j))
    <3>1. DOMAIN new = 1 .. n + 1 /\ new[k] = d
      BY <1>2, <2>4, <2>5, <2>6
    <3>2. ASSUME NEW i \in 1 .. n
          PROVE  moved(i) \in 1 .. n + 1 /\ moved(i) # k /\ new[moved(i)] = m_changes[i]
      <4>1. CASE i < k
        BY <1>2, <2>4, <2>5, <2>6, <4>1
      <4>2. CASE ~(i < k)
        <5>1. moved(i) = i + 1 /\ i + 1 \in 1 .. n + 1 /\ ~(i + 1 < k) /\ i + 1 # k /\ (i + 1) - 1 = i
          BY <2>4, <2>5, <4>2
        <5>2. new[i + 1] = m_changes[(i + 1) - 1]
          BY <1>2, <2>6, <5>1
        <5> QED BY <5>1, <5>2
      <4> QED BY <4>1, <4>2
    <3>3. ASSUME NEW j \in 1 .. n + 1, j # k PROVE \E i \in 1 .. n : j = moved(i)
      <4>1. CASE j < k
        <5>1. j \in 1 .. n /\ j = moved(j)
          BY <2>4, <2>5, <4>1
        <5> QED BY <5>1
      <4>2. CASE j > k
        <5>1. j - 1 \in 1 .. n /\ j = moved(j - 1)
          BY <2>4, <2>5, <4>2
        <5> QED BY <5>1
      <4> QED BY <2>4, <2>5, <3>3, <4>1, <4>2
    <3>4. ASSUME NEW i \in 1 .. n, NEW j \in 1 .. n
          PROVE  (i < j <=> moved(i) < moved(j)) /\ (i # j => moved(i) # moved(j))
      BY <2>4, <2>5
    <3> QED BY <3>1, <3>2, <3>3, <3>4
  <2> HIDE DEF new, moved
  <2>8. ASSUME NEW j \in 1 .. n + 1
        PROVE  /\ new[j].start <= new[j].finish
               /\ RatesAllowed => new[j].rate >= ShortestPeriod
    <3>1. CASE j = k
      BY <2>2, <2>3, <2>7, <3>1
    <3>2. CASE j # k
      <4>1. PICK i \in 1 .. n : j = moved(i)
        BY <2>7, <3>2
      <4>2. new[j] = m_changes[i]
        BY <2>7, <4>1
      <4> QED BY <2>4, <4>2 DEF Windows
    <3> QED BY <3>1, <3>2
  <2>9. ASSUME Disjoint' PROVE Sorted'
    <3>1. \A i, j \in 1 .. n + 1 : i # j =>
            new[i].finish < new[j].start \/ new[j].finish < new[i].start
      BY <2>7, <2>9 DEF Disjoint, new
    <3>2. Disjoint
      <4> SUFFICES ASSUME NEW i \in 1 .. n, NEW j \in 1 .. n, i # j
                   PROVE  \/ m_changes[i].finish < m_changes[j].start
                          \/ m_changes[j].finish < m_changes[i].start
        BY <2>4 DEF Disjoint
      <4> QED BY <2>7, <3>1
    <3>3. Sorted
      BY <3>2 DEF Windows
    <3>4. ASSUME NEW i \in 1 .. n + 1, NEW j \in 1 .. n + 1, i < j
          PROVE  new[i].finish < new[j].start
      <4>1. CASE i # k /\ j # k
        <5>1. PICK a \in 1 .. n : i = moved(a)
          BY <2>7, <4>1
        <5>2. PICK b \in 1 .. n : j = moved(b)
          BY <2>7, <4>1
        <5>3. a < b /\ new[i] = m_changes[a] /\ new[j] = m_changes[b]
          BY <2>7, <3>4, <5>1, <5>2
        <5> QED BY <2>4, <3>3, <5>3 DEF Sorted
      <4>2. CASE j = k
        <5>1. i \in 1 .. n /\ i \in 1 .. k - 1 /\ i = moved(i)
          BY <2>4, <2>5, <3>4, <4>2 DEF moved
        <5>2. new[i] = m_changes[i] /\ new[j] = d
          BY <2>7, <4>2, <5>1
        <5>3. m_changes[i].start <= d.finish /\ m_changes[i].start \in Nat
          BY <2>4, <2>5, <5>1, ChangeTypes
        <5>4. i # j
          BY <3>4
        <5> QED BY <2>2, <3>1, <5>2, <5>3, <5>4
      <4>3. CASE i = k
        <5>1. j - 1 \in 1 .. n /\ k \in 1 .. n /\ k <= j - 1 /\ j = moved(j - 1)
          BY <2>4, <2>5, <3>4, <4>3 DEF moved
        <5>2. new[j] = m_changes[j - 1] /\ new[i] = d
          BY <2>7, <4>3, <5>1
        <5>3. m_changes[k].start > d.finish
          BY <2>4, <2>5, <5>1
        <5>4. m_changes[k].start <= m_changes[j - 1].start
          <6>1. CASE k = j - 1
            BY <2>4, <5>1, <6>1, ChangeTypes
          <6>2. CASE k # j - 1
            <7>1. k < j - 1
              BY <2>4, <2>5, <5>1, <6>2
            <7>2. m_changes[k].finish < m_changes[j - 1].start
              BY <2>4, <3>3, <5>1, <7>1 DEF Sorted
            <7>3. m_changes[k].start <= m_changes[k].finish
              BY <2>4, <5>1 DEF Windows
            <7>4. m_changes[k].start \in Nat /\ m_changes[k].finish \in Nat
                  /\ m_changes[j - 1].start \in Nat
              BY <2>4, <5>1, ChangeTypes
            <7> QED BY <7>2, <7>3, <7>4
          <6> QED BY <6>1, <6>2
        <5>5. m_changes[k].start \in Nat /\ m_changes[j - 1].start \in Nat
          BY <2>4, <5>1, ChangeTypes
        <5> QED BY <2>2, <5>2, <5>3, <5>4, <5>5
      <4> QED BY <4>1, <4>2, <4>3
    <3> QED BY <2>7, <3>4 DEF Sorted, new
  <2> QED BY <2>7, <2>8, <2>9 DEF Windows, new
<1>3. l.start \in Nat /\ l.finish \in Nat
  BY SensorAssumption
<1> QED BY <1>1, <1>2, <1>3 DEF handleChange

(* A run of sSensor on time is one of Iterate, with the rate asked for.    *)
LEMMA RunSets ==
  ASSUME Kinds, app = "sSensor", app' = app, phase = "running", phase' = phase,
         NEW f, NEW max, RunOnTime(f, max)
  PROVE  m_dfFreq' = f /\ age' = 0 /\ Kinds'
BY DEF Kinds, RunOnTime, DoRunWork, commVars

(* A rate that is allowed does not make SetAppFreq hold on to it.          *)
LEMMA RateTaken ==
  ASSUME LoopTypes, Following, NEW r
  PROVE  SetAppFreq(r) = r
<1>1. m_dfFreq \in Nat /\ ShortestPeriod \in Nat
  BY MOOSAppLoopAssumption DEF LoopTypes
<1>2. ~(m_dfFreq # 0 /\ m_dfFreq < ShortestPeriod)
  BY <1>1 DEF Following
<1> QED BY <1>2 DEF SetAppFreq

(* What the three branches of Iterate have in common.                      *)
LEMMA IterateTypes ==
  ASSUME AppInv, SensorInv, phase = "running"
  PROVE  /\ now \in Nat /\ ranAt \in Int /\ ranAt <= now /\ event_index \in Nat \ {0}
         /\ DOMAIN m_changes = 1 .. Len(m_changes) /\ Len(m_changes) \in Nat
         /\ Scheduled => /\ event_index \in DOMAIN m_changes
                         /\ Current.start \in Nat /\ Current.finish \in Nat
                         /\ Current.rate \in Nat /\ Current.start <= Current.finish
<1>1. now \in Nat /\ ranAt \in Int /\ ranAt <= now /\ event_index \in Nat \ {0}
  BY DEF SensorInv, Progress, AppInv, Rates
<1>2. DOMAIN m_changes = 1 .. Len(m_changes) /\ Len(m_changes) \in Nat
  BY DEF AppInv, Rates
<1>3. ASSUME Scheduled
      PROVE  /\ event_index \in DOMAIN m_changes
             /\ Current.start \in Nat /\ Current.finish \in Nat
             /\ Current.rate \in Nat /\ Current.start <= Current.finish
  <2>1. event_index \in DOMAIN m_changes
    BY <1>1, <1>2, <1>3 DEF Scheduled
  <2>2. m_changes[event_index].start <= m_changes[event_index].finish
    BY <2>1 DEF SensorInv, Windows
  <2> QED BY <2>1, <2>2, ChangeTypes DEF AppInv, Current
<1> QED BY <1>1, <1>2, <1>3

(* At most one change of a schedule without overlaps covers a time.        *)
LEMMA OneCovers ==
  ASSUME Rates, Disjoint, NEW i \in DOMAIN m_changes, NEW j \in DOMAIN m_changes, NEW t \in Int,
         Covers(m_changes[i], t), Covers(m_changes[j], t)
  PROVE  i = j
<1>1. /\ m_changes[i].start \in Nat /\ m_changes[i].finish \in Nat
      /\ m_changes[j].start \in Nat /\ m_changes[j].finish \in Nat
  BY ChangeTypes
<1> QED BY <1>1 DEF Disjoint, Covers

(* The order in which the changes are looked at.                           *)
LEMMA ProgressStep ==
  ASSUME AppInv, SensorInv, phase = "running", Iterate
  PROVE  Progress'
<1> USE IterateTypes
<1>1. m_changes' = m_changes /\ now' = now /\ ranAt' = now
  BY DEF Iterate, schedule
<1>2. ASSUME NEW i \in DOMAIN m_changes, i < event_index PROVE m_changes[i].finish < now
  <2>1. m_changes[i].finish < ranAt
    BY <1>2 DEF SensorInv, Progress
  <2> QED BY <2>1, ChangeTypes DEF AppInv
<1>3. event_index <= Len(m_changes) + 1
  BY DEF SensorInv, Progress
<1>4. CASE event_index' = event_index /\ retired' \in BOOLEAN
  BY <1>1, <1>2, <1>3, <1>4 DEF Progress
<1>5. CASE Recovered
  <2>1. Scheduled /\ now > Current.finish /\ event_index' = event_index + 1 /\ retired' = TRUE
    BY <1>5 DEF Recovered
  <2>2. ASSUME NEW i \in DOMAIN m_changes, i < event_index + 1
        PROVE  m_changes[i].finish < now
    <3>1. CASE i < event_index
      BY <1>2, <3>1
    <3>2. CASE i = event_index
      BY <2>1, <3>2 DEF Current
    <3> QED BY <2>2, <3>1, <3>2
  <2>3. event_index' <= Len(m_changes') + 1
    BY <1>1, <2>1 DEF Scheduled
  <2> QED BY <1>1, <2>1, <2>2, <2>3 DEF Progress
<1> QED BY <1>4, <1>5 DEF Iterate, InForce, Undisturbed

(* The rates Iterate sets, when the mission's rates are allowed.           *)
LEMMA FollowingStep ==
  ASSUME AppInv, SensorInv, RatesAllowed, app = "sSensor", app' = app,
         phase = "running", Iterate
  PROVE  Following'
<1> USE IterateTypes
<1>1. /\ m_changes' = m_changes /\ now' = now /\ ranAt' = now /\ phase' = phase
      /\ Disjoint' <=> Disjoint
  BY SameSchedule DEF Iterate, schedule
<1>2. Following /\ LoopTypes /\ Kinds
  BY DEF SensorInv, AppInv, LoopInv
<1>3. /\ Nominal = 0 \/ Nominal >= ShortestPeriod
      /\ \A i \in DOMAIN m_changes : m_changes[i].rate >= ShortestPeriod
  BY DEF RatesAllowed, SensorInv, Windows
<1>4. CASE InForce
  <2>1. /\ Scheduled /\ Covers(Current, now) /\ retired' = FALSE /\ event_index' = event_index
        /\ m_dfFreq' = Current.rate
    BY <1>1, <1>2, <1>4, RunSets, RateTaken DEF InForce, SetRate, Covers
  <2>2. Scheduled' /\ Current' = Current
    BY <1>1, <2>1 DEF Scheduled, Current
  <2>3. ASSUME Disjoint, NEW i \in DOMAIN m_changes, Covers(m_changes[i], now)
        PROVE  i = event_index
    BY <2>1, <2>3, OneCovers DEF AppInv, Current
  <2>4. m_dfFreq' >= ShortestPeriod
    BY <1>3, <2>1 DEF Current
  <2> QED BY <1>1, <2>1, <2>2, <2>3, <2>4 DEF Following, Covers, Current
<1>5. CASE Recovered
  <2>1. m_dfFreq' = Nominal /\ retired' = TRUE
    BY <1>1, <1>2, <1>5, RunSets, RateTaken DEF Recovered, SetRate
  <2> QED BY <1>3, <2>1 DEF Following
<1>6. CASE Undisturbed
  <2>1. /\ m_dfFreq' = m_dfFreq /\ event_index' = event_index /\ retired' = FALSE
        /\ Scheduled => now < Current.start
    BY <1>1, <1>2, <1>6, RunSets DEF Undisturbed
  <2>2. m_dfFreq = Nominal
    BY <1>2, <2>1 DEF Following, Covers
  <2>3. ASSUME Disjoint, NEW i \in DOMAIN m_changes, Covers(m_changes[i], now)
        PROVE  FALSE
    <3>1. m_changes[i].start \in Nat /\ m_changes[i].finish \in Nat /\ i \in 1 .. Len(m_changes)
      BY ChangeTypes DEF AppInv
    <3>2. CASE i < event_index
      <4>1. m_changes[i].finish < ranAt
        BY <3>2 DEF SensorInv, Progress
      <4> QED BY <2>3, <3>1, <4>1 DEF Covers
    <3>3. CASE i >= event_index
      <4>1. Scheduled
        BY <3>1, <3>3 DEF Scheduled
      <4>2. i # event_index
        BY <2>1, <2>3, <3>1, <4>1 DEF Covers, Current
      <4>3. Current.finish < m_changes[i].start
        BY <2>3, <3>1, <3>3, <4>1, <4>2 DEF SensorInv, Windows, Sorted, Current
      <4> QED BY <2>1, <2>3, <3>1, <4>1, <4>3 DEF Covers
    <3> QED BY <3>1, <3>2, <3>3
  <2> QED BY <1>1, <1>3, <2>1, <2>2, <2>3 DEF Following
<1> QED BY <1>4, <1>5, <1>6 DEF Iterate

(* A run of Iterate comes no later than a wait after the one before.       *)
LEMMA PunctualWait ==
  ASSUME AppInv, SensorInv, app = "sSensor", phase = "running", Disjoint, Ample
  PROVE  /\ m_dfFreq \in Waits /\ m_dfFreq \in Nat /\ nAppPeriod_ms = m_dfFreq
         /\ now - Since <= Late + m_dfFreq /\ now \in Nat /\ Since \in Nat
<1>1. Punctual /\ m_dfFreq \in Waits
  BY DEF SensorInv, Punctual
<1>2. m_dfFreq \in Nat /\ age \in 0 .. Never /\ nAppPeriod_ms \in AppPeriods(m_dfFreq)
  BY DEF AppInv, LoopInv, LoopTypes
<1>3. m_dfFreq <= IntMax
  BY <1>1, <1>2, MOOSAppLoopAssumption DEF Ample, Never
<1>4. nAppPeriod_ms = m_dfFreq
  BY <1>2, <1>3 DEF AppPeriods
<1>5. age <= Late + nAppPeriod_ms
  BY DEF AppInv, LoopInv, Clocks, SensorInv, Kinds
<1>6. now \in Nat /\ Since \in Nat
  BY DEF SensorInv, Progress, Since
<1> QED BY <1>1, <1>2, <1>4, <1>5, <1>6, Constants DEF Punctual

(* SetAppFreq gives one of the rates there are to choose from.             *)
LEMMA RateAmongWaits ==
  ASSUME m_dfFreq \in Waits, NEW r \in Waits
  PROVE  SetAppFreq(r) \in Waits
BY DEF SetAppFreq

LEMMA WaitTypes == ASSUME Rates, NEW w \in Waits PROVE w \in Nat
BY Constants, ChangeTypes DEF Waits

(* A change not looked at in time would be shorter than two waits.         *)
LEMMA AppliedInTime ==
  ASSUME AppInv, SensorInv, app = "sSensor", phase = "running", Disjoint, Ample,
         Scheduled, now > Current.finish
  PROVE  event_index \in applied
<1> SUFFICES ASSUME event_index \notin applied PROVE FALSE
  OBVIOUS
<1> USE IterateTypes
<1>1. PICK w \in Waits : Since <= Current.start + w + Late - 1
  BY DEF SensorInv, Punctual
<1>2. /\ m_dfFreq \in Waits /\ m_dfFreq \in Nat
      /\ now - Since <= Late + m_dfFreq /\ now \in Nat /\ Since \in Nat
  BY PunctualWait
<1>3. w \in Nat /\ Late \in Nat
  BY <1>1, WaitTypes, Constants DEF AppInv
<1>4. /\ Current.finish - Current.start >= 2 * (w + Late) - 1
      /\ Current.finish - Current.start >= 2 * (m_dfFreq + Late) - 1
  BY <1>1, <1>2 DEF Ample, Current
<1> QED BY <1>1, <1>2, <1>3, <1>4

(* Which changes a run of Iterate leaves applied, and what is next.        *)
LEMMA PunctualStep ==
  ASSUME AppInv, SensorInv, app = "sSensor", app' = app,
         phase = "running", Iterate, Disjoint, Ample
  PROVE  Punctual'
<1> USE IterateTypes
<1>1. /\ m_changes' = m_changes /\ now' = now /\ ranAt' = now /\ phase' = phase
      /\ Waits' = Waits /\ Since' = now
  BY SameSchedule DEF Iterate, schedule, Since
<1>2. /\ m_dfFreq \in Waits /\ m_dfFreq \in Nat
      /\ now - Since <= Late + m_dfFreq /\ now \in Nat /\ Since \in Nat
  BY PunctualWait
<1>3. Punctual /\ Kinds /\ Late \in Nat
  BY Constants DEF SensorInv
<1>4. Nominal \in Waits /\ Nominal \in Nat /\ (Scheduled => Current.rate \in Waits)
  BY Constants DEF Waits, Current
<1>5. CASE InForce
  <2>1. /\ Scheduled /\ Covers(Current, now) /\ event_index' = event_index
        /\ applied' = applied \cup {event_index}
        /\ m_dfFreq' = SetAppFreq(Current.rate) /\ age' = 0
    BY <1>1, <1>3, <1>5, RunSets DEF InForce, SetRate, Covers
  <2>2. Scheduled' /\ Current' = Current
    BY <1>1, <2>1 DEF Scheduled, Current
  <2>3. m_dfFreq' \in Waits
    BY <1>2, <1>4, <2>1, RateAmongWaits
  <2>4. now' - Since' <= age'
    BY <1>1, <2>1
  <2>5. /\ applied' \subseteq 1 .. event_index' /\ 1 .. event_index' - 1 \subseteq applied'
        /\ event_index' \in applied'
    <3>1. applied \subseteq 1 .. event_index /\ 1 .. event_index - 1 \subseteq applied
      BY <1>3 DEF Punctual
    <3>2. event_index \in 1 .. event_index
      OBVIOUS
    <3> QED BY <2>1, <3>1, <3>2, Zenon
  <2>6. Covers(Current, ranAt)'
    BY <1>1, <2>1, <2>2 DEF Covers
  <2> QED BY <1>1, <2>2, <2>3, <2>4, <2>5, <2>6 DEF Punctual
<1>6. CASE Recovered
  <2>1. /\ Scheduled /\ now > Current.finish /\ event_index' = event_index + 1
        /\ applied' = applied /\ m_dfFreq' = SetAppFreq(Nominal) /\ age' = 0
    BY <1>1, <1>3, <1>6, RunSets DEF Recovered, SetRate
  <2>2. event_index \in applied
    BY <2>1, AppliedInTime
  <2>3. m_dfFreq' \in Waits
    BY <1>2, <1>4, <2>1, RateAmongWaits
  <2>4. now' - Since' <= age'
    BY <1>1, <2>1
  <2>5. /\ applied' \subseteq 1 .. event_index' /\ 1 .. event_index' - 1 \subseteq applied'
        /\ event_index' \notin applied'
    BY <1>3, <2>1, <2>2 DEF Punctual
  <2>6. ASSUME Scheduled' PROVE Since' <= (Current.start)' + m_dfFreq + Late - 1
    <3>1. /\ event_index + 1 \in DOMAIN m_changes /\ (Current.start)' = m_changes[event_index + 1].start
          /\ m_changes[event_index + 1].start \in Nat
      <4>1. event_index + 1 \in DOMAIN m_changes
        BY <1>1, <2>1, <2>6 DEF Scheduled
      <4>2. (Current.start)' = m_changes[event_index + 1].start
        BY <1>1, <2>1 DEF Current
      <4> QED BY <4>1, <4>2, ChangeTypes DEF AppInv
    <3>2. Current.finish < m_changes[event_index + 1].start
      BY <2>1, <3>1 DEF SensorInv, Windows, Sorted, Current
    <3>3. Since <= Current.finish
      BY <1>3, <2>1, <2>2 DEF Punctual, Covers, Since
    <3> QED BY <1>1, <1>2, <1>3, <2>1, <3>1, <3>2, <3>3
  <2>7. Scheduled' => (\E w \in Waits : Since <= Current.start + w + Late - 1)'
    BY <1>1, <1>2, <2>6
  <2> QED BY <1>1, <2>3, <2>4, <2>5, <2>7 DEF Punctual
<1>7. CASE Undisturbed
  <2>1. /\ event_index' = event_index /\ applied' = applied
        /\ Scheduled => now < Current.start
        /\ m_dfFreq' = m_dfFreq /\ age' = 0
    BY <1>1, <1>3, <1>7, RunSets DEF Undisturbed
  <2>2. Scheduled' = Scheduled /\ Current' = Current
    BY <1>1, <2>1 DEF Scheduled, Current
  <2>3. event_index \notin applied
    BY <1>3, <2>1 DEF Punctual, Covers
  <2>4. now' - Since' <= age'
    BY <1>1, <2>1
  <2>5. Scheduled => Since' <= Current.start + Nominal + Late - 1
    BY <1>1, <1>3, <1>4, <2>1, MOOSAppLoopAssumption
  <2> QED BY <1>1, <1>2, <1>3, <1>4, <2>1, <2>2, <2>3, <2>4, <2>5 DEF Punctual
<1> QED BY <1>5, <1>6, <1>7 DEF Iterate

(* The steps of sSensor other than Iterate.                                *)
LEMMA StartUpStep ==
  ASSUME AppInv, SensorInv, app = "sSensor", app' = app, StartUpDone
  PROVE  SensorInv'
<1>1. /\ m_changes' = m_changes /\ event_index' = event_index /\ now' = now /\ ranAt' = ranAt
      /\ retired' = retired /\ applied' = applied /\ phase' = "running" /\ phase = "config"
      /\ m_dfFreq' = m_dfFreq /\ age' = age /\ Waits' = Waits /\ Windows' /\ loopVars' = loopVars
  BY SameSchedule DEF StartUpDone, SensorInv, loopVars
<1>2. /\ event_index = 1 /\ now = 0 /\ ranAt = -1 /\ applied = {}
      /\ m_dfFreq = Nominal /\ age = 0 /\ Since = 0
  BY <1>1 DEF SensorInv, Kinds, Since
<1>3. ASSUME NEW i \in DOMAIN m_changes
      PROVE  m_changes[i].start \in Nat /\ i \in Nat /\ i >= 1 /\ ~Covers(m_changes[i], ranAt)
  BY <1>2, <1>3, ChangeTypes DEF AppInv, Covers
<1>4. Kinds' /\ Progress'
  BY <1>1, <1>2 DEF SensorInv, Kinds, Progress, loopVars
<1>5. ASSUME RatesAllowed PROVE Following'
  <2>1. Nominal = 0 \/ Nominal >= ShortestPeriod
    BY <1>5 DEF RatesAllowed
  <2>2. \A i \in DOMAIN m_changes : ~Covers(m_changes[i], ranAt)
    BY <1>3
  <2> QED BY <1>1, <1>2, <2>1, <2>2 DEF Following, Covers
<1>6. Punctual'
  <2>1. Since' = 0 /\ Nominal \in Waits /\ Nominal \in Nat /\ Late \in Nat \ {0}
    BY <1>1, <1>2, Constants, MOOSAppLoopAssumption DEF Since, Waits
  <2>2. ASSUME Scheduled' PROVE (Current.start)' \in Nat
    <3>1. 1 \in DOMAIN m_changes
      BY <1>1, <1>2, <2>2 DEF Scheduled, AppInv, Rates
    <3> QED BY <1>1, <1>2, <1>3, <3>1 DEF Current
  <2>3. Scheduled' => Since' <= (Current.start)' + Nominal + Late - 1
    BY <2>1, <2>2
  <2>4. Scheduled' => (\E w \in Waits : Since <= Current.start + w + Late - 1)'
    BY <1>1, <2>1, <2>3
  <2>5. m_dfFreq' \in Waits' /\ now' - Since' <= age'
    BY <1>1, <1>2, <2>1
  <2>6. /\ applied' \subseteq 1 .. event_index' /\ 1 .. event_index' - 1 \subseteq applied'
        /\ event_index' \notin applied'
    BY <1>1, <1>2
  <2> QED BY <2>4, <2>5, <2>6 DEF Punctual
<1> QED BY <1>1, <1>4, <1>5, <1>6 DEF SensorInv

LEMMA ElapseStep ==
  ASSUME AppInv, SensorInv, app = "sSensor", app' = app, Elapse
  PROVE  SensorInv'
<1>1. /\ m_changes' = m_changes /\ event_index' = event_index /\ ranAt' = ranAt
      /\ retired' = retired /\ applied' = applied /\ phase' = phase /\ phase = "running"
      /\ m_dfFreq' = m_dfFreq /\ Waits' = Waits /\ Windows' /\ (Disjoint' <=> Disjoint)
      /\ (Ample' <=> Ample)
      /\ now' \in {now, now + 1} /\ Since' = Since
  BY SameSchedule DEF Elapse, Tick, schedule, commVars, SensorInv, Since
<1>2. Kinds' /\ Progress'
  <2>1. /\ connected' = connected /\ m_IterationMode' = m_IterationMode /\ pausing' = pausing
        /\ Kinds /\ Progress
    BY DEF Elapse, Tick, commVars, SensorInv
  <2>2. Kinds'
    BY <1>1, <2>1 DEF Kinds
  <2>3. Progress'
    BY <1>1, <2>1 DEF Progress
  <2> QED BY <2>2, <2>3
<1>3. Following => Following'
  BY <1>1 DEF Following, Covers, Scheduled, Current
<1>4. ASSUME Disjoint, Ample PROVE Punctual'
  <2>1. m_dfFreq \in Waits /\ m_dfFreq \in Nat /\ nAppPeriod_ms = m_dfFreq
        /\ now \in Nat /\ Since \in Nat
    BY <1>1, <1>4, PunctualWait
  <2>2. age' = age + 1 /\ age \in Nat
    <3>1. age < Late + nAppPeriod_ms /\ age' = Older(age)
      BY DEF Elapse, Tick, SensorInv, Kinds
    <3>2. m_dfFreq + Late <= Never
      BY <1>4, <2>1 DEF Ample
    <3>3. age \in Nat /\ Late \in Nat /\ Never \in Nat
      BY Constants DEF AppInv, LoopInv, LoopTypes
    <3>4. age < Never
      BY <2>1, <3>1, <3>2, <3>3
    <3> QED BY <3>1, <3>3, <3>4 DEF Older
  <2>3. Punctual
    BY <1>1, <1>4 DEF SensorInv
  <2>4. now' - Since' <= age'
    <3>1. now - Since <= age
      BY <2>3 DEF Punctual
    <3>2. (now' = now \/ now' = now + 1) /\ Since' = Since
      BY <1>1
    <3> QED BY <2>1, <2>2, <3>1, <3>2
  <2>5. /\ Scheduled' = Scheduled /\ (Current.start)' = Current.start
        /\ (Covers(Current, ranAt))' = Covers(Current, ranAt)
    BY <1>1 DEF Scheduled, Current, Covers
  <2> QED BY <1>1, <2>3, <2>4, <2>5 DEF Punctual
<1> QED BY <1>1, <1>2, <1>3, <1>4 DEF SensorInv

(* sSensor starts in its invariant, and so does any other application.     *)
LEMMA SensorStarts == AppInit => SensorInv
<1> SUFFICES ASSUME AppInit PROVE SensorInv
  OBVIOUS
<1>1. /\ phase = "config" /\ m_changes = <<>> /\ event_index = 1 /\ now = 0 /\ ranAt = -1
      /\ retired = FALSE /\ applied = {} /\ connected = TRUE /\ pausing = FALSE /\ age = 0
      /\ app = "sSensor" => m_IterationMode = REGULAR_ITERATE_AND_MAIL /\ m_dfFreq = Nominal
  BY DEF AppInit, Init, LoopInit
<1>2. DOMAIN m_changes = {} /\ Len(m_changes) = 0
  BY <1>1, EmptySeq
<1>3. Windows
  BY <1>2 DEF Windows, Sorted
<1>4. Kinds /\ Progress
  <2>1. Kinds
    BY <1>1 DEF Kinds
  <2>2. /\ now \in Nat /\ ranAt \in Int /\ ranAt <= now /\ retired \in BOOLEAN
        /\ event_index <= Len(m_changes) + 1
    <3>1. now \in Nat /\ ranAt \in Int /\ ranAt <= now
      BY <1>1
    <3>2. retired \in BOOLEAN
      BY <1>1
    <3>3. event_index <= Len(m_changes) + 1
      BY <1>1, <1>2
    <3> QED BY <3>1, <3>2, <3>3
  <2>3. Progress
    BY <1>2, <2>2 DEF Progress
  <2> QED BY <2>1, <2>3
<1> QED BY <1>1, <1>3, <1>4 DEF SensorInv

LEMMA SameSensor ==
  ASSUME SensorInv, phase = "config", app' = app, app # "sSensor", UNCHANGED scheduleVars
  PROVE  SensorInv'
<1>1. /\ m_changes' = m_changes /\ event_index' = event_index /\ ranAt' = ranAt
      /\ retired' = retired /\ applied' = applied /\ phase' = phase /\ now' = now
  BY DEF scheduleVars, schedule
<1>2. Windows'
  BY <1>1, SameSchedule DEF SensorInv
<1>3. Kinds'
  BY <1>1 DEF SensorInv, Kinds
<1>4. Progress'
  BY <1>1 DEF SensorInv, Progress
<1> QED BY <1>1, <1>2, <1>3, <1>4 DEF SensorInv

LEMMA StutterSensor == SensorInv /\ UNCHANGED appVars => SensorInv'
<1> SUFFICES ASSUME SensorInv, UNCHANGED appVars PROVE SensorInv'
  OBVIOUS
<1>1. /\ m_changes' = m_changes /\ event_index' = event_index /\ ranAt' = ranAt
      /\ retired' = retired /\ applied' = applied /\ phase' = phase /\ now' = now
      /\ app' = app /\ connected' = connected /\ m_IterationMode' = m_IterationMode
      /\ pausing' = pausing /\ m_dfFreq' = m_dfFreq /\ age' = age
  BY DEF appVars, scheduleVars, schedule, loopVars
<1>2. /\ Windows' /\ (Disjoint' <=> Disjoint) /\ (Ample' <=> Ample) /\ Waits' = Waits
  BY <1>1, SameSchedule DEF SensorInv
<1>3. Kinds' /\ Progress'
  <2>1. Kinds'
    BY <1>1 DEF SensorInv, Kinds
  <2>2. Progress'
    BY <1>1 DEF SensorInv, Progress
  <2> QED BY <2>1, <2>2
<1>4. Following => Following'
  BY <1>1, <1>2 DEF Following, Covers, Scheduled, Current
<1>5. Punctual => Punctual'
  BY <1>1, <1>2 DEF Punctual, Covers, Scheduled, Current, Since
<1> QED BY <1>1, <1>2, <1>3, <1>4, <1>5 DEF SensorInv

(* Every step keeps the invariant.                                         *)
LEMMA SensorStepInv == AppInv /\ SensorInv /\ [AppNext]_appVars => SensorInv'
<1> SUFFICES ASSUME AppInv, SensorInv, [AppNext]_appVars PROVE SensorInv'
  OBVIOUS
<1>1. CASE Next /\ SensorStep
  <2>1. app = "sSensor" /\ app' = app
    BY <1>1 DEF SensorStep, Runs
  <2>2. ASSUME NEW l \in Lines, handleChange(l) PROVE SensorInv'
    <3>1. Windows'
      BY <2>2, WindowsStep DEF AppInv, SensorInv
    <3>2. /\ phase = "config" /\ phase' = phase /\ event_index' = event_index /\ ranAt' = ranAt
          /\ retired' = retired /\ applied' = applied /\ now' = now
          /\ connected' = connected /\ m_IterationMode' = m_IterationMode
          /\ pausing' = pausing /\ m_dfFreq' = m_dfFreq /\ age' = age
      BY <2>2 DEF handleChange, loopVars
    <3>3. Kinds'
      BY <2>1, <3>2 DEF SensorInv, Kinds
    <3>4. Progress'
      <4>1. event_index = 1 /\ now = 0 /\ ranAt = -1
        BY <3>2 DEF SensorInv, Kinds
      <4>2. m_changes' \in Seq([start : Nat, finish : Nat, rate : Nat])
        BY <2>2, SensorKeeps DEF Next, AppInv, Rates
      <4>3. \A i \in DOMAIN m_changes' : i >= 1 /\ i \in Nat
        BY <4>2
      <4>4. Len(m_changes') \in Nat
        BY <4>2
      <4> QED BY <3>2, <4>1, <4>3, <4>4 DEF Progress, SensorInv
    <3> QED BY <3>1, <3>2, <3>3, <3>4 DEF SensorInv
  <2>3. CASE StartUpDone
    BY <2>1, <2>3, StartUpStep
  <2>4. CASE Iterate
    <3>1. /\ phase = "running" /\ phase' = phase /\ m_changes' = m_changes
      BY <2>4 DEF Iterate, schedule
    <3>2. Kinds'
      BY <2>1, <2>4, <3>1, RunSets DEF Iterate, InForce, Recovered, Undisturbed, SetRate, SensorInv
    <3>3. Windows' /\ (Disjoint' <=> Disjoint) /\ (Ample' <=> Ample)
      BY <3>1, SameSchedule DEF SensorInv
    <3> QED BY <2>1, <2>4, <3>1, <3>2, <3>3, ProgressStep, FollowingStep, PunctualStep DEF SensorInv
  <2>5. CASE Elapse
    BY <2>1, <2>5, ElapseStep
  <2> QED BY <1>1, <2>2, <2>3, <2>4, <2>5 DEF Next
<1>2. CASE LoopNext /\ LoopStep
  <2>1. app # "sSensor" /\ phase = "config" /\ app' = app /\ UNCHANGED scheduleVars
    BY <1>2 DEF LoopStep, Runs, SensorInv, Kinds
  <2> QED BY <2>1, SameSensor
<1>3. CASE O!Next /\ OdometryStep
  <2>1. app # "sSensor" /\ phase = "config" /\ app' = app /\ UNCHANGED scheduleVars
    BY <1>3 DEF OdometryStep, Runs, SensorInv, Kinds
  <2> QED BY <2>1, SameSensor
<1>4. CASE StartupNext /\ StartupStep
  <2>1. app # "sSensor" /\ phase = "config" /\ app' = app /\ UNCHANGED scheduleVars
    BY <1>4 DEF StartupStep, Runs, SensorInv, Kinds
  <2> QED BY <2>1, SameSensor
<1>5. CASE UNCHANGED appVars
  BY <1>5, StutterSensor
<1> QED BY <1>1, <1>2, <1>3, <1>4, <1>5 DEF AppNext

(* What the invariant says of the rate in force.                           *)
LEMMA FollowingSuffices ==
  ASSUME AppInv, SensorInv, RatesAllowed
  PROVE  RateFollowsSchedule
<1> SUFFICES ASSUME phase = "running" PROVE RateFollowsSchedule
  BY DEF RateFollowsSchedule, RateIsWanted, NoStaleRate
<1> USE IterateTypes
<1>1. Following
  BY DEF SensorInv
<1>2. ASSUME Disjoint, ~retired PROVE m_dfFreq = Wanted(ranAt)
  <2>1. CASE \E i \in DOMAIN m_changes : Covers(m_changes[i], ranAt)
    <3> DEFINE c == CHOOSE i \in DOMAIN m_changes : Covers(m_changes[i], ranAt)
    <3>1. c \in DOMAIN m_changes /\ Covers(m_changes[c], ranAt)
      BY <2>1
    <3>2. Wanted(ranAt) = m_changes[c].rate
      BY <2>1 DEF Wanted
    <3> HIDE DEF c
    <3> QED BY <1>1, <1>2, <3>1, <3>2 DEF Following
  <2>2. CASE ~(\E i \in DOMAIN m_changes : Covers(m_changes[i], ranAt))
    <3>1. Wanted(ranAt) = Nominal
      BY <2>2 DEF Wanted
    <3> QED BY <1>1, <1>2, <2>2, <3>1 DEF Following
  <2> QED BY <2>1, <2>2
<1>3. ASSUME m_dfFreq # Nominal
      PROVE  \E i \in DOMAIN m_changes : Covers(m_changes[i], ranAt) /\ m_changes[i].rate = m_dfFreq
  <2>1. /\ Scheduled /\ m_dfFreq = m_changes[event_index].rate
        /\ Covers(m_changes[event_index], ranAt)
    BY <1>1, <1>3 DEF Following, Current
  <2>2. event_index \in DOMAIN m_changes
    BY <2>1
  <2> QED BY <2>1, <2>2
<1> QED BY <1>2, <1>3 DEF RateFollowsSchedule, RateIsWanted, NoStaleRate

LEMMA PunctualSuffices == AppInv /\ SensorInv => NoChangeMissed
<1> SUFFICES ASSUME AppInv, SensorInv, Disjoint, Ample, NEW i \in DOMAIN m_changes, i < event_index
             PROVE  i \in applied
  BY DEF NoChangeMissed
<1>1. i \in 1 .. Len(m_changes) /\ event_index \in Nat
  BY ChangeTypes DEF AppInv, Rates
<1>2. CASE phase = "running"
  <2>1. 1 .. event_index - 1 \subseteq applied
    BY <1>2 DEF SensorInv, Punctual
  <2> QED BY <1>1, <2>1
<1>3. CASE phase = "config"
  <2>1. event_index = 1
    BY <1>3 DEF SensorInv, Kinds
  <2> QED BY <1>1, <2>1
<1> QED BY <1>2, <1>3 DEF SensorInv, Kinds

LEMMA SensorHolds == AppSpec => [](AppInv /\ SensorInv)
BY AppInitInv, AppStepInv, SensorStarts, SensorStepInv, PTL DEF AppSpec

(* The rate of sSensor is the one its mission file asks for at the time of *)
(* the last Iterate, for every set of CHANGE lines in every order, unless  *)
(* that Iterate retired a change or windows overlap; even then it is never *)
(* that of a change whose time is over.  The rates of the mission must be  *)
(* ones SetAppFreq accepts: a rate above the maximum is never left.        *)
THEOREM FollowsSchedule ==
  ASSUME RatesAllowed
  PROVE  FairAppSpec => []RateFollowsSchedule
<1>1. AppInv /\ SensorInv => RateFollowsSchedule
  BY FollowingSuffices
<1>2. FairAppSpec => AppSpec
  BY PTL DEF FairAppSpec
<1> QED BY <1>1, <1>2, SensorHolds, PTL

(* A change that lasts two of the longest waits is applied before it is    *)
(* retired, in a schedule of such changes without overlaps: neither the    *)
(* Iterate spent on retiring the one before nor a late thread makes the    *)
(* sensor pass over it.                                                    *)
THEOREM EveryChangeApplied == FairAppSpec => []NoChangeMissed
<1>1. FairAppSpec => AppSpec
  BY PTL DEF FairAppSpec
<1> QED BY <1>1, PunctualSuffices, SensorHolds, PTL
===============================================================================
