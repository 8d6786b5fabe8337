----------------------------- MODULE MOOSAppLoop -----------------------------
(***************************************************************************)
(* CMOOSApp's main loop: SleepAsRequired decides when the application      *)
(* thread wakes and whether Iterate runs, DoRunWork fetches the mail and   *)
(* runs it, and the application may change its own rate with SetAppFreq.   *)
(*                                                                         *)
(* Time passes in ticks.  A frequency is kept as its period in ticks, 0    *)
(* standing for a frequency of 0 or less.  A period that does not fit the  *)
(* int of SleepAsRequired is a conversion without a defined result.        *)
(***************************************************************************)
EXTENDS Integers

CONSTANTS
  Modes,           \* the values of ITERATEMODE considered
  AppTicks,        \* the periods of AppTick in the mission file
  Periods,         \* the periods SetAppFreq may be asked for, and AppTicks
  MaxTickPeriods,  \* the periods of MaxAppTick; 0 is no limit
  ShortestPeriod,  \* that of MOOS_MAX_APP_FREQ
  IntMax,          \* the largest period that fits an int
  Late,            \* bound: what scheduling and work may add to a wait
  MaxMail          \* bound: unread messages

ASSUME MOOSAppLoopAssumption ==
  /\ Modes \subseteq 0 .. 2
  /\ AppTicks \subseteq Periods /\ Periods \subseteq Nat
  /\ MaxTickPeriods \subseteq Nat
  /\ IntMax \in Nat /\ ShortestPeriod \in 0 .. IntMax /\ MaxMail \in Nat
  /\ Late \in Nat \ {0}

REGULAR_ITERATE_AND_MAIL == 0
COMMS_DRIVEN_ITERATE_AND_MAIL == 1
REGULAR_ITERATE_AND_COMMS_DRIVEN_MAIL == 2

(* No wait is as long as this; no age is recorded beyond it.               *)
Never == IntMax + 1

VARIABLES
  m_IterationMode, connected,
  m_dfFreq, m_dfMaxAppTick,   \* as periods
  nAppPeriod_ms,              \* what SleepAsRequired makes of m_dfFreq
  age,                        \* ticks since m_dfLastRunTime
  pausing,                    \* in the second wait of COMMS_DRIVEN_ITERATE
  mail, m_pMailEvent,         \* unread messages, and the event they set
  sinceIterate,               \* history: ticks since Iterate last ran ...
  waited,                     \* ... and how many of them in one connection
  tooSoon                     \* history: Iterate ran before its time

commVars == <<m_IterationMode, connected>>
loopVars == <<m_IterationMode, connected, m_dfFreq, m_dfMaxAppTick, nAppPeriod_ms, age,
              pausing, mail, m_pMailEvent, sinceIterate, waited, tooSoon>>
history == <<sinceIterate, waited, tooSoon>>

Older(t) == IF t < Never THEN t + 1 ELSE t

(* static_cast<int>(1000.0 / m_dfFreq): out of range, the result may be    *)
(* negative (no wait) or as good as endless.                               *)
AppPeriods(f) == IF f <= IntMax THEN {f} ELSE {0, Never}

TypeOK ==
  /\ m_IterationMode \in Modes /\ connected \in BOOLEAN
  /\ m_dfFreq \in Nat /\ m_dfMaxAppTick \in Nat
  /\ nAppPeriod_ms \in 0 .. Never
  /\ age \in 0 .. Never /\ sinceIterate \in 0 .. Never /\ waited \in 0 .. Never
  /\ pausing \in BOOLEAN /\ tooSoon \in BOOLEAN
  /\ mail \in 0 .. MaxMail /\ m_pMailEvent \in BOOLEAN

(* The configuration has been read and the first connection made.          *)
LoopInit ==
  /\ m_IterationMode \in Modes /\ connected = TRUE
  /\ m_dfFreq \in AppTicks /\ m_dfMaxAppTick \in MaxTickPeriods
  /\ nAppPeriod_ms \in AppPeriods(m_dfFreq)
  /\ age = 0 /\ pausing = FALSE
  /\ sinceIterate = 0 /\ waited = 0 /\ tooSoon = FALSE
  /\ mail = 0 /\ m_pMailEvent = FALSE

------------------------------------------------------------------------------
(* The test is made on the frequency in force, not on the one asked for.   *)
SetAppFreq(f) == IF m_dfFreq # 0 /\ m_dfFreq < ShortestPeriod THEN m_dfFreq ELSE f

(* The least time between two Iterates: in the mode driven by mail, the    *)
(* shorter of the two periods.                                             *)
Shorter(a, b) == IF a < b THEN a ELSE b
LeastGap ==
  IF m_IterationMode = COMMS_DRIVEN_ITERATE_AND_MAIL
  THEN Shorter(nAppPeriod_ms, m_dfMaxAppTick) ELSE nAppPeriod_ms

(* DoRunWork: the mail is read, and Iterate runs if it is its time and     *)
(* there is a connection; f and max are the rates it leaves.  Then         *)
(* SleepAsRequired is entered again.                                       *)
DoRunWork(bIterateRequired, f, max) ==
  /\ age' = 0 /\ mail' = 0 /\ pausing' = FALSE
  /\ IF bIterateRequired /\ connected
       THEN /\ m_dfFreq' = f /\ m_dfMaxAppTick' = max
            /\ sinceIterate' = 0 /\ waited' = 0
            /\ tooSoon' = (tooSoon \/ sinceIterate < LeastGap)
       ELSE UNCHANGED <<m_dfFreq, m_dfMaxAppTick, history>>
  /\ nAppPeriod_ms' \in AppPeriods(m_dfFreq')
  /\ UNCHANGED commVars

(* No wait is needed or the wait has timed out; an event set at the last   *)
(* moment may or may not have been consumed.                               *)
RunOnTime(f, max) ==
  /\ ~pausing /\ age >= nAppPeriod_ms
  /\ m_pMailEvent' \in {m_pMailEvent, FALSE}
  /\ DoRunWork(TRUE, f, max)

(* Mail that was there before the wait began leaves the event set, because *)
(* || does not evaluate tryWait; otherwise tryWait consumes it.            *)
WokenByMail ==
  /\ m_IterationMode # REGULAR_ITERATE_AND_MAIL
  /\ ~pausing /\ age < nAppPeriod_ms
  /\ mail > 0 \/ m_pMailEvent
  /\ m_pMailEvent' \in IF mail > 0 THEN {m_pMailEvent, FALSE} ELSE {FALSE}

(* The mail is handled at once; Iterate only if it is due by the period    *)
(* before its conversion.                                                  *)
RunForMail(f, max) ==
  /\ WokenByMail /\ m_IterationMode = REGULAR_ITERATE_AND_COMMS_DRIVEN_MAIL
  /\ DoRunWork(age >= m_dfFreq, f, max)

IterateForMail(f, max) ==
  /\ WokenByMail /\ m_IterationMode = COMMS_DRIVEN_ITERATE_AND_MAIL
  /\ age >= m_dfMaxAppTick
  /\ DoRunWork(TRUE, f, max)

(* It would be too soon: MOOSPause until the period of MaxAppTick is over. *)
Pause ==
  /\ WokenByMail /\ m_IterationMode = COMMS_DRIVEN_ITERATE_AND_MAIL
  /\ age < m_dfMaxAppTick
  /\ pausing' = TRUE
  /\ UNCHANGED <<commVars, m_dfFreq, m_dfMaxAppTick, nAppPeriod_ms, age, mail, history>>

(* Mutant: Iterate is skipped after the pause.                             *)
RunAfterPause_MailOnly(f, max) ==
  /\ pausing /\ age >= m_dfMaxAppTick
  /\ UNCHANGED m_pMailEvent
  /\ DoRunWork(FALSE, f, max)

RunAfterPause(f, max) ==
  /\ pausing /\ age >= m_dfMaxAppTick
  /\ UNCHANGED m_pMailEvent
  /\ DoRunWork(TRUE, f, max)

(* The communications thread delivers a message and calls OnMailCallBack.  *)
OnMailCallBack ==
  /\ connected /\ mail < MaxMail
  /\ mail' = mail + 1 /\ m_pMailEvent' = TRUE
  /\ UNCHANGED <<commVars, m_dfFreq, m_dfMaxAppTick, nAppPeriod_ms, age, pausing,
                 history>>

(* The connection is lost, and the unread mail with it; or it is back.     *)
Reconnect ==
  /\ connected' = ~connected /\ mail' = 0
  /\ waited' = 0
  /\ UNCHANGED <<m_IterationMode, m_dfFreq, m_dfMaxAppTick, nAppPeriod_ms, age, pausing,
                 m_pMailEvent, sinceIterate, tooSoon>>

(* Time passes as long as the thread is not late already.                  *)
Tick ==
  /\ age < Late + (IF pausing THEN m_dfMaxAppTick ELSE nAppPeriod_ms)
  /\ age' = Older(age)
  /\ sinceIterate' = Older(sinceIterate)
  /\ waited' = IF connected THEN Older(waited) ELSE 0
  /\ UNCHANGED <<commVars, m_dfFreq, m_dfMaxAppTick, nAppPeriod_ms, pausing, mail,
                 m_pMailEvent, tooSoon>>

(* The application leaves its rate alone or sets both frequencies.         *)
Run(f, max) ==
  RunOnTime(f, max) \/ RunForMail(f, max) \/ IterateForMail(f, max) \/ RunAfterPause(f, max)

AppThread ==
  \/ Run(m_dfFreq, m_dfMaxAppTick)
  \/ \E f \in Periods, max \in MaxTickPeriods : Run(SetAppFreq(f), max)
  \/ Pause

LoopNext == AppThread \/ OnMailCallBack \/ Reconnect \/ Tick

LoopSpec == LoopInit /\ [][LoopNext]_loopVars

------------------------------------------------------------------------------
(* The wait in force is one the thread comes back from.                    *)
Wakes == nAppPeriod_ms # Never

Longer(a, b) == IF a > b THEN a ELSE b

NotTooLate ==
  (connected /\ Wakes /\ m_IterationMode # REGULAR_ITERATE_AND_COMMS_DRIVEN_MAIL) =>
    waited <= Longer(nAppPeriod_ms, m_dfMaxAppTick) + Late

NotTooOften == ~tooSoon

(* In the modes where mail does not replace Iterate, a connected           *)
(* application that is not asleep for ever iterates after the longer of    *)
(* its two periods at the latest; and in every mode, however often mail    *)
(* comes and the event is left set, not before the shorter one is over.    *)
IteratesInTime == NotTooLate /\ NotTooOften

(* "Regular iterate at" the AppTick rate, as the start-up banner of this   *)
(* mode says (MOOSApp.cpp:658): Iterate is not put off by more than the    *)
(* delay of the thread.                                                    *)
RegularIterate ==
  (connected /\ Wakes) =>
    waited <= Longer(nAppPeriod_ms, m_dfMaxAppTick) + Late

(* "Setting baseline apptick to allowable maximum", as SetAppFreq says     *)
(* (MOOSApp.cpp:1205): the rate the application asks for is cut down.      *)
MaximumKept == m_dfFreq = 0 \/ m_dfFreq >= ShortestPeriod

==============================================================================
