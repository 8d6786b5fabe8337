# UNDERSEA / ATLAS: a TLA+ model of the vehicle's software

The repository holds UNDERSEA, an exemplar of a self-adaptive unmanned underwater
vehicle, on top of MOOS-IvP with the ATLAS fault-injection additions. This directory
specifies its concurrent core in TLA+, checks it with TLC and proves part of it with
TLAPS. Paths below are relative to `src/`; `sUUV` is
`UNDERSEA/moos-ivp-UNDERSEA/src/sUUV` (`sSensor`, `sOdometry` beside it), `Controller` is
`UNDERSEA/UNDERSEA_Controller/src`, `libMOOS` is
`moos-ivp/MOOS_V10.0.3_May1215/MOOSCore/Core/libMOOS`, `ivp` is `moos-ivp/ivp/src`.

## 1. Inventory

How the pieces talk to each other:

    sSensor x n --NOTIFY--> MOOSDB --mail--> sUUV (application thread)
    sOdometry <--NAV_X/Y--    ^  ^              | m_sensors_map, no lock
    atlasDBWatch <-- mail --  |  |           sUUV (server thread)
    ActiveMQ faults ----------+  |              ^ TCP: one line, one reply
    sUUV -- UPDATES_* --> pHelmIvP           Controller: timer + main thread
    (each process: CMOOSApp main loop on MOOSAsyncCommClient; MOOSDB: ThreadedCommServer)

| Component | State | Operations | What is hard | What makes it right |
|---|---|---|---|---|
| sUUV server (`sUUV/server/serverLoop.cpp`, `UUV.h`, `UUV.cpp`) | `m_sensors_map`: per sensor readings, successful readings, rate, state; the speed | `newReading`, `Iterate`; `SENSORS` (report and reset), `SPEED=...`, `###`, `!!` | two threads on one unprotected map | no reading lost or told twice; a command stays in force; every request answered |
| sUUV start-up (`UUV.cpp`, `libMOOS/App`, `libMOOS/Comms`) | port, sensor names, map, sockets and server threads, registrations | `OnStartUp`, `OnConnectToServer`, `initServer`, loss of the connection | callback and main thread run in parallel; a second connection; one global socket | never deaf to its sensors; one server thread to a port; the controller is served |
| Controller (`Controller/controller`, `Controller/main`) | the lists of `Knowledge`; where the timer and main threads are | a MAPE cycle per time window, shutdown, `logData` | one `Client` shared by two threads; a vehicle that dies; lists that grow apart | replies reach who asked; plan and vehicle agree; the log is complete; the process ends |
| Probabilistic analyser and planner (`Controller/controllerPMC`) | `PMCResultsMap` | verify every configuration, choose | an index computed from two loop variables, a sentinel that is an index | results kept; the plan meets the requirements; no null |
| MOOSDB (`libMOOS/DB`) with active faults | variables, subscriptions, wildcards, held mail, overrides | notify, register, unregister (by name or wildcard), clear, connect, disconnect, fault | mail in several boxes by several writers; clients that come and go; a second writer thread | subscribers know the latest value, in order; nothing kept for the gone; overrides hold |
| Main loop (`libMOOS/App/MOOSApp.cpp`) | rates, mode, last run time, mail event | `SleepAsRequired`, `DoRunWork`, `SetAppFreq`, `OnMailCallBack` | mail restarts the clock; periods that fit no int | `Iterate` neither too late nor too often |
| sSensor | schedule of rate changes | `handleChange`, `Iterate` | windows passed over or overlapping; a rate of 0 | the change in force is the one of the time; the sensor recovers |
| sOdometry | last two positions, total distance | `OnNewMail`, `Iterate` | mail and iterations do not come in pairs | no part of the way missed |
| Communications client (`libMOOS/Comms/MOOSAsyncCommClient.cpp`, `MOOSCommClient.cpp`) | boxes, queue, connection, two threads and their owner | post, write, read, reconnect, fetch, close | a connection that fails under either thread; a limit on each box | each direction loses at most, never reorders or repeats; a failed connection is given up; what is posted on one that lasts arrives |
| atlasDBWatch (`ivp/atlasDBWatch`) | watched variables | registration, forwarding to ActiveMQ | a reconnection | keeps watching |
| Communications server (`libMOOS/Comms/ThreadedCommServer.cpp`, `MOOSCommServer.cpp`) | map of sockets, map of threads, list of packets | accept, handshake, poison, process, clean up | a name that comes back while its last session ends; clients that hang | the two maps agree; sessions isolated; names become free |
| Helm (`ivp/pHelmIvP/HelmIvP.cpp`) | status, override, all-stop, heartbeat of the other helm | `OnNewMail`, `Iterate`, `checkForTakeOver`, restart | two helms and mail between them; a crash; no decision | one steers, one takes over, the vehicle stops when nobody decides |
| Behaviours' life cycle (`ivp/lib_helmivp`, `ivp/lib_behaviors/IvPBehavior.cpp`) | behaviours, names, states, flags, updates | spawn, update, run, complete, fail, remove | one behaviour's error cuts the round; names are looked up without their prefix | no alert is lost; flags tell the truth; updates are applied |
| Exemplar mission (`UNDERSEA/moos-ivp-UNDERSEA/missions`, generated by the DSL) | mode variables, info buffer, MOOSDB, mail | modes, conditions, endflags, decisions, the operator | the helm writes its own mail; values matched case and all | published mode true; recalled vehicle stops |
| Control-theoretic controller (SimCA, simplex), random and default controllers | phase, models | identification, control, optimisation | doubles | not assembled by `MainController` |
| Mission DSL, scripts | properties of the mission; processes | setters; `launch.sh`, `clean.sh` | later lines ignored; exit codes | what is written is what is generated |

`PROJECT.json` lists the same components with their sources, and the hazards of this
code at their lines with the property that would catch each.

## 2. Modules and the code they stand for

**UUVServer** - `sUUV` once it is up. The application thread and the server thread are
program counters (`appPC`, `srvPC`); every access to a field of `m_sensors_map` is one
step, because nothing orders the two threads. `NewReading .. StoreSucc` are
`OnNewMail` and `Sensor::newReading` (a load, a store, the rate, a second load and
store); `SummaryField` and `ResetField` are `getSummary` and `reset` in any order of the
fields, which is what the language allows; `ApplySpeed`, `ApplyState`, `TokensDone` are
the token loop of a `SPEED` command; `ReadClosed` is `error()`'s `exit(1)`. `averageRate`
is kept as the count it was computed from: its time base matters to no property.
What the report promises is the abstract module **Readings** (a reading is counted at one
moment, a report takes all there are and leaves none), which `UUVServer` implements
through `ImplementsReadings` (an INSTANCE with a refinement mapping) as long as counting and
reporting do not overlap on a sensor.
`delivered`, `received`, `inForce` and `raced` are history variables. `raced[s]` becomes
true in a state in which `newReading` and the report are both inside sensor `s`.

**UUVStartup** - what precedes it. The main thread (`StopWaiting` to `StartUpRegister`:
`CMOOSApp::Run` and `OnStartUp`) and the communications thread (`ConnectToServer`,
`InitServer`, `ConnectRegister`, `ConnectionLost`) run in parallel, and a controller tries
once to connect, asks for a first report and leaves, by `!!` or by closing its socket
(`ServedClient`). `bound` are the ports sUUV has a socket on, `sockfd` the global that names
the one opened last, `servers` counts the server threads on each port. `bind` refuses a port
that is bound and may refuse any other, and then the process ends; a thread that ends closes
the socket `sockfd` names. Reading a vector while the other thread fills it is one step here.

**Controller** - `ControllerEngine.start` (`main`), `Controller.run` (`timer`) and the
socket. `Println` and `ReadLine` are the two halves of `Client.write`; `Lock` is the lock
of `BufferedReader`. `Fire` and `StartCycle` are two steps because `Timer.cancel` may come
between them. The lists of `Knowledge` are represented by their lengths, and a command by
the number of the cycle that planned it. The server answers once per `read()`, and a
`read()` may return several lines (`Serve(n)`): the reply then is the one `runServer2`'s
string comparisons yield. `logData` is one step at its last loop test: every row before
was complete when it was read.

**PMC** - `AnalyserPMC.run` and `PlannerPMC.run`: one step per verified configuration, a
map from computed indices to results, a choice of any satisfactory result (the cost the
planner compares is never stored, hence always 0). The answer of PRISM is an input.

**ControllerPMC** - the controller as `MainController` assembles it: Controller's timer
thread whose planning step is PMC's analysis, one verified configuration per step, so that
the shutdown and sUUV can fall into the middle of it. `LoopImplementsPMC` (proved) says it
is still PMC.

**MOOSDB** - `CMOOSDB_ActiveFaults` as `MOOSDBMain` runs it. `Notify`, `Register`,
`WildcardRegister`, `UnRegister`, `WildcardUnRegister`, `OnClearRequested` and `Timing` are
packets of one message, each with the delivery of mail that `OnRxPkt` and the pushes of
`ThreadedCommServer::ProcessClient` add; `OnConnect` and `OnDisconnect` include the
`DB_EVENT` they write; `FromMQ` and `SetOverride` are the two halves of `fromMQ` on the
ActiveMQ thread. A value is the serial number of its write. A period other than 0 may
have expired or not at each write. Wildcards are sets of names.

**MOOSAppLoop** - `CMOOSApp`'s loop in its three modes. Time is in ticks and a frequency is
kept as its period; a period that does not fit the `int` of `SleepAsRequired` becomes no
wait or an endless one (`AppPeriods`). `RunOnTime`, `RunForMail`, `IterateForMail`, `Pause`
and `RunAfterPause` are the ways out of the wait, each with the whole of `DoRunWork`.
**Sensor** extends it: `handleChange` builds the schedule, the three branches of `Iterate`
set the rate of the same loop. **Odometry** has positions on a grid whose sides and
diagonals are whole numbers; any prefix of the pending mail may fall to an `Iterate`.
**Applications** composes the three and UUVStartup: what `main()` has constructed, on the loop
it runs on, and for sUUV what `CMOOSApp::Run` does before that loop.

**CommClient** - the writing thread, the reading thread and the application on one
`MOOSAsyncCommClient`: `Post` in its two critical sections, `DoWriting` taking the whole
queue, `ConnectToServer` with the handshake and the connect callback, a connection that can
break at any time, `Close`. **LossyFifo** is the abstract specification of one direction: a
queue that may lose but neither reorders nor repeats; `PostsInOrder` and `MailInOrder` are
its instances for the two directions. `lastWord` is history: the last message posted on this
connection. **ATLASDBWatch** extends the client by what the application registers and what the
MOOSDB remembers of it: `OnStartUp` registers, `OnConnectToServer` returns at once.

**CommServer** - the listening thread (`ListenLoop`, `OnNewClient`, `HandShake`), the two
threads of each session and the server thread (`ServerLoop`, `ProcessClient`,
`OnClientDisconnect` with `Kill` as `KillWriter` and `CleanUp`); descriptors are reused.

**HelmIvP** - one or two helms on the MOOSDB, each step `OnNewMail` or `Iterate` as a whole
(the handlers of `IVPHELM_STATE`, override and restart; the standby's heartbeat; the
all-stop). `StartInDrive` are the helms whose mission file says START_IN_DRIVE; what the engine
decides is an input. **Behaviors** - what `HelmEngine` and `BehaviorSet` do in one `Iterate` of
the helm, as one step over all behaviours; what a behaviour comes to is an input. A name is the
sequence of its parts: the template's prefix, which is never empty (`???` at the least,
`IvPBehavior.cpp:49`), and what the update gives, which is looked up without it. A behaviour
carries its own `flags`, what it has last posted of each kind, since two may have one name;
`gone` are the behaviours the last iteration removed. **Mission** - `meta_vehicle.bhv` with its modes,
conditions, endflags and decision variables, three places, an operator, the helm's info
buffer and the echo of its own posts.

**MC...** modules give constants their values; PMC, ControllerPMC, CommClient and
ATLASDBWatch need none, and UUVStartup is run as part of Applications. The proofs are in
**UUVServerProofs** (with UUVStartup's), **ControllerPMCProofs**, **ApplicationsProofs**,
**CommServerProofs**, **MOOSDBProofs**, **HelmIvPProofs**, **BehaviorsProofs** and
**MissionProofs**.
`PROJECT.json` maps each definition to its lines. An operator with an underscore suffix, introduced by "Mutant:", is a plausible mistake in the
code, used only to show that a property notices it.

## 3. What is checked

| Run | Instance | Distinct states | Shows |
|---|---|---|---|
| UUVServer | 2 sensors (one named by commands, one not), 1 reading each, 2 requests, 2 speeds, fair server thread | 859,604 | `ReadingsConserved`: a reading is in exactly one place unless counting and reporting overlapped on that sensor. `ReportConsistent` (more successes than readings only where they did, and nothing is invented even then), `CommandInForce`, `RequestAnswered`, `ImplementsReadings` |
| ControllerPMC | 3 cycles; 2 combinations, speeds 1..3, base 2, any verdict | 205,488 | `OwnReply`, `PlannedIsInForce`, `LogComplete`, `FastConfigurationsLost`, `PlannerSurvives`, `ShutdownEnds` |
| MOOSDB | an asynchronous and a synchronous client, `DB_EVENT` and one more variable, 2 wildcards, 3 writes | about 1.5 minutes | `SubscriberInformed`, `WildcardCovers`, `NothingForTheGone`, `NoStaleMail` |
| MOOSDBOverride | the same | - | violated: `OverrideHolds` |
| Applications | all 3 modes, periods 0, 2, 3 and one that fits no int, 3 CHANGE lines of 7, 3 positions and 5 iterates; 2 sensors, 3 connections of sUUV, the port of the mission file is the default | 65,084 | `IteratesInTime`, `RateFollowsSchedule`, `NoChangeMissed`, `SensorRecovers`, `WayAccountedFor`; of sUUV's start-up `NeverDeaf`, `OneServer`, `ConnectionSettles` |
| CommClient | 2 connections, outbox of 2, inbox of 1, the application posts up to 2 besides its callback, 3 mails | 1,358,465 | `PostsInOrder`, `MailInOrder` (each direction implements LossyFifo), `FailureNoticed`, `PostArrives` |
| ATLASDBWatch | the same with 1 post and 1 mail | - | violated: `Watched` |
| CommServer | 2 names, 2 sessions, lists of 2, a socket that holds 1 | 138,027 | `MapsAgree`, `SessionsIsolated`, `NameReleased` |
| HelmIvP | a primary that starts in DRIVE and may crash once and a standby helm, 2 commands of the operator, 4 decisions | 117,943 | `NeverCoasts`, `StopsWhenItQuits`, `OneSteers`, `TakesOver` |
| Behaviors | one spawning template with its prefix, alerts that give the contact, spell the full name, are faulty or are for all, every outcome, 2 behaviours that may share a name | 13,422 | `AlertsAnswered`, `FlagsTruthful`, `EndsOnce` |
| BehaviorsHalt | 2 perpetual behaviours, updates to all | - | violated: `LastUpdateInForce` |
| Mission | 4 commands, a survey of 2 cycles | 49,308 | `InfoAgrees`, `PublishedMode`, `StopsWhenRecalled` |

Why the bounds suffice. In UUVServer an overlap needs one reading and one report; a second
request shows what the first left behind; the second sensor separates "the sensor under the
cursor" from the others, and the proofs remove the bounds. In ControllerPMC three cycles let
every list be one or two ahead of the others and a command differ from the previous one;
the shutdown can fall into any step of any of them, and the scaled grid has the shape of the
real one: a stride smaller than the number of speeds and a base above the slowest; the proofs
remove both bounds. In
MOOSDB every write counts against the bound of three, the `DB_EVENT` of a connection too: one
client and two writes or faults put two messages about a variable into one box, two clients
and a write relate a writer, an asynchronous and a synchronous subscriber; registrations,
wildcards, clears, fetches and disconnections are not bounded, and clients only meet in the
variables. In Applications the lines of the schedule include windows that are short, adjacent,
overlapping, reversed and of rate 0, in every order of three; two pending mails set the event
once and leave it set once; the third connection of sUUV finds the state the second left. In
CommClient a second connection meets what the first left in
queue, boxes and threads, and the mail exceeds what the inbox
holds before it is emptied. In CommServer the second
session is that of another client or of the same name coming back. In HelmIvP the operator
can take and give back control before, during and after a take-over. In Behaviors two
behaviours, of one name or of two, can be there while a third is announced, and two updates
can follow one another between iterations (`Room` keeps the spawning within `MaxBehaviors`). In Mission four commands make a deployment, a change, a return and a recall.

Deadlock is not checked where the system really stops: a process exits or a bound is
reached. Behaviors and Mission never stop and are checked for deadlock.

Fairness. `UUVServer!FairSpec` is weakly fair to the server thread, which the operating
system schedules; the client is not fair and may stay silent, so `RequestAnswered` does not
rely on it. `ControllerPMC!FairLoopSpec` is weakly fair to the timer, main and server
threads (`Timer`, `sleep`, TCP and PRISM go on); nothing obliges sUUV to die.
`Applications!FairAppSpec`: time goes on and threads are scheduled, those of sUUV's start-up too
(`UUVStartup!FairStartupSpec` is that part alone); mail, losses of the connection and the
controller are not owed. `CommClient!FairSpec`: threads are scheduled, a call on a broken
connection returns, but a `recv` on a socket closed under it need not; nobody has to connect,
post or close, but the MOOSDB reads what it is sent. `ATLASDBWatch!WatchFairness` adds that
`OnStartUp` runs, so that its counterexample is no application that simply stops. `CommServer`:
threads are scheduled and a client that does not hang reads. `HelmIvP!Fairness`: both helms
read and iterate; the fairness of `Iterate` is strong only because the bound on mail disables
it now and then, which the real helm has not. `Mission!FairSpec`: the helm reads and
iterates, and a steered vehicle moves. MOOSDB and Behaviors have safety properties only.

### What the models refute

Claims of the repository's own words (comments, messages, reports) that the code does not
keep. `OverrideHolds`, `Watched` and `LastUpdateInForce` are runs of their own; each of the others is
a definition of its module and fails when put into the named cfg, a state predicate as
INVARIANT and a temporal formula as PROPERTY, with the change given.

| Claim | Where it fails | Why |
|---|---|---|
| `OverrideHolds` | run MOOSDBOverride | overrides of faults are never honoured: `CMOOSDB::OnNotify` is not virtual (`MOOSDB.h:141`) |
| `LastUpdateInForce` | run BehaviorsHalt | a behaviour's error returns before the later ones are asked, and the updates are cleared "now that all behavior have had the chance to consume" them (`HelmIvP.cpp:428`). Without errors (`Outcomes <- NoErrors`) it fails with `Specs <- SurveyAndFilter` (no function at filter level 0) and with `Specs <- Survey`, `Updates <- WithFaulty` (the last good update, sent again after a faulty one, is skipped as a repetition) or `Updates <- WithNamed` (the same, after an update with a name, which counts as faulty) |
| `AccurateReadings` | UUVServer | `Sensor.parseReply` takes the counts for the readings since the previous invocation; the unlocked map can lose or repeat some (`UUV.h:77`) |
| `LogWritten` | ControllerPMC | `launch.sh` announces a log that is not written when the last cycle was cut short or sUUV is gone (`Knowledge.java:133`) |
| `EveryConfigurationKept` | ControllerPMC | "for all configurations" the analyser files a result, but the index of 31 speeds has a stride of 21 |
| `StartUpBeforeConnection` | Applications | the comment says `OnStartUp` happens before the connection is open; normally it happens after |
| `RegularIterate` | Applications | "Regular iterate at" the rate (`MOOSApp.cpp:658`): mail that keeps coming restarts the clock and keeps `Iterate` from running in the third mode |
| `MaximumKept` | Applications, `Periods <- MCTooFast`, `AppTicks = {2, 3}` | `SetAppFreq` compares the rate in force, not the one asked for, with the maximum (`MOOSApp.cpp:1198`) |
| `DistanceTravelled` | Applications | "Distance traveled" grows at each `Iterate` without mail (`Odometry.cpp:108`) |
| `ClosedOnRequest` | CommClient | a request of the reading thread to end the old connection ends the new one (`MOOSAsyncCommClient.cpp:361`) |
| `WaitEnds` | CommClient | a reconnection between two polls leaves the reading thread waiting, and nothing is read (`:367`) |
| `EndsOnlyOnMisbehaviour` | CommClient | a server that goes away in the handshake ends the client for good, as if it "misbehaved badly" (`:229`) |
| `Watched` | run ATLASDBWatch | "Registering with MOOSDB for variable" (`ATLASDBWatch_App.cpp:65`), but only once, in `OnStartUp`, and without looking at the result: without a connection by then, or after a reconnection, it stays connected and is subscribed to nothing (`OnConnectToServer`, `:56`) |
| `PoisonTruthful` | CommServer | a name entered before a failed welcome stays: "A client of this name already exists", though none does (`MOOSCommServer.cpp:983`) |
| `ServerMovesOn` | CommServer | a client that hangs blocks its writing thread, and the server thread joins it under the lock of the sockets (`ThreadedCommServer.cpp:702`) |
| `Restarted` | HelmIvP, `Commands <- WithRestarts`, `BehaviorsInMission = TRUE` | after RESTART_HELM the BEHAVIORS line is refused and the helm is MALCONFIG (`HelmIvP.cpp:1247`) |
| `RateFollowsSchedule` | Applications, `Lines <- MCFastLines` | a CHANGE to a rate above the maximum is accepted and then never left: `SetAppFreq` refuses every later rate (`MOOSApp.cpp:1198`), so the sensor does not recover |
| `NeverCoasts`, `StopsWhenItQuits` | HelmIvP, `Crashing <- Either` | a standby helm that took over, crashes and is launched again waits on STANDBY while the last DESIRED of its former life stays in force |
| `StopsWhenItQuits` | HelmIvP, `Commands <- WithRestarts` | a standby helm that took over and is restarted goes back to STANDBY without an all-stop (`HelmIvP.cpp:253`) |
| `NamesAgree` | Behaviors | "Actual spawning does not occur until after the caller determines that candidate names are unique to the helm" (`BehaviorSpec.cpp:88`), but the name looked up is the update's, without the prefix of the one stored (`BehaviorSet.cpp:369`, `IvPBehavior.cpp:109`): a repeated alert spawns a duplicate, and the first of two that dies releases the name of both |
| `InactiveWhenGone` | Behaviors | a behaviour that completes by its duration posts no inactiveflags (`IvPBehavior.cpp:454`) |
| `SurveyBringsHome` | Mission, `Commands <- OnlyDeploy` | the endflag posts TRUE, `waypt_return` waits for true (`meta_vehicle.bhv:29`, `:55`) |
| `ReturnBringsHome` | Mission, `Commands <- DeployAndReturn` | depth is not optional and undecided in RETURNING, so the helm stops the vehicle (`UUVproperties.java:228`) |

Smaller things met on the way: SURVEYB has no waypoint behaviour, so it is an all-stop as
well; `BHV_CONSTANT_SPEED_UPDATES` as an endflag is a variable nobody reads; a primary helm
launched again takes a dead standby's last DRIVE+ for a living one until it is told otherwise
(`HelmIvP.cpp:247`); a fault always arrives as a string, which a numeric variable drops
(`MOOSDB.cpp:737`); `stod` may throw `out_of_range` for an override's end.

## 4. What is proved

All theorems hold for every value of the constants that satisfies the modules' named
`ASSUME`s, with no bound of a TLC run.

* `UUVServerProofs`: `TypeCorrect`; `Conservation` (`ReadingsConserved`); `CommandsStay`
  (`CommandInForce`); `ReportsAgree` (`ReportConsistent`). `TypeOK` alone is not inductive:
  `Protocol` says that the cursor is a sensor during a report and that at most one request
  is under way. The sum over the places a reading can be is kept only if the application thread's register is not stale;
  `Registers` states that for sensors that never raced, `SuccessOnly` that the second counter
  is only reached for a success, and `Applied` that of a command being applied the tokens
  before the cursor have taken effect. For the reports, `Arrived` says that no counter,
  register or copy is ahead of what was delivered, whoever raced; `Agrees`, that the map and
  the report agree with themselves except while a reset is at the sensor; and `Copied`
  relates the fields the report has copied to those it has reset.
  The refinement: the initial states and every step of the detailed server map to the
  abstract one of Readings or a stutter (`ImplementsReadings`). It rests on `Copied` too;
  `QuietStep` is the lemma for the steps that touch no counter.
  The start-up: `StartupTypes`, `HearsItsSensors` (`NeverDeaf`), `ServesOnce` (`OneServer`).
  `Parsed` and `Hears` say who has read the configuration and who registers. `OneServer` alone
  is not inductive: `Served` says that a port has a server thread exactly while it is bound,
  and that the socket of the mission file's port, where the controller is served, is the one
  opened last, hence the one its thread closes when it ends.
* `MOOSDBProofs`: `TypeCorrect`, `Informed` (`SubscriberInformed`), `Covered`
  (`WildcardCovers`), `CleanStart` (`NothingForTheGone`), `MailInOrder` (`NoStaleMail`).
  `BoxesOK` says that of the messages of a box about a variable one is the last
  (`HasLatest`), which is the one its reader will know, and `Existing` that what has a value
  has been created; one lemma per packet. `Ordered` says that what a client was sent is no
  newer than what it will have read, and that no newer than the variable: every step brings
  a client forward, empties its box or forgets it.
* `ControllerPMCProofs`: first the analysis alone. `PlannerNeverFails` (`PlannerSurvives`) from
  `SentinelFilled`: once past combination 1 at `Base - 1`, index -1 holds a result for good.
  `WhatIsKept` (`FastConfigurationsLost`) from `OwnIndex` (a result lies under its own index)
  and `Account` (a verified configuration is there until the one it shares its index with is
  verified); `Collision` says which one that is: one combination up and `Stride` slower.
  Then the whole loop: `OwnReplies`, `PlansInForce` (`PlannedIsInForce`), `LogsComplete`, and
  `LoopImplementsPMC`, from which `LoopNeverFails` and `LoopKeeps` follow. The invariant is
  `Planned /\ Counted /\ Logged /\ Served`: what a plan is; the lengths of the lists at
  each place of the timer thread, alive or dead; that a log is exported at the end only; what
  is in the streams while only the timer writes.
* `ApplicationsProofs`: `InTime` (`IteratesInTime`) for any application, sSensor with any
  schedule, and any mail. `Clocks` says that the last `Iterate` is no younger than the last
  run of the loop, and in the modes where every run iterates no older. `PlaceInRange`
  shows by well-foundedness of `<` that the insertion point exists, so the schedule stays
  a sequence.
  `NoWayMissed` (`WayAccountedFor`) holds for every field whose distances are whole
  (`OdometryAssumption`): `Alternates` says that the mail is x, y, x, y..., so odometer and
  history are those of one position, or of the x of the next with the y of the last
  (`Counting`); `MailOfTwo` unfolds the handling of the first two messages.
  `FollowsSchedule` (`RateFollowsSchedule`): `Windows` says that a schedule without overlaps is
  sorted, although an insertion compares the start of the old with the finish of the new
  only; `Progress`, that what is before `event_index` is over; `Following`, that the rate is
  the nominal one or that of the change of `event_index`. Its hypothesis `RatesAllowed` excludes
  the rates above the maximum, with which the claim is false (above).
  `EveryChangeApplied` (`NoChangeMissed`) needs no such hypothesis. `Punctual` joins the
  schedule to the clock of the loop: the time since the last `Iterate` is no more than `age`,
  a change not applied yet was first due less than a wait before the last `Iterate`, and
  so is still on at the next one.
* `CommServerProofs`: `NamesAgree` (`MapsAgree`), `NoSessionForAnother` (`SessionsIsolated`).
  `Welcoming` says that from the handshake to the welcome the newcomer's descriptor alone
  has the name and no thread does, which the lock keeps true (`Locked`); `Queued`, that the
  sessions on the server thread's list have their name's thread and that the message of
  their closing is their last there; `Leaves`, that nothing of the session being cleaned up
  is left. `DescriptorLeft` shows by the pigeonhole principle that `accept` has a descriptor.
* `HelmIvPProofs`: `TypeCorrect`; `HoldsOffOnce` (`NeverCoasts`) and `LeavesZeros`
  (`StopsWhenItQuits`). `Steering` says that a helm whose drive is the DESIRED in force is
  enabled, and `Tight` that its all-stop message and its count of missing decisions bound
  how long it has been coasting, so that the next iteration without a decision posts zeros.
  `HandleMailHolds` is the step of one message and `AfterMailHolds` carries
  it over mail of any length, by well-foundedness of `<` on the index of a first message
  that breaks it. The hypothesis `NoReturn` (no RESTART_HELM, and only
  the primary crashes) excludes the two ways in which the claims are false (above).
* `BehaviorsProofs`: `TypeCorrect`; `EachAlert` (`AlertsAnswered`), `TrueFlags`
  (`FlagsTruthful`), `OneEnd` (`EndsOnce`), for every mission, whatever its templates and
  prefixes. `Truth` joins what a behaviour's flags, its state and `m_completed` say of one
  another, and `Over` is what one that is removed has posted. `Grown` is the invariant in the
  middle of an iteration: the names taken are names of behaviours there are, which is all that
  is left of uniqueness and just enough for `Answered`, that an alert has its behaviour once it
  was looked at; `More` carries that to the end of the loop. `AskingTells` is the lemma for one
  behaviour that is asked. The four loops (over templates, updates to spawn by, updates of one
  behaviour and the entries that are kept) are recursive functions; `LoopExists` and
  `LoopStays` are the inductions they share, and `AtPlacesPicks` says that removing entries
  keeps each of the others once. `UpdatesInForce` is the other half of the refuted
  `LastUpdateInForce`: it holds without errors, filter behaviours and faulty updates, and where
  named and plain updates do not mix but for toggles (`Careful`), each of which breaks it alone
  (above).
* `MissionProofs`: `TypeCorrect`; `SameInfo` (`InfoAgrees`) and `ModeIsCurrent`
  (`PublishedMode`). `Agreed` says that what the helm's info buffer will hold once its mail is
  read is what the MOOSDB has, message by message and with its own posts echoed; `Decided`, that
  after an iteration without endflags the mode is both the last posted and the one its
  variables call for.

Type invariants: `UUVServer`, `UUVStartup`, `MOOSDB`, `PMC`, `HelmIvP`, `Behaviors` and
`Mission` have theirs proved; those of the other modules were checked on the instances above
with the invariant added to the cfg and are not part of the runs.

Only model-checked: liveness (the prover has no rule for fairness or ENABLED here);
CommClient, whose properties are about the order of three queues in a row.

## 5. Not modelled

* MOOSDB: the summaries it publishes about itself, its HTTP server and logger; the
  concurrent corruption of its containers by the ActiveMQ thread (each `OnNotify` is one
  step). The copy of every notification to ActiveMQ keeps no state.
* Communications: skew of clocks, active queues, synchronous clients (not built here), the
  audit threads, the boost of priority. In CommServer also the timeout of the handshake and a
  `select` that returns -1 (`ThreadedCommServer.cpp:619`): that session's thread would end
  without announcing that it has, and its name would stay taken.
* sUUV: the race on the sensor vector at start-up; times, rates and the text of messages.
* Helm: what each kind of behaviour computes, the interval-programming solver, the drivers'
  geometry beyond three places; reports and skew. In Mission HELM_VAR_INIT, with which the helm
  posts a variable's initial value unless it has one, happens before the model starts.
* The random and default controllers and SimCA: `MainController` has their construction
  commented out. SimCA's phases are driven by measured doubles and a simplex solution, which
  TLC cannot represent. PRISM and its model `uuv.sm`; the vendored simplex solver.
* The mission DSL and its generated parser: a batch translator without state; what it
  generates is Mission. The scripts: `launch.sh`'s message is checked as `LogWritten`.
* The rest of MOOS-IvP: viewers, loggers and tools, by far most of the repository's lines.

## 6. Plan

Done: everything above, in the order of sections 2 and 4. What would add most next:

1. Proofs that CommClient implements LossyFifo in both directions.
2. An abstract publish/subscribe specification refined by MOOSDB, composed with CommServer's
   sessions in the place of its connect and disconnect.
3. The synchronous client, with its handshake timeout.
