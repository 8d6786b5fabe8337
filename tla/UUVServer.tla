------------------------------ MODULE UUVServer ------------------------------
(***************************************************************************)
(* The two threads of sUUV that share UUV::m_sensors_map without a lock.   *)
(*                                                                         *)
(*  - The MOOS application thread runs OnNewMail, which counts every       *)
(*    sensor reading (Sensor::newReading), and Iterate, which publishes    *)
(*    the speed the controller asked for.                                  *)
(*  - The server thread runs runServer2: it answers the requests of the    *)
(*    controller's client, one read() and one write() at a time.  SENSORS  *)
(*    reports and resets the counters of every sensor, SPEED=... stores    *)
(*    the new speed and the new sensor states.                             *)
(*                                                                         *)
(* The map is plain memory, so each access to a field is a step of its     *)
(* own, and the order in which getSummary's operands are read and reset's  *)
(* stores become visible is left open, as the C++ standard leaves it.      *)
(*                                                                         *)
(* The behaviour starts when both OnStartUp and OnConnectToServer have     *)
(* run; UUVStartup models what happens before.                             *)
(***************************************************************************)
EXTENDS Integers

CONSTANTS
  NumSensors,   \* sensors named in the SENSORS line of the mission file
  Named,        \* sensors named in a SPEED command: ExecutorPMC's list is fixed
  States,       \* the states a command may give a sensor: -1, 0, 1 or 2
  Speeds,       \* the speeds a command may ask for
  InitSpeed,    \* UUV::m_uuv_speed of the constructor
  MaxReadings,  \* bound: readings delivered per sensor
  MaxRequests   \* bound: requests sent by the client

ASSUME UUVServerAssumption ==
  /\ NumSensors \in Nat \ {0}
  /\ Named \subseteq Nat \ {0}
  /\ States \subseteq Int
  /\ InitSpeed \in Speeds
  /\ MaxReadings \in Nat
  /\ MaxRequests \in Nat

(* std::map keeps its keys sorted: SENSOR1 < SENSOR2 < ... < SPEED.        *)
Sensors == 1 .. NumSensors

Counts == {"numOfReadings", "numOfSuccReadings"}

(* Mutant: reset clears the state too.                                     *)
Resettable_State == Counts \cup {"averageRate", "state"}

Resettable == Counts \cup {"averageRate"}
Fields == Resettable \cup {"state"}

Plain == [cmd : {"SENSORS", "###", "!!", "other"}]
SpeedCommand == [cmd : {"SPEED"}, speed : Speeds, state : [Named -> States]]
Requests == Plain \cup SpeedCommand
None == [cmd |-> "none"]

VARIABLES
  m_sensors_map,  \* [Sensors -> [Fields -> Int]]; averageRate is kept as the
                  \* number of readings it was computed from
  other,          \* the "SPEED" entry's field other
  speedSent,      \* last UPDATES_CONSTANT_SPEED posted by sendNotifications
  appPC, appSensor, appValue, appReg,       \* application thread
  srvPC, line, cursor, todo, summary,       \* server thread
  client, request, reply, sent,             \* the socket and its only client
  alive,                                    \* FALSE after error()'s exit(1)
  delivered, received,                      \* history: readings in and out
  inForce,                                  \* history: last command applied
  raced                                     \* history: see Overlap

appVars == <<appPC, appSensor, appValue, appReg>>
srvVars == <<srvPC, line, cursor, todo, summary>>
sockVars == <<client, request, reply, sent>>
histVars == <<delivered, received, inForce>>
vars == <<m_sensors_map, other, speedSent, appVars, srvVars, sockVars, alive,
          histVars, raced>>

Zero(S) == [s \in Sensors |-> [f \in S |-> 0]]

TypeOK ==
  /\ m_sensors_map \in [Sensors -> [Fields -> Int]]
  /\ other \in Speeds /\ speedSent \in Speeds
  /\ appPC \in {"idle", "count", "rate", "succ", "storeSucc"}
  /\ appSensor \in Sensors /\ appValue \in {0, 1} /\ appReg \in Int
  /\ srvPC \in {"accept", "read", "summary", "reset", "tokens", "write", "closed"}
  /\ line \in Requests \cup {None}
  /\ cursor \in Nat
  /\ todo \subseteq Fields
  /\ summary \in [Sensors -> [Fields -> Int]]
  /\ client \in {"absent", "connected", "gone"}
  /\ request \in Requests \cup {None}
  /\ reply \in {"none", "report", "OK", "###", "unknown"}
  /\ sent \in Nat
  /\ alive \in BOOLEAN
  /\ delivered \in [Sensors -> [Counts -> Int]]
  /\ received \in [Sensors -> [Counts -> Int]]
  /\ inForce \in SpeedCommand \cup {None}
  /\ raced \in [Sensors -> BOOLEAN]

(* initSensorsMap: every counter 0, every state -1, the default speed.     *)
Init ==
  /\ m_sensors_map = [s \in Sensors |-> [f \in Fields |-> IF f = "state" THEN -1 ELSE 0]]
  /\ other = InitSpeed /\ speedSent = InitSpeed
  /\ appPC = "idle" /\ appSensor = 1 /\ appValue = 0 /\ appReg = 0
  /\ srvPC = "accept" /\ line = None /\ cursor = 0 /\ todo = {}
  /\ summary = Zero(Fields)
  /\ client = "absent" /\ request = None /\ reply = "none" /\ sent = 0
  /\ alive = TRUE
  /\ delivered = Zero(Counts) /\ received = Zero(Counts) /\ inForce = None
  /\ raced = [s \in Sensors |-> FALSE]

------------------------------------------------------------------------------
(* The application thread.                                                 *)

(* OnNewMail hands a reading of sensor s to newReading, whose              *)
(* numOfReadings += 1 first loads the counter.  value = 1 is a success.    *)
NewReading(s, value) ==
  /\ appPC = "idle"
  /\ delivered[s]["numOfReadings"] < MaxReadings
  /\ appSensor' = s /\ appValue' = value
  /\ appReg' = m_sensors_map[s]["numOfReadings"]
  /\ appPC' = "count"
  /\ delivered' = [delivered EXCEPT ![s] =
                     [f \in Counts |-> @[f] + IF f = "numOfReadings" THEN 1 ELSE value]]
  /\ UNCHANGED <<m_sensors_map, other, speedSent, srvVars, sockVars, alive, received,
                 inForce>>

StoreCount ==
  /\ appPC = "count"
  /\ m_sensors_map' = [m_sensors_map EXCEPT ![appSensor]["numOfReadings"] = appReg + 1]
  /\ appPC' = "rate"
  /\ UNCHANGED <<other, speedSent, appSensor, appValue, appReg, srvVars, sockVars,
                 alive, histVars>>

(* Mutant: the rate is computed from the count before the reading.         *)
StoreRate_Old ==
  /\ appPC = "rate"
  /\ m_sensors_map' = [m_sensors_map EXCEPT ![appSensor]["averageRate"] = appReg]
  /\ appPC' = IF appValue = 1 THEN "succ" ELSE "idle"
  /\ UNCHANGED <<other, speedSent, appSensor, appValue, appReg, srvVars, sockVars,
                 alive, histVars>>

(* The compiler may reload numOfReadings after the call of MOOSTime or use *)
(* the value it has just stored.                                           *)
StoreRate ==
  /\ appPC = "rate"
  /\ \E n \in {appReg + 1, m_sensors_map[appSensor]["numOfReadings"]} :
       m_sensors_map' = [m_sensors_map EXCEPT ![appSensor]["averageRate"] = n]
  /\ appPC' = IF appValue = 1 THEN "succ" ELSE "idle"
  /\ UNCHANGED <<other, speedSent, appSensor, appValue, appReg, srvVars, sockVars,
                 alive, histVars>>

LoadSucc ==
  /\ appPC = "succ"
  /\ appReg' = m_sensors_map[appSensor]["numOfSuccReadings"]
  /\ appPC' = "storeSucc"
  /\ UNCHANGED <<m_sensors_map, other, speedSent, appSensor, appValue, srvVars,
                 sockVars, alive, histVars>>

StoreSucc ==
  /\ appPC = "storeSucc"
  /\ m_sensors_map' = [m_sensors_map EXCEPT ![appSensor]["numOfSuccReadings"] = appReg + 1]
  /\ appPC' = "idle"
  /\ UNCHANGED <<other, speedSent, appSensor, appValue, appReg, srvVars, sockVars,
                 alive, histVars>>

(* Iterate follows every batch of mail; sendNotifications publishes the    *)
(* speed (the VIEW_MARKER messages only colour the operator's display).    *)
Iterate ==
  /\ appPC = "idle"
  /\ speedSent' = other
  /\ UNCHANGED <<m_sensors_map, other, appVars, srvVars, sockVars, alive, histVars>>

AppThread ==
  \/ \E s \in Sensors, value \in {0, 1} : NewReading(s, value)
  \/ StoreCount \/ StoreRate \/ LoadSucc \/ StoreSucc
  \/ Iterate

------------------------------------------------------------------------------
(* The server thread: runServer2.                                          *)

Accept ==
  /\ srvPC = "accept" /\ client # "absent"
  /\ srvPC' = "read"
  /\ UNCHANGED <<m_sensors_map, other, speedSent, appVars, line, cursor, todo, summary,
                 sockVars, alive, histVars>>

(* What the server does next with a request, in the order of the ifs.      *)
Dispatch(cmd) ==
  CASE cmd = "SENSORS" -> "summary"
    [] cmd = "SPEED"   -> "tokens"
    [] OTHER           -> "write"

Read ==
  /\ srvPC = "read" /\ request # None
  /\ line' = request /\ request' = None
  /\ srvPC' = Dispatch(request.cmd)
  /\ cursor' = IF request.cmd = "SENSORS" THEN 1 ELSE 0
  /\ todo' = Fields
  /\ UNCHANGED <<m_sensors_map, other, speedSent, appVars, summary, client, reply, sent,
                 alive, histVars>>

(* read() returns 0: error() ends the whole process.                       *)
ReadClosed ==
  /\ srvPC = "read" /\ request = None /\ client = "gone"
  /\ alive' = FALSE
  /\ UNCHANGED <<m_sensors_map, other, speedSent, appVars, srvVars, sockVars, histVars>>

(* getSummary reads one field of the sensor under the cursor.              *)
SummaryField(f) ==
  /\ srvPC = "summary" /\ f \in todo
  /\ summary' = [summary EXCEPT ![cursor][f] = m_sensors_map[cursor][f]]
  /\ IF todo = {f}
       THEN srvPC' = "reset" /\ todo' = Resettable
       ELSE todo' = todo \ {f} /\ UNCHANGED srvPC
  /\ UNCHANGED <<m_sensors_map, other, speedSent, appVars, line, cursor, sockVars,
                 alive, histVars>>

(* Mutant: reset forgets numOfSuccReadings.                                *)
ResetField_KeepsSucc(f) ==
  /\ srvPC = "reset" /\ f \in todo
  /\ m_sensors_map' = IF f = "numOfSuccReadings" THEN m_sensors_map
                      ELSE [m_sensors_map EXCEPT ![cursor][f] = 0]
  /\ IF todo # {f}
       THEN todo' = todo \ {f} /\ UNCHANGED <<srvPC, cursor>>
       ELSE /\ todo' = Fields
            /\ cursor' = cursor + 1
            /\ srvPC' = IF cursor < NumSensors THEN "summary" ELSE "write"
  /\ UNCHANGED <<other, speedSent, appVars, line, summary, sockVars, alive, histVars>>

(* reset clears one field; after the last one the loop takes the next      *)
(* sensor.  (The SPEED entry is reset too, but its counters are not read.) *)
ResetField(f) ==
  /\ srvPC = "reset" /\ f \in todo
  /\ m_sensors_map' = [m_sensors_map EXCEPT ![cursor][f] = 0]
  /\ IF todo # {f}
       THEN todo' = todo \ {f} /\ UNCHANGED <<srvPC, cursor>>
       ELSE /\ todo' = Fields
            /\ cursor' = cursor + 1
            /\ srvPC' = IF cursor < NumSensors THEN "summary" ELSE "write"
  /\ UNCHANGED <<other, speedSent, appVars, line, summary, sockVars, alive, histVars>>

(* The first token of a command is the speed, the others the new states;   *)
(* a name the map does not hold is skipped.                                *)
ApplySpeed ==
  /\ srvPC = "tokens" /\ cursor = 0
  /\ other' = line.speed
  /\ cursor' = 1
  /\ UNCHANGED <<m_sensors_map, speedSent, appVars, srvPC, line, todo, summary, sockVars,
                 alive, histVars>>

ApplyState ==
  /\ srvPC = "tokens" /\ cursor \in Sensors
  /\ m_sensors_map' = IF cursor \in Named
                      THEN [m_sensors_map EXCEPT ![cursor]["state"] = line.state[cursor]]
                      ELSE m_sensors_map
  /\ cursor' = cursor + 1
  /\ UNCHANGED <<other, speedSent, appVars, srvPC, line, todo, summary, sockVars, alive,
                 histVars>>

TokensDone ==
  /\ srvPC = "tokens" /\ cursor > NumSensors
  /\ srvPC' = "write"
  /\ inForce' = line
  /\ UNCHANGED <<m_sensors_map, other, speedSent, appVars, line, cursor, todo, summary,
                 sockVars, alive, delivered, received>>

ReplyTo(cmd) ==
  CASE cmd = "SENSORS" -> "report"
    [] cmd = "SPEED"   -> "OK"
    [] cmd = "###"     -> "###"
    [] OTHER           -> "unknown"

(* Mutant: a command is not acknowledged.                                  *)
Write_NoAck ==
  /\ srvPC = "write"
  /\ reply' = IF line.cmd = "SPEED" THEN reply ELSE ReplyTo(line.cmd)
  /\ srvPC' = IF line.cmd = "!!" THEN "closed" ELSE "read"
  /\ UNCHANGED <<m_sensors_map, other, speedSent, appVars, line, cursor, todo, summary,
                 client, request, sent, alive, histVars>>

(* write(), then the loop test: only "!!" ends it, closing both sockets.   *)
Write ==
  /\ srvPC = "write"
  /\ reply' = ReplyTo(line.cmd)
  /\ srvPC' = IF line.cmd = "!!" THEN "closed" ELSE "read"
  /\ UNCHANGED <<m_sensors_map, other, speedSent, appVars, line, cursor, todo, summary,
                 client, request, sent, alive, histVars>>

ServerThread ==
  \/ Accept \/ Read \/ ReadClosed
  \/ \E f \in Fields : SummaryField(f) \/ ResetField(f)
  \/ ApplySpeed \/ ApplyState \/ TokensDone \/ Write

------------------------------------------------------------------------------
(* The controller's client: Client.write sends a line and waits for one.   *)

Connect ==
  /\ client = "absent"
  /\ client' = "connected"
  /\ UNCHANGED <<m_sensors_map, other, speedSent, appVars, srvVars, request, reply, sent,
                 alive, histVars>>

Outstanding ==
  \/ request # None
  \/ reply # "none"
  \/ srvPC \notin {"accept", "read", "closed"}

Send(r) ==
  /\ client = "connected" /\ ~Outstanding /\ srvPC # "closed"
  /\ sent < MaxRequests
  /\ request' = r /\ sent' = sent + 1
  /\ UNCHANGED <<m_sensors_map, other, speedSent, appVars, srvVars, client, reply, alive,
                 histVars>>

Receive ==
  /\ client = "connected" /\ reply # "none"
  /\ reply' = "none"
  /\ received' = IF reply = "report"
                 THEN [s \in Sensors |-> [f \in Counts |-> received[s][f] + summary[s][f]]]
                 ELSE received
  /\ UNCHANGED <<m_sensors_map, other, speedSent, appVars, srvVars, client, request, sent,
                 alive, delivered, inForce>>

(* The Java process ends: the kernel closes its socket.                    *)
Disconnect ==
  /\ client = "connected"
  /\ client' = "gone"
  /\ UNCHANGED <<m_sensors_map, other, speedSent, appVars, srvVars, request, reply, sent,
                 alive, histVars>>

ClientStep ==
  \/ Connect \/ Receive \/ Disconnect
  \/ \E r \in Requests : Send(r)

------------------------------------------------------------------------------
(* The application thread is inside newReading of s, the server thread     *)
(* inside getSummary or reset of s.                                        *)
AppIn(s) == appPC # "idle" /\ appSensor = s
SrvIn(s) == srvPC \in {"summary", "reset"} /\ cursor = s
Overlap(s) == AppIn(s) /\ SrvIn(s)

(* Nothing runs in a dead process; overlaps are recorded as they happen.   *)
Observed ==
  /\ alive
  /\ raced' = [s \in Sensors |-> raced[s] \/ Overlap(s)']

Next == (AppThread \/ ServerThread \/ ClientStep) /\ Observed

Spec == Init /\ [][Next]_vars

(* The server thread is scheduled by the operating system; nothing obliges *)
(* the application to get mail or the client to go on.                     *)
FairSpec == Spec /\ WF_vars(ServerThread /\ Observed)

------------------------------------------------------------------------------
(* What is true of the counters while a report is under way.               *)

(* getSummary has copied field f of s into a report that the client has    *)
(* not received yet ...                                                    *)
Taken(s, f) ==
  \/ srvPC = "summary" /\ (s < cursor \/ (s = cursor /\ f \notin todo))
  \/ srvPC = "reset" /\ s <= cursor
  \/ srvPC = "write" /\ line.cmd = "SENSORS"
  \/ reply = "report"

(* ... and reset has not cleared it yet: the map still holds what the      *)
(* report already carries.                                                 *)
Doubled(s, f) ==
  /\ s = cursor
  /\ \/ srvPC = "summary" /\ f \notin todo
     \/ srvPC = "reset" /\ f \in todo

(* newReading has been called for s but has not stored the new count.      *)
InFlight(s, f) ==
  IF appSensor # s THEN 0
  ELSE IF f = "numOfReadings"
    THEN IF appPC = "count" THEN 1 ELSE 0
    ELSE IF appPC = "idle" THEN 0 ELSE appValue

Reported(s, f) == IF Taken(s, f) THEN summary[s][f] ELSE 0
Unreported(s, f) == IF Doubled(s, f) THEN 0 ELSE m_sensors_map[s][f]

(* Every reading and every successful reading of a sensor is in exactly    *)
(* one place: in a report the client has received, in the report under     *)
(* way, in the map, or still inside newReading.  This holds for a sensor   *)
(* as long as newReading and getSummary/reset never overlapped on it: an   *)
(* overlap of the two is the only way to lose or repeat a reading.         *)
ReadingsConserved ==
  \A s \in Sensors, f \in Counts :
    ~raced[s] =>
      delivered[s][f] =
        received[s][f] + Reported(s, f) + Unreported(s, f) + InFlight(s, f)

NothingInvented ==
  \A s \in Sensors, f \in Counts : m_sensors_map[s][f] <= delivered[s][f]

(* The report the client parses agrees with itself: no more successes than *)
(* readings, and a rate computed from the very count it carries.  And      *)
(* whatever the two threads do to each other, no count it may be made of   *)
(* exceeds the number of readings that ever arrived.                       *)
ReportConsistent ==
  /\ NothingInvented
  /\ reply = "report" =>
       \A s \in Sensors :
         ~raced[s] => /\ summary[s]["numOfSuccReadings"] <= summary[s]["numOfReadings"]
                      /\ summary[s]["averageRate"] = summary[s]["numOfReadings"]

(* Between two commands the map holds exactly what the last acknowledged   *)
(* command asked for: neither a report's reset nor a reading of the        *)
(* application thread disturbs a state or the speed.                       *)
CommandInForce ==
  (srvPC # "tokens" /\ inForce # None) =>
    /\ other = inForce.speed
    /\ \A s \in Sensors \cap Named : m_sensors_map[s]["state"] = inForce.state[s]

(* Every request the server has been sent is answered, unless the client   *)
(* hangs up first.                                                         *)
RequestAnswered ==
  (request # None) ~> (reply # "none" \/ client = "gone")

(* What the comment of Sensor.parseReply takes for granted: with no report *)
(* under way, what the client has been told and what the map still counts  *)
(* add up to the readings that arrived.                                    *)
AccurateReadings ==
  (appPC = "idle" /\ srvPC = "read" /\ reply = "none") =>
    \A s \in Sensors, f \in Counts :
      delivered[s][f] = received[s][f] + m_sensors_map[s][f]

(* The report the server is putting together, or has answered with, already *)
(* covers sensor s.                                                        *)
Covered(s) ==
  \/ srvPC = "summary" /\ s < cursor
  \/ srvPC = "reset" /\ s <= cursor
  \/ srvPC = "write" /\ line.cmd = "SENSORS"
  \/ reply = "report"

(* The refinement mapping.  A report takes sensor s at the moment          *)
(* getSummary has copied its last field: until then its readings are       *)
(* pending, from then on what is left in the map of the cursor's sensor is *)
(* only waiting for reset.                                                 *)
Pending(s, f) ==
  IF raced[s] \/ (srvPC = "reset" /\ s = cursor) THEN 0
  ELSE m_sensors_map[s][f] + InFlight(s, f)
Batch(s, f) == IF Covered(s) /\ ~raced[s] THEN summary[s][f] ELSE 0
Told(s, f) == IF raced[s] THEN 0 ELSE received[s][f]

AbsPending == [s \in Sensors |-> [f \in Counts |-> Pending(s, f)]]
AbsBatch == [s \in Sensors |-> [f \in Counts |-> Batch(s, f)]]
AbsTold == [s \in Sensors |-> [f \in Counts |-> Told(s, f)]]
AbsTaken == {s \in Sensors : Covered(s)}
AbsSpoiled == {s \in Sensors : raced[s]}

Abstract == INSTANCE Readings WITH
  pending <- AbsPending, batch <- AbsBatch, told <- AbsTold, taken <- AbsTaken,
  spoiled <- AbsSpoiled

(* The fields are copied and cleared one by one, yet for a sensor on which *)
(* the threads never overlapped it is as if a report took all its readings *)
(* in one step, and each reading is told exactly once.                     *)
ImplementsReadings == Abstract!Spec

==============================================================================
