------------------------------ MODULE Controller ------------------------------
(***************************************************************************)
(* The life of the Java controller: ControllerEngine.start (main thread),  *)
(* Controller.run (timer thread, one MAPE cycle per TIME_WINDOW), the      *)
(* Client both of them use, and the lists of Knowledge that logData zips   *)
(* together at the end.  The MAPE steps are the probabilistic ones         *)
(* MainController installs.                                                *)
(*                                                                         *)
(* Client.write prints a line and then reads one, and nothing makes the    *)
(* pair atomic: BufferedReader.readLine serialises only the reads.  The    *)
(* server (runServer2, see UUVServer) answers once per read(), and one     *)
(* read() may return two lines when both threads have written.             *)
(***************************************************************************)
EXTENDS Integers, Sequences

CONSTANT MaxCycles   \* bound: cycles the timer starts before it is cancelled

VARIABLES
  timer,     \* where Controller.run is
  main,      \* where ControllerEngine.start is
  reader,    \* the thread inside readLine, which holds the reader's lock
  toServer,  \* lines written and not yet read
  toClient,  \* reply lines written and not yet read
  server,    \* "up", or "dead" once sUUV has exited
  inits, rates, speeds, states, ends,  \* lengths of Knowledge's lists
  speedInForce, statesInForce,   \* the cycle whose speed / sensor states sUUV uses
  exitCode,  \* status of the java process: "none" while it runs
  logged,    \* rows logData has exported, or -1
  merged     \* history: a read() of the server returned two lines

knowledge == <<inits, rates, speeds, states, ends>>
vehicle == <<speedInForce, statesInForce>>

Threads == {"timer", "main"}
Sensors == [cmd |-> "SENSORS"]
Command(n) == [cmd |-> "SPEED", cycle |-> n]
ShutDownStr == [cmd |-> "###"]
Lines == {Sensors, ShutDownStr} \cup {Command(n) : n \in 1 .. MaxCycles}
Replies == {"report", "OK", "###", "unknown"}

TypeOK ==
  /\ timer \in {"waiting", "fired", "sensor", "plan", "effector", "dead"}
  /\ main \in {"sleeping", "cancelled", "shutDown", "grace", "exited"}
  /\ reader \in Threads \cup {"none"}
  /\ toServer \in Seq(Lines) /\ toClient \in Seq(Replies)
  /\ server \in {"up", "dead"}
  /\ {inits, rates, speeds, states, ends} \subseteq 0 .. MaxCycles
  /\ {speedInForce, statesInForce} \subseteq 0 .. MaxCycles
  /\ exitCode \in {"none", "0", "1"}
  /\ logged \in -1 .. MaxCycles
  /\ merged \in BOOLEAN

Init ==
  /\ timer = "waiting" /\ main = "sleeping" /\ reader = "none"
  /\ toServer = <<>> /\ toClient = <<>> /\ server = "up"
  /\ inits = 0 /\ rates = 0 /\ speeds = 0 /\ states = 0 /\ ends = 0
  /\ speedInForce = 0 /\ statesInForce = 0
  /\ exitCode = "none" /\ logged = -1 /\ merged = FALSE

------------------------------------------------------------------------------
(* Client: println never fails; readLine returns a line, null at the end   *)
(* of the stream, or throws when the peer has reset the connection.        *)

Println(line) == toServer' = Append(toServer, line)

Reading(t) == IF t = "timer" THEN timer \in {"sensor", "effector"} ELSE main = "shutDown"

Lock(t) ==
  /\ Reading(t) /\ reader = "none"
  /\ reader' = t
  /\ UNCHANGED <<timer, main, toServer, toClient, server, knowledge, vehicle, exitCode,
                 logged, merged>>

ReadLine(t, reply) ==
  /\ reader = t /\ reader' = "none"
  /\ \/ toClient # <<>> /\ reply = Head(toClient) /\ toClient' = Tail(toClient)
     \/ toClient = <<>> /\ server = "dead" /\ reply = "null" /\ UNCHANGED toClient
     \/ server = "dead" /\ reply = "IOException" /\ toClient' = <<>>

------------------------------------------------------------------------------
(* The timer thread: Controller.run.                                       *)

(* java.util.Timer finds the task due and not cancelled.                   *)
Fire ==
  /\ timer = "waiting" /\ main = "sleeping" /\ inits < MaxCycles
  /\ timer' = "fired"
  /\ UNCHANGED <<main, reader, toServer, toClient, server, knowledge, vehicle, exitCode,
                 logged, merged>>

StartCycle ==
  /\ timer = "fired"
  /\ inits' = inits + 1
  /\ Println(Sensors)
  /\ timer' = "sensor"
  /\ UNCHANGED <<main, reader, toClient, server, rates, speeds, states, ends, vehicle,
                 exitCode, logged, merged>>

(* Mutant: the reply is looked at but left in the stream.                  *)
SensorReply_Peek(reply) ==
  /\ timer = "sensor" /\ reader = "timer" /\ toClient # <<>> /\ reply = Head(toClient)
  /\ reader' = "none"
  /\ timer' = IF reply \in {"report", "IOException"} THEN "plan" ELSE "dead"
  /\ rates' = IF reply = "report" THEN rates + 1 ELSE rates
  /\ UNCHANGED <<main, toServer, toClient, server, inits, speeds, states, ends, vehicle,
                 exitCode, logged, merged>>

(* Sensor.run: only a report parses.  Any other line has no field 1 and    *)
(* null no fields at all: the exception kills the timer thread.  After an  *)
(* IOException the reply is "ERROR" and the cycle goes on.                 *)
SensorReply(reply) ==
  /\ timer = "sensor" /\ ReadLine("timer", reply)
  /\ timer' = IF reply \in {"report", "IOException"} THEN "plan" ELSE "dead"
  /\ rates' = IF reply = "report" THEN rates + 1 ELSE rates
  /\ UNCHANGED <<main, toServer, server, inits, speeds, states, ends, vehicle, exitCode,
                 logged, merged>>

(* Mutant: the effector sends the command of the cycle before.             *)
Plan_OldCommand ==
  /\ timer = "plan"
  /\ speeds' = speeds + 1
  /\ IF rates = 0
       THEN timer' = "dead" /\ UNCHANGED <<states, toServer>>
       ELSE timer' = "effector" /\ states' = states + 1 /\ Println(Command(speeds))
  /\ UNCHANGED <<main, reader, toClient, server, inits, rates, ends, vehicle, exitCode,
                 logged, merged>>

(* monitor, analyser, planner, executor: setUUVspeed comes first, then     *)
(* setSensorState throws for a sensor no report has named.                 *)
Plan ==
  /\ timer = "plan"
  /\ speeds' = speeds + 1
  /\ IF rates = 0
       THEN timer' = "dead" /\ UNCHANGED <<states, toServer>>
       ELSE timer' = "effector" /\ states' = states + 1 /\ Println(Command(speeds + 1))
  /\ UNCHANGED <<main, reader, toClient, server, inits, rates, ends, vehicle, exitCode,
                 logged, merged>>

(* Effector.run keeps the reply without looking at it.                     *)
EffectorReply(reply) ==
  /\ timer = "effector" /\ ReadLine("timer", reply)
  /\ ends' = ends + 1
  /\ timer' = "waiting"
  /\ UNCHANGED <<main, toServer, server, inits, rates, speeds, states, vehicle, exitCode,
                 logged, merged>>

(* Everything run does on the socket, before and after the plan.           *)
Exchange ==
  \/ Fire \/ StartCycle \/ Lock("timer")
  \/ \E reply \in Replies \cup {"null", "IOException"} :
       SensorReply(reply) \/ EffectorReply(reply)

------------------------------------------------------------------------------
(* The main thread: ControllerEngine.start.                                *)

(* The simulation time is over.  cancel lets a running cycle finish.       *)
Cancel ==
  /\ main = "sleeping"
  /\ main' = "cancelled"
  /\ UNCHANGED <<timer, reader, toServer, toClient, server, knowledge, vehicle, exitCode,
                 logged, merged>>

ShutDown ==
  /\ main = "cancelled"
  /\ Println(ShutDownStr)
  /\ main' = "shutDown"
  /\ UNCHANGED <<timer, reader, toClient, server, knowledge, vehicle, exitCode, logged,
                 merged>>

Exit(code) == main' = "exited" /\ exitCode' = code

(* Mutant: shutDown reads on until it sees its own reply.                  *)
ShutDownReply_Insists(reply) ==
  /\ main = "shutDown" /\ ReadLine("main", reply)
  /\ main' = IF reply \in {"###", "null", "IOException"} THEN "grace" ELSE main
  /\ UNCHANGED <<timer, toServer, server, knowledge, vehicle, exitCode, logged, merged>>

(* equals on null throws out of Controller.shutDown into start's catch;    *)
(* any other line, or an IOException, is only printed.                     *)
ShutDownReply(reply) ==
  /\ main = "shutDown" /\ ReadLine("main", reply)
  /\ IF reply = "null" THEN Exit("0") ELSE main' = "grace" /\ UNCHANGED exitCode
  /\ UNCHANGED <<timer, toServer, server, knowledge, vehicle, logged, merged>>

(* logData takes element i of every list for each i below speedList.size() *)
(* and throws when one of them is shorter.                                 *)
Zips == inits >= speeds /\ ends >= speeds /\ (rates > 0 => rates >= speeds /\ states >= speeds)

(* Mutant: logData runs without looking whether the lists match.           *)
LogData_Unchecked ==
  /\ main = "grace"
  /\ logged' = speeds /\ Exit("1")
  /\ UNCHANGED <<timer, reader, toServer, toClient, server, knowledge, vehicle, merged>>

LogData ==
  /\ main = "grace"
  /\ IF Zips THEN logged' = speeds /\ Exit("1") ELSE UNCHANGED logged /\ Exit("0")
  /\ UNCHANGED <<timer, reader, toServer, toClient, server, knowledge, vehicle, merged>>

MainThread ==
  \/ Cancel \/ ShutDown \/ LogData \/ Lock("main")
  \/ \E reply \in Replies \cup {"null", "IOException"} : ShutDownReply(reply)

------------------------------------------------------------------------------
(* The server.                                                             *)

(* What the server replies to the text one read() has returned.            *)
ReplyTo(lines) ==
  IF \E i \in DOMAIN lines : lines[i].cmd = "SPEED" THEN "OK"
  ELSE IF Len(lines) > 1 THEN "unknown"
  ELSE IF Head(lines) = Sensors THEN "report" ELSE "###"

(* A command that is not at the start of the text loses its speed: the     *)
(* first token's name is then "###\nSPEED", which the map does not hold.   *)
Apply(lines) ==
  /\ speedInForce' = IF Head(lines).cmd = "SPEED" THEN Head(lines).cycle ELSE speedInForce
  /\ statesInForce' = IF \E i \in DOMAIN lines : lines[i].cmd = "SPEED"
                      THEN (CHOOSE l \in {lines[i] : i \in DOMAIN lines} :
                              l.cmd = "SPEED").cycle
                      ELSE statesInForce

Serve(n) ==
  /\ server = "up" /\ n <= Len(toServer)
  /\ LET lines == SubSeq(toServer, 1, n)
     IN  Apply(lines) /\ toClient' = Append(toClient, ReplyTo(lines))
  /\ toServer' = SubSeq(toServer, n + 1, Len(toServer))
  /\ merged' = (merged \/ n > 1)
  /\ UNCHANGED <<timer, main, reader, server, knowledge, exitCode, logged>>

(* sUUV exits: its connection to MOOSDB came back (UUVStartup), clean.sh.  *)
ServerDies ==
  /\ server = "up"
  /\ server' = "dead"
  /\ UNCHANGED <<timer, main, reader, toServer, toClient, knowledge, vehicle, exitCode,
                 logged, merged>>

Server == \E n \in 1 .. Len(toServer) : Serve(n)

------------------------------------------------------------------------------
(* The request of the one thread that waits is on its way, or its reply    *)
(* is.                                                                     *)
OneOutstanding(line, reply) ==
  \/ toServer = <<line>> /\ toClient = <<>>
  \/ toServer = <<>> /\ toClient = <<reply>>

(* Before the shutdown there is one request at a time, so each of the      *)
(* timer's reads gets the answer to its own request and a waiting timer    *)
(* leaves nothing behind in the streams.                                   *)
OwnReply ==
  (main \in {"sleeping", "cancelled"} /\ server = "up") =>
    CASE timer = "sensor"   -> OneOutstanding(Sensors, "report")
      [] timer = "effector" -> OneOutstanding(Command(speeds), "OK")
      [] OTHER              -> toServer = <<>> /\ toClient = <<>>

(* A log that was exported has one row for every cycle that ended, and     *)
(* every row's start time, report, states, speed and end time are those of *)
(* one and the same cycle.                                                 *)
LogComplete ==
  logged # -1 => /\ logged = ends
                 /\ inits - 1 <= logged
                 /\ rates > 0 => states = logged /\ rates - 1 <= logged

(* After the simulation time the process ends by itself, unless the        *)
(* shutdown line was merged with the timer's request.                      *)
ShutdownEnds == (main = "cancelled") ~> (exitCode # "none" \/ merged)

(* launch.sh tells its user where the log is whenever the controller has   *)
(* ended: so a log was written.                                            *)
LogWritten == exitCode # "none" => logged # -1

==============================================================================
