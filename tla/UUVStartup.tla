------------------------------ MODULE UUVStartup ------------------------------
(***************************************************************************)
(* How sUUV comes up, and what a new connection to MOOSDB does to it.      *)
(*                                                                         *)
(* CMOOSApp::Run starts the communications thread and waits for it, at     *)
(* most five seconds and half a second more, before it calls OnStartUp.    *)
(* The communications thread calls OnConnectToServer each time it has      *)
(* connected, in parallel with all that.  OnConnectToServer opens the      *)
(* controller's server (initServer) and registers the sensors; OnStartUp   *)
(* reads the sensors and the port from the mission file, fills the map     *)
(* the server reports from and registers the sensors as well.              *)
(*                                                                         *)
(* The server's socket is the global sockfd of serverLoop.cpp: it is       *)
(* overwritten each time a server is opened, and a server thread that ends *)
(* closes whatever socket it names by then.                                *)
(***************************************************************************)
EXTENDS Integers, FiniteSets

CONSTANTS
  Configured,     \* sensors of the mission file's SENSORS line
  DefaultPort,    \* UUV::PORT of the constructor
  ConfPort,       \* PORT of the mission file and of config.properties
  MaxConnections  \* bound: connections to MOOSDB

ASSUME UUVStartupAssumption ==
  /\ IsFiniteSet(Configured) /\ Configured # {}
  /\ DefaultPort \in Nat /\ ConfPort \in Nat
  /\ MaxConnections \in Nat

VARIABLES
  main,         \* where CMOOSApp::Run is
  comms,        \* where the communications thread is
  connections,  \* connections made so far
  PORT, m_uuv_sensors,   \* members of UUV
  mapped,                \* names in m_sensors_map
  bound,        \* ports sUUV has a bound socket on
  sockfd,       \* the port of the socket opened last
  servers,      \* server threads that wait or serve, on each port
  subscribed,   \* sensors MOOSDB sends to this connection
  controller,   \* the client: "absent", "connected", "refused", "answered", "left"
  report,       \* sensors named in its first report
  up            \* the process has not exited

serverVars == <<bound, sockfd, servers>>
startupVars == <<main, comms, connections, PORT, m_uuv_sensors, mapped, serverVars,
          subscribed, controller, report, up>>

Ports == {DefaultPort, ConfPort}

StartupTypeOK ==
  /\ main \in {"waiting", "parse", "initMap", "register", "running"}
  /\ comms \in {"connecting", "initServer", "register", "connected"}
  /\ connections \in 0 .. MaxConnections
  /\ PORT \in Ports
  /\ m_uuv_sensors \subseteq Configured
  /\ mapped \subseteq Configured
  /\ bound \subseteq Ports
  /\ sockfd \in Ports \cup {0}
  /\ servers \in [Ports -> Nat]
  /\ subscribed \subseteq Configured
  /\ controller \in {"absent", "connected", "refused", "answered", "left"}
  /\ report \subseteq Configured
  /\ up \in BOOLEAN

StartupInit ==
  /\ main = "waiting" /\ comms = "connecting" /\ connections = 0
  /\ PORT = DefaultPort /\ m_uuv_sensors = {} /\ mapped = {}
  /\ bound = {} /\ sockfd = 0 /\ servers = [p \in Ports |-> 0] /\ subscribed = {}
  /\ controller = "absent" /\ report = {}
  /\ up = TRUE

(* m_bConnected is set before the callback runs.                           *)
IsConnected == comms # "connecting"

------------------------------------------------------------------------------
(* The main thread.                                                        *)

(* Connected, or tired of waiting: either way OnStartUp is next.           *)
StopWaiting ==
  /\ main = "waiting"
  /\ main' = "parse"
  /\ UNCHANGED <<comms, connections, PORT, m_uuv_sensors, mapped, serverVars,
                 subscribed, controller, report, up>>

ParseConfiguration ==
  /\ main = "parse"
  /\ m_uuv_sensors' = Configured /\ PORT' = ConfPort
  /\ main' = "initMap"
  /\ UNCHANGED <<comms, connections, mapped, serverVars, subscribed, controller, report, up>>

(* initSensorsMap inserts the sensors one by one.                          *)
InitSensorsMap ==
  /\ main = "initMap"
  /\ \E s \in m_uuv_sensors \ mapped :
       /\ mapped' = mapped \cup {s}
       /\ main' = IF mapped' = m_uuv_sensors THEN "register" ELSE "initMap"
  /\ UNCHANGED <<comms, connections, PORT, m_uuv_sensors, serverVars, subscribed, controller,
                 report, up>>

(* RegisterVariables: Register does nothing without a connection.          *)
RegisterVariables == subscribed' = IF IsConnected THEN subscribed \cup m_uuv_sensors ELSE subscribed

(* Mutant: OnStartUp leaves the registration to OnConnectToServer.         *)
StartUpRegister_Omitted ==
  /\ main = "register"
  /\ main' = "running"
  /\ UNCHANGED <<comms, connections, PORT, m_uuv_sensors, mapped, serverVars,
                 subscribed, controller, report, up>>

StartUpRegister ==
  /\ main = "register"
  /\ RegisterVariables
  /\ main' = "running"
  /\ UNCHANGED <<comms, connections, PORT, m_uuv_sensors, mapped, serverVars, controller,
                 report, up>>

MainThread == StopWaiting \/ ParseConfiguration \/ InitSensorsMap \/ StartUpRegister

------------------------------------------------------------------------------
(* The communications thread.                                              *)

ConnectToServer ==
  /\ comms = "connecting" /\ connections < MaxConnections
  /\ comms' = "initServer"
  /\ connections' = connections + 1
  /\ UNCHANGED <<main, PORT, m_uuv_sensors, mapped, serverVars, subscribed, controller,
                 report, up>>

(* A thread is started on the socket just bound.                           *)
OpenServer ==
  /\ bound' = bound \cup {PORT} /\ sockfd' = PORT
  /\ servers' = [servers EXCEPT ![PORT] = @ + 1]
  /\ comms' = "register"
  /\ UNCHANGED <<main, connections, PORT, m_uuv_sensors, mapped, subscribed, controller,
                 report, up>>

ExitInCallback ==
  /\ up' = FALSE
  /\ UNCHANGED <<main, comms, connections, PORT, m_uuv_sensors, mapped, serverVars,
                 subscribed, controller, report>>

(* Mutant: what bind returns is not looked at.                             *)
InitServer_Unchecked ==
  /\ comms = "initServer"
  /\ IF PORT < 2000 THEN ExitInCallback ELSE OpenServer

(* initialiseServer: a port that is too small or that bind refuses ends    *)
(* the process.  bind refuses a port that is bound, and may refuse any     *)
(* other: it is another process's, or a connection the server has closed   *)
(* lingers on it (SO_REUSEADDR is not set).                                *)
InitServer ==
  /\ comms = "initServer"
  /\ \/ PORT >= 2000 /\ PORT \notin bound /\ OpenServer
     \/ ExitInCallback

(* Mutant: OnConnectToServer leaves the registration to OnStartUp.         *)
ConnectRegister_Omitted ==
  /\ comms = "register"
  /\ comms' = "connected"
  /\ UNCHANGED <<main, connections, PORT, m_uuv_sensors, mapped, serverVars,
                 subscribed, controller, report, up>>

ConnectRegister ==
  /\ comms = "register"
  /\ RegisterVariables
  /\ comms' = "connected"
  /\ UNCHANGED <<main, connections, PORT, m_uuv_sensors, mapped, serverVars, controller,
                 report, up>>

(* The socket to MOOSDB breaks; MOOSDB::OnDisconnect drops what this       *)
(* client had registered.                                                  *)
ConnectionLost ==
  /\ comms = "connected"
  /\ comms' = "connecting" /\ subscribed' = {}
  /\ UNCHANGED <<main, connections, PORT, m_uuv_sensors, mapped, serverVars, controller,
                 report, up>>

CommsThread == ConnectToServer \/ InitServer \/ ConnectRegister \/ ConnectionLost

------------------------------------------------------------------------------
(* The controller's one attempt to connect, and the server's first report. *)

ClientConnect ==
  /\ controller = "absent"
  /\ controller' = IF ConfPort \in bound THEN "connected" ELSE "refused"
  /\ UNCHANGED <<main, comms, connections, PORT, m_uuv_sensors, mapped, serverVars,
                 subscribed, report, up>>

(* runServer2 answers SENSORS.  With an empty map there is no last comma   *)
(* to replace: the exception ends the process.                             *)
FirstReport ==
  /\ controller = "connected"
  /\ IF mapped = {}
       THEN up' = FALSE /\ UNCHANGED <<controller, report>>
       ELSE controller' = "answered" /\ report' = mapped /\ UNCHANGED up
  /\ UNCHANGED <<main, comms, connections, PORT, m_uuv_sensors, mapped, serverVars,
                 subscribed>>

(* The controller says "!!": the thread that serves it closes the global   *)
(* socket and ends.                                                        *)
ServerEnds ==
  /\ controller \in {"connected", "answered"}
  /\ controller' = "left"
  /\ servers' = [servers EXCEPT ![ConfPort] = @ - 1]
  /\ bound' = bound \ {sockfd}
  /\ UNCHANGED <<main, comms, connections, PORT, m_uuv_sensors, mapped, sockfd, subscribed,
                 report, up>>

(* The controller closes its socket: read() returns 0, which is an error   *)
(* to the server and ends the process.                                     *)
ClientCloses ==
  /\ controller \in {"connected", "answered"}
  /\ up' = FALSE
  /\ UNCHANGED <<main, comms, connections, PORT, m_uuv_sensors, mapped, serverVars,
                 subscribed, controller, report>>

ServedClient == ClientConnect \/ FirstReport \/ ServerEnds \/ ClientCloses

StartupNext == up /\ (MainThread \/ CommsThread \/ ServedClient)

StartupSpec == StartupInit /\ [][StartupNext]_startupVars

(* Both threads run; nobody promises that MOOSDB keeps the connection.     *)
FairStartupSpec ==
  /\ StartupSpec
  /\ WF_startupVars(up /\ MainThread)
  /\ WF_startupVars(up /\ (ConnectToServer \/ InitServer \/ ConnectRegister))

------------------------------------------------------------------------------
(* sUUV is never deaf: once both threads are through, a connected process  *)
(* receives every sensor, in whichever order OnStartUp, the callback and   *)
(* the loss of a connection came.                                          *)
NeverDeaf ==
  (up /\ main = "running" /\ comms = "connected") => subscribed = Configured

(* However often MOOSDB reconnects and whenever the controller leaves, no  *)
(* port has two server threads: where the mission file keeps the default   *)
(* port, the map, which has no lock, is used by one of them.  It is the    *)
(* error of bind that prevents a second one, so the socket closed by a     *)
(* thread that ends has to be its own.                                     *)
OneServer == \A p \in Ports : servers[p] <= 1

(* A connection either leads to a process that serves the controller and   *)
(* hears its sensors, or is lost again, or is the end of the process.      *)
ConnectionSettles ==
  (comms = "initServer") ~>
    \/ ~up \/ comms = "connecting"
    \/ /\ main = "running" /\ subscribed = Configured
       /\ bound # {} \/ controller = "left"

(* UUV.cpp says of OnStartUp: happens before connection is open.  Then the *)
(* controller's server, opened on connection, would always find the map    *)
(* filled.                                                                 *)
StartUpBeforeConnection == bound # {} => mapped = Configured

==============================================================================
