------------------------------ MODULE CommServer ------------------------------
(***************************************************************************)
(* ThreadedCommServer, the MOOSDB's side of its connections.  The          *)
(* listening thread shakes hands and starts two threads per client, one    *)
(* that reads its packets into the list of the server thread and one that  *)
(* writes what the server thread hands it; the server thread answers the   *)
(* packets and cleans up after clients that are gone.                      *)
(*                                                                         *)
(* A session is one accepted connection.  All clients are asynchronous, as *)
(* the repository builds them.                                             *)
(***************************************************************************)
EXTENDS Integers, Sequences, FiniteSets, FiniteSetsExt, SequencesExt

CONSTANTS
  Clients,      \* names
  Buffer,       \* packets the network takes for a client that does not read
  MaxSessions,  \* bound: connections accepted
  MaxPackets    \* bound: packets on the list of the server thread and of a writer

ASSUME CommServerAssumption ==
  /\ Buffer \in Nat /\ MaxSessions \in Nat /\ MaxPackets \in Nat

Sessions == 1 .. MaxSessions
FDs == 1 .. MaxSessions
None == "none"
NoSession == 0

ASSUME NamesAssumption == None \notin Clients

VARIABLES
  m_Socket2ClientMap,          \* [FDs -> name]
  m_ClientThreads,             \* [Clients -> session]
  m_SharedDataListFromClient,  \* of the server thread: [status, session]
  outgoing,                    \* _SharedDataOutgoing of each session
  m_SocketListLock,            \* who holds it
  lpc, newcomer,               \* the listening thread and the session it welcomes
  spc, leaver,                 \* the server thread and the session it cleans up
  worker, writer,              \* the threads of each session
  sessions,                    \* how many there have been
  name, fd,                    \* of each session; fd 0: the socket is closed
  client,                      \* the process at the other end
  buffered,                    \* packets sent to it and not read
  history                      \* the last poisoning and the errors reported

threadVars == <<lpc, newcomer, spc, leaver, worker, writer>>
clientVars == <<client, buffered>>
sessionVars == <<sessions, name, fd>>
vars == <<m_Socket2ClientMap, m_ClientThreads, m_SharedDataListFromClient, outgoing,
          m_SocketListLock, threadVars, clientVars, sessionVars, history>>

PKT == "packet"
CLOSED == "closed"
STOP_THREAD == "stop"

(* The types, and who holds the lock of the sockets when.                  *)
TypeOK ==
  /\ m_Socket2ClientMap \in [FDs -> Clients \cup {None}]
  /\ m_ClientThreads \in [Clients -> Sessions \cup {NoSession}]
  /\ m_SharedDataListFromClient \in Seq([status : {PKT, CLOSED}, session : 1 .. sessions])
  /\ outgoing \in [Sessions -> Seq({PKT, CLOSED, STOP_THREAD})]
  /\ m_SocketListLock = IF lpc # "accept" THEN "listener"
                        ELSE IF spc = "join" THEN "server" ELSE "free"
  /\ lpc \in {"accept", "handshake", "welcome"} /\ newcomer \in 0 .. sessions
  /\ spc \in {"pull", "disconnect", "join"} /\ leaver \in 0 .. sessions
  /\ worker \in [Sessions -> {"none", "run", "ended"}]
  /\ writer \in [Sessions -> {"none", "run", "ended"}]
  /\ sessions \in 0 .. MaxSessions
  /\ name \in [Sessions -> Clients \cup {None}] /\ fd \in [Sessions -> FDs \cup {0}]
  /\ client \in [Sessions -> {"none", "there", "hung", "gone"}]
  /\ buffered \in [Sessions -> 0 .. Buffer]
  /\ history \in [poisoned : {"no", "session", "nothing"}, errors : Nat]

Init ==
  /\ m_Socket2ClientMap = [f \in FDs |-> None]
  /\ m_ClientThreads = [c \in Clients |-> NoSession]
  /\ m_SharedDataListFromClient = <<>>
  /\ outgoing = [s \in Sessions |-> <<>>]
  /\ m_SocketListLock = "free"
  /\ lpc = "accept" /\ newcomer = 0
  /\ spc = "pull" /\ leaver = 0
  /\ worker = [s \in Sessions |-> "none"] /\ writer = [s \in Sessions |-> "none"]
  /\ sessions = 0
  /\ name = [s \in Sessions |-> None] /\ fd = [s \in Sessions |-> 0]
  /\ client = [s \in Sessions |-> "none"]
  /\ buffered = [s \in Sessions |-> 0]
  /\ history = [poisoned |-> "no", errors |-> 0]

------------------------------------------------------------------------------
(* The listening thread.                                                   *)

(* accept gives the lowest descriptor that is free.                        *)
FreeFD == Min(FDs \ {fd[s] : s \in Sessions})

(* A process named c connects: ListenLoop takes the lock for OnNewClient.  *)
Accept(c) ==
  /\ lpc = "accept" /\ m_SocketListLock = "free" /\ sessions < MaxSessions
  /\ m_SocketListLock' = "listener"
  /\ lpc' = "handshake" /\ newcomer' = sessions + 1 /\ sessions' = sessions + 1
  /\ name' = [name EXCEPT ![sessions + 1] = c]
  /\ fd' = [fd EXCEPT ![sessions + 1] = FreeFD]
  /\ client' = [client EXCEPT ![sessions + 1] = "there"]
  /\ UNCHANGED <<m_Socket2ClientMap, m_ClientThreads, m_SharedDataListFromClient, outgoing,
                 spc, leaver, worker, writer, buffered, history>>

(* OnNewClient fails: the socket is closed.                                *)
Spurn ==
  /\ fd' = [fd EXCEPT ![newcomer] = 0]
  /\ lpc' = "accept" /\ newcomer' = 0
  /\ m_SocketListLock' = "free"

(* Mutant: every name is taken for a new one.                              *)
IsUniqueName_Always(c) == TRUE

IsUniqueName(c) == \A f \in FDs : m_Socket2ClientMap[f] # c

(* HandShake has no name to read: the client is gone.                      *)
HandShakeFails ==
  /\ lpc = "handshake" /\ client[newcomer] = "gone"
  /\ Spurn
  /\ UNCHANGED <<m_Socket2ClientMap, m_ClientThreads, m_SharedDataListFromClient, outgoing,
                 spc, leaver, worker, writer, clientVars, sessions, name, history>>

(* HandShake reads a name that is in use: PoisonClient.                    *)
Poison ==
  /\ lpc = "handshake" /\ ~IsUniqueName(name[newcomer])
  /\ history' = [history EXCEPT !.poisoned =
                   IF m_ClientThreads[name[newcomer]] = NoSession THEN "nothing" ELSE "session"]
  /\ Spurn
  /\ UNCHANGED <<m_Socket2ClientMap, m_ClientThreads, m_SharedDataListFromClient, outgoing,
                 spc, leaver, worker, writer, clientVars, sessions, name>>

(* HandShake reads a new name and enters it.                               *)
HandShake ==
  /\ lpc = "handshake" /\ IsUniqueName(name[newcomer])
  /\ m_Socket2ClientMap' = [m_Socket2ClientMap EXCEPT ![fd[newcomer]] = name[newcomer]]
  /\ lpc' = "welcome"
  /\ UNCHANGED <<m_ClientThreads, m_SharedDataListFromClient, outgoing, m_SocketListLock,
                 newcomer, spc, leaver, worker, writer, clientVars, sessionVars, history>>

(* The welcome cannot be sent: HandShake catches the exception.            *)
WelcomeFails ==
  /\ lpc = "welcome" /\ client[newcomer] = "gone"
  /\ Spurn
  /\ UNCHANGED <<m_Socket2ClientMap, m_ClientThreads, m_SharedDataListFromClient, outgoing,
                 spc, leaver, worker, writer, clientVars, sessions, name, history>>

(* Welcomed, AddAndStartClientThread: a thread of that name is killed,     *)
(* which waits for its writer, and two new ones start.                     *)
Welcome ==
  /\ lpc = "welcome"
  /\ LET c == name[newcomer]  old == m_ClientThreads[c]
     IN  /\ old # NoSession => writer[old] = "ended" /\ worker[old] = "ended"
         /\ m_ClientThreads' = [m_ClientThreads EXCEPT ![c] = newcomer]
         /\ history' = IF old = NoSession THEN history
                       ELSE [history EXCEPT !.errors = @ + 1]
  /\ worker' = [worker EXCEPT ![newcomer] = "run"]
  /\ writer' = [writer EXCEPT ![newcomer] = "run"]
  /\ lpc' = "accept" /\ newcomer' = 0
  /\ m_SocketListLock' = "free"
  /\ UNCHANGED <<m_Socket2ClientMap, m_SharedDataListFromClient, outgoing, spc, leaver,
                 clientVars, sessionVars>>

------------------------------------------------------------------------------
(* The two threads of a session.                                           *)

(* HandleClientWrite: a packet of the client goes to the server thread.    *)
HandleClientWrite(s) ==
  /\ worker[s] = "run" /\ client[s] = "there"
  /\ Len(m_SharedDataListFromClient) < MaxPackets
  /\ m_SharedDataListFromClient' =
       Append(m_SharedDataListFromClient, [status |-> PKT, session |-> s])
  /\ UNCHANGED <<m_Socket2ClientMap, m_ClientThreads, outgoing, m_SocketListLock, threadVars,
                 clientVars, sessionVars, history>>

(* Mutant: the message overtakes the packets read before.                  *)
OnClientDisconnect_Front(s) ==
  /\ m_SharedDataListFromClient' =
       <<[status |-> CLOSED, session |-> s]>> \o m_SharedDataListFromClient
  /\ outgoing' = [outgoing EXCEPT ![s] = Append(@, CLOSED)]

(* ClientThread::OnClientDisconnect tells the server and writing threads.  *)
OnClientDisconnect(s) ==
  /\ m_SharedDataListFromClient' =
       Append(m_SharedDataListFromClient, [status |-> CLOSED, session |-> s])
  /\ outgoing' = [outgoing EXCEPT ![s] = Append(@, CLOSED)]

(* The client is gone, or silent beyond the timeout: the reading ends.     *)
WorkerEnds(s) ==
  /\ worker[s] = "run" /\ client[s] \in {"gone", "hung"}
  /\ OnClientDisconnect(s)
  /\ worker' = [worker EXCEPT ![s] = "ended"]
  /\ UNCHANGED <<m_Socket2ClientMap, m_ClientThreads, m_SocketListLock, lpc, newcomer, spc,
                 leaver, writer, clientVars, sessionVars, history>>

(* AsynchronousWriteLoop sends the next packet, if there is room for it.   *)
SendPkt(s) ==
  /\ writer[s] = "run" /\ outgoing[s] # <<>> /\ Head(outgoing[s]) = PKT
  /\ client[s] # "gone" /\ buffered[s] < Buffer
  /\ outgoing' = [outgoing EXCEPT ![s] = Tail(@)]
  /\ buffered' = [buffered EXCEPT ![s] = @ + 1]
  /\ UNCHANGED <<m_Socket2ClientMap, m_ClientThreads, m_SharedDataListFromClient,
                 m_SocketListLock, threadVars, client, sessionVars, history>>

(* It ends when it is told to, or when sending fails.                      *)
WriterEnds(s) ==
  /\ writer[s] = "run" /\ outgoing[s] # <<>>
  /\ Head(outgoing[s]) = PKT => client[s] = "gone"
  /\ outgoing' = [outgoing EXCEPT ![s] = Tail(@)]
  /\ writer' = [writer EXCEPT ![s] = "ended"]
  /\ UNCHANGED <<m_Socket2ClientMap, m_ClientThreads, m_SharedDataListFromClient,
                 m_SocketListLock, lpc, newcomer, spc, leaver, worker, clientVars, sessionVars,
                 history>>

------------------------------------------------------------------------------
(* The server thread.                                                      *)

Live == {s \in Sessions : \E c \in Clients : m_ClientThreads[c] = s}

(* ProcessClient: the sender is answered, if there is something to answer, *)
(* and mail is pushed to others; for a name without a thread it fails.     *)
ProcessClient(receivers) ==
  /\ spc = "pull" /\ m_SharedDataListFromClient # <<>>
  /\ Head(m_SharedDataListFromClient).status = PKT
  /\ m_SharedDataListFromClient' = Tail(m_SharedDataListFromClient)
  /\ LET c == name[Head(m_SharedDataListFromClient).session]
     IN  IF m_ClientThreads[c] = NoSession
           THEN /\ history' = [history EXCEPT !.errors = @ + 1]
                /\ UNCHANGED outgoing
           ELSE /\ outgoing' = [s \in Sessions |-> IF s \in receivers \cap Live
                                                     THEN Append(outgoing[s], PKT)
                                                     ELSE outgoing[s]]
                /\ UNCHANGED history
  /\ \A s \in receivers : Len(outgoing[s]) < MaxPackets
  /\ UNCHANGED <<m_Socket2ClientMap, m_ClientThreads, m_SocketListLock, threadVars,
                 clientVars, sessionVars>>

(* CONNECTION_CLOSED is pulled.                                            *)
PullClosed ==
  /\ spc = "pull" /\ m_SharedDataListFromClient # <<>>
  /\ Head(m_SharedDataListFromClient).status = CLOSED
  /\ m_SharedDataListFromClient' = Tail(m_SharedDataListFromClient)
  /\ spc' = "disconnect"
  /\ leaver' = Head(m_SharedDataListFromClient).session
  /\ UNCHANGED <<m_Socket2ClientMap, m_ClientThreads, outgoing, m_SocketListLock, lpc, newcomer,
                 worker, writer, clientVars, sessionVars, history>>

(* The thread OnClientDisconnect finds under the name.                     *)
Leaving == m_ClientThreads[name[leaver]]

(* OnClientDisconnect takes the lock and asks the writing thread to stop.  *)
KillWriter ==
  /\ spc = "disconnect" /\ m_SocketListLock = "free" /\ Leaving # NoSession
  /\ m_SocketListLock' = "server"
  /\ outgoing' = [outgoing EXCEPT ![Leaving] = Append(@, STOP_THREAD)]
  /\ spc' = "join"
  /\ UNCHANGED <<m_Socket2ClientMap, m_ClientThreads, m_SharedDataListFromClient, lpc, newcomer,
                 leaver, worker, writer, clientVars, sessionVars, history>>

(* Mutant: the name stays in the map of the sockets.                       *)
Forget_KeepsName(s) == UNCHANGED m_Socket2ClientMap

(* CMOOSCommServer::OnClientDisconnect forgets the name of the socket.     *)
Forget(s) == m_Socket2ClientMap' = [m_Socket2ClientMap EXCEPT ![fd[s]] = None]

(* Both threads have returned: the session is cleaned up.                  *)
CleanUp ==
  /\ spc = "join" /\ writer[Leaving] = "ended" /\ worker[Leaving] = "ended"
  /\ Forget(Leaving)
  /\ m_ClientThreads' = [m_ClientThreads EXCEPT ![name[leaver]] = NoSession]
  /\ fd' = [fd EXCEPT ![Leaving] = 0]
  /\ m_SocketListLock' = "free"
  /\ spc' = "pull" /\ leaver' = 0
  /\ UNCHANGED <<m_SharedDataListFromClient, outgoing, lpc, newcomer, worker, writer,
                 clientVars, sessions, name, history>>

------------------------------------------------------------------------------
(* The clients.                                                            *)

ClientReads(s) ==
  /\ client[s] = "there" /\ buffered[s] > 0
  /\ buffered' = [buffered EXCEPT ![s] = @ - 1]
  /\ UNCHANGED <<m_Socket2ClientMap, m_ClientThreads, m_SharedDataListFromClient, outgoing,
                 m_SocketListLock, threadVars, client, sessionVars, history>>

(* A process or its connection ends, or it stops without ending.           *)
ClientLeaves(s, how) ==
  /\ client[s] = "there" \/ (client[s] = "hung" /\ how = "gone")
  /\ how = "hung" => worker[s] = "run"
  /\ client' = [client EXCEPT ![s] = how]
  /\ UNCHANGED <<m_Socket2ClientMap, m_ClientThreads, m_SharedDataListFromClient, outgoing,
                 m_SocketListLock, threadVars, buffered, sessionVars, history>>

------------------------------------------------------------------------------
Listener == (\E c \in Clients : Accept(c)) \/ HandShakeFails \/ Poison \/ HandShake
              \/ WelcomeFails \/ Welcome

Server == (\E receivers \in SUBSET Live : ProcessClient(receivers)) \/ PullClosed \/ KillWriter
            \/ CleanUp

Session(s) == HandleClientWrite(s) \/ WorkerEnds(s) \/ SendPkt(s) \/ WriterEnds(s)

Client(s) == ClientReads(s) \/ \E how \in {"gone", "hung"} : ClientLeaves(s, how)

Next == Listener \/ Server \/ \E s \in Sessions : Session(s) \/ Client(s)

Spec == Init /\ [][Next]_vars

(* The server's threads are scheduled, and a client that does not hang     *)
(* reads.  Nothing makes a client that hangs go away.                      *)
Fairness ==
  /\ WF_vars(HandShakeFails \/ Poison \/ HandShake \/ WelcomeFails \/ Welcome)
  /\ WF_vars(Server)
  /\ \A s \in Sessions :
       WF_vars(WorkerEnds(s)) /\ WF_vars(SendPkt(s) \/ WriterEnds(s)) /\ WF_vars(ClientReads(s))

FairSpec == Spec /\ Fairness

------------------------------------------------------------------------------
(* The two maps agree: every thread's socket has its name, and there is    *)
(* one session to a name.                                                  *)
MapsAgree ==
  \A c \in Clients :
    m_ClientThreads[c] # NoSession =>
      /\ fd[m_ClientThreads[c]] # 0
      /\ m_Socket2ClientMap[fd[m_ClientThreads[c]]] = c
      /\ \A f \in FDs : m_Socket2ClientMap[f] = c => f = fd[m_ClientThreads[c]]

(* What the server thread has still to do under a name is about the        *)
(* session that has the name now, never about one before it; the "logical  *)
(* error" and the "worrying condition" of the code do not happen.          *)
SessionsIsolated ==
  /\ \A i \in DOMAIN m_SharedDataListFromClient :
       LET s == m_SharedDataListFromClient[i].session IN m_ClientThreads[name[s]] = s
  /\ spc # "pull" => Leaving = leaver
  /\ history.errors = 0

SomeHang == \E s \in Sessions : client[s] = "hung"

(* The name of a client that is gone becomes free, for it to come back, as *)
(* long as no other client has stopped reading without going away.         *)
NameReleased ==
  \A s \in Sessions :
    (s \in Live /\ client[s] = "gone") ~> (IsUniqueName(name[s]) \/ SomeHang)

(* "A client of this name already exists", the poisoned client is told.    *)
PoisonTruthful == history.poisoned # "nothing"

(* "This will stop slow comms slowing everything up": the server thread    *)
(* does not wait for one client for ever.                                  *)
ServerMovesOn == (spc = "join") ~> (spc = "pull")

==============================================================================
