--------------------------- MODULE CommServerProofs ---------------------------
(***************************************************************************)
(* That the two maps of the communications server agree, and that no       *)
(* session is answered or cleaned up for another, for any clients and any  *)
(* number of connections.                                                  *)
(*                                                                         *)
(* The argument: a name gets a thread only by a handshake that found it in *)
(* no socket's entry, under the lock that the clean-up needs as well; and  *)
(* the message that a session has closed is its last on the list of the    *)
(* server thread, so after its clean-up nothing is left to do for it.      *)
(***************************************************************************)
EXTENDS CommServer, FiniteSetTheorems, TLAPS

List == m_SharedDataListFromClient
Item == [status : {PKT, CLOSED}, session : Sessions]

Types ==
  /\ m_Socket2ClientMap \in [FDs -> Clients \cup {None}]
  /\ m_ClientThreads \in [Clients -> Sessions \cup {NoSession}]
  /\ List \in Seq(Item)
  /\ sessions \in 0 .. MaxSessions
  /\ name \in [Sessions -> Clients \cup {None}]
  /\ fd \in [Sessions -> FDs \cup {0}]
  /\ worker \in [Sessions -> {"none", "run", "ended"}]
  /\ lpc \in {"accept", "handshake", "welcome"} /\ spc \in {"pull", "disconnect", "join"}
  /\ newcomer \in 0 .. sessions /\ leaver \in 0 .. sessions
  /\ history \in [poisoned : {"no", "session", "nothing"}, errors : Nat]

(* Who holds the lock of the sockets.                                      *)
Locked ==
  /\ lpc # "accept" => m_SocketListLock = "listener"
  /\ spc = "join" => m_SocketListLock = "server"

(* No two sessions have a socket in common.                                *)
Sockets ==
  /\ \A s, t \in Sessions : s # t /\ fd[s] # 0 => fd[s] # fd[t]
  /\ \A s \in Sessions : s > sessions => fd[s] = 0 /\ worker[s] = "none"
  /\ \A s \in Sessions : s <= sessions => name[s] \in Clients

(* The session that has a name's thread was started under that name.       *)
Threads ==
  \A c \in Clients :
    m_ClientThreads[c] # NoSession =>
      /\ m_ClientThreads[c] <= sessions
      /\ name[m_ClientThreads[c]] = c
      /\ worker[m_ClientThreads[c]] # "none"

(* Between handshake and welcome the name belongs to the newcomer's socket *)
(* alone, and no thread has it.                                            *)
Welcoming ==
  /\ lpc # "accept" => newcomer # 0 /\ fd[newcomer] # 0 /\ worker[newcomer] = "none"
  /\ lpc = "welcome" =>
       /\ m_Socket2ClientMap[fd[newcomer]] = name[newcomer]
       /\ \A f \in FDs : m_Socket2ClientMap[f] = name[newcomer] => f = fd[newcomer]
       /\ m_ClientThreads[name[newcomer]] = NoSession

(* A session that is read from has its name's thread.                      *)
Reads == \A s \in Sessions : worker[s] = "run" => m_ClientThreads[name[s]] = s

(* So has one with something on the list, and its closing comes last.      *)
Queued ==
  \A i \in 1 .. Len(List) :
    /\ List[i].session <= sessions
    /\ m_ClientThreads[name[List[i].session]] = List[i].session
    /\ List[i].status = CLOSED =>
         /\ worker[List[i].session] = "ended"
         /\ \A j \in i + 1 .. Len(List) : List[j].session # List[i].session

(* So has the one that is cleaned up, and nothing is left on the list.     *)
Leaves ==
  spc # "pull" =>
    /\ leaver # 0 /\ worker[leaver] = "ended"
    /\ m_ClientThreads[name[leaver]] = leaver
    /\ \A i \in 1 .. Len(List) : List[i].session # leaver

IInv ==
  /\ Types /\ Locked /\ Sockets /\ Threads /\ MapsAgree
  /\ Welcoming /\ Reads /\ Queued /\ Leaves /\ history.errors = 0

------------------------------------------------------------------------------
(* The constants, as the provers like them.                                *)
LEMMA Constants ==
  /\ MaxSessions \in Nat /\ Sessions = 1 .. MaxSessions /\ FDs = 1 .. MaxSessions
  /\ None \notin Clients /\ NoSession = 0 /\ PKT # CLOSED
BY CommServerAssumption, NamesAssumption DEF Sessions, FDs, NoSession, PKT, CLOSED

(* As long as a connection can be accepted, a descriptor is free.          *)
LEMMA DescriptorLeft ==
  ASSUME Types, Sockets, sessions < MaxSessions
  PROVE  \E x \in FDs : \A s \in Sessions : fd[s] # x
<1> USE Constants
<1> SUFFICES ASSUME \A x \in FDs : \E s \in Sessions : fd[s] = x PROVE FALSE
  OBVIOUS
<1> DEFINE S == 1 .. sessions
           owner == [x \in FDs |-> CHOOSE s \in S : fd[s] = x]
<1>1. \A x \in FDs : \E s \in S : fd[s] = x
  <2> SUFFICES ASSUME NEW x \in FDs PROVE \E s \in S : fd[s] = x
    OBVIOUS
  <2>1. PICK s \in Sessions : fd[s] = x
    OBVIOUS
  <2>2. x # 0 /\ sessions \in Nat /\ s \in Nat /\ s >= 1
    BY DEF Types
  <2>3. s <= sessions
    BY <2>1, <2>2 DEF Sockets
  <2> QED BY <2>1, <2>2, <2>3
<1>2. \A x \in FDs : owner[x] \in S /\ fd[owner[x]] = x
  BY <1>1
<1>3. owner \in [FDs -> S]
  BY <1>2
<1>4. IsFiniteSet(FDs) /\ Cardinality(FDs) = MaxSessions
  <2>1. 1 \in Int /\ MaxSessions \in Int OBVIOUS
  <2> QED BY <2>1, FS_Interval
<1>5. IsFiniteSet(S) /\ Cardinality(S) = sessions
  <2>1. 1 \in Int /\ sessions \in Int /\ sessions >= 0
    BY DEF Types
  <2>2. IsFiniteSet(1 .. sessions)
        /\ Cardinality(1 .. sessions) = IF 1 > sessions THEN 0 ELSE sessions - 1 + 1
    BY <2>1, FS_Interval
  <2> QED BY <2>1, <2>2
<1>6. Cardinality(S) < Cardinality(FDs)
  BY <1>4, <1>5 DEF Types
<1>7. \E x, y \in FDs : x # y /\ owner[x] = owner[y]
  <2> HIDE DEF owner, S
  <2> HIDE Constants
  <2>1. IsFiniteSet(FDs) /\ IsFiniteSet(S) /\ Cardinality(S) < Cardinality(FDs)
    BY <1>4, <1>5, <1>6
  <2> QED BY ONLY <1>3, <2>1, FS_PigeonHole
<1> QED BY <1>2, <1>7

(* The descriptor of an accepted connection is nobody else's.              *)
LEMMA FreeFDIsFree ==
  ASSUME Types, Sockets, sessions < MaxSessions
  PROVE  FreeFD \in FDs /\ \A s \in Sessions : fd[s] # FreeFD
<1> USE Constants
<1> DEFINE free == FDs \ {fd[s] : s \in Sessions}
           before == {ss \in Nat \X Nat : ss[1] < ss[2]}
<1>1. IsWellFoundedOn(before, Nat)
  BY NatLessThanWellFounded DEF OpToRel
<1>2. free # {} /\ free \subseteq Nat
  <2>1. PICK x \in FDs : \A s \in Sessions : fd[s] # x
    BY DescriptorLeft
  <2>2. x \in free
    BY <2>1
  <2> QED BY <2>2
<1>3. PICK x \in free : \A y \in free : <<y, x>> \notin before
  <2> HIDE DEF free, before
  <2> QED BY <1>1, <1>2, WFMin
<1>4. \A y \in free : x <= y
  <2> SUFFICES ASSUME NEW y \in free PROVE x <= y
    OBVIOUS
  <2>1. x \in Nat /\ y \in Nat /\ <<y, x>> \notin before
    BY <1>2, <1>3
  <2>2. ~(y < x)
    BY <2>1
  <2> QED BY <2>1, <2>2
<1>5. FreeFD \in free
  <2> HIDE DEF free, before
  <2>1. FreeFD = Min(free)
    BY DEF FreeFD, free
  <2> QED BY <1>4, <2>1 DEF Min
<1> QED BY <1>5

(* The server starts in the invariant.                                     *)
LEMMA ServerStarts == Init => IInv
<1> SUFFICES ASSUME Init PROVE IInv
  OBVIOUS
<1> USE Constants DEF Init
<1>1. Types
  BY DEF Types, List
<1>2. Sockets
  BY DEF Sockets
<1>3. Queued
  BY DEF Queued, List
<1> QED
  BY <1>1, <1>2, <1>3 DEF IInv, Locked, Threads, MapsAgree, Welcoming, Reads, Leaves

------------------------------------------------------------------------------
(* What the invariant is about.                                            *)
kept == <<m_Socket2ClientMap, m_ClientThreads, m_SharedDataListFromClient, m_SocketListLock,
          lpc, newcomer, spc, leaver, worker, sessions, name, fd, history>>

(* Writing to a client, and all that clients do, leaves it alone.          *)
LEMMA Untouched == IInv /\ UNCHANGED kept => IInv'
BY DEF kept, IInv, Types, Locked, Sockets, Threads, MapsAgree, Welcoming, Reads, Queued,
       Leaves, List, Item

(* A session that has been started has a client's name.                    *)
LEMMA Started ==
  ASSUME Types, Sockets, NEW s \in Sessions, worker[s] # "none"
  PROVE  s <= sessions /\ name[s] \in Clients
<1>1. s \in Nat /\ sessions \in Nat
  BY Constants DEF Types
<1> QED BY <1>1 DEF Sockets

(* Whoever is accepted or served is a session.                             *)
LEMMA Numbers ==
  ASSUME Types
  PROVE  /\ sessions \in Nat /\ sessions <= MaxSessions
         /\ newcomer # 0 => newcomer \in Sessions /\ newcomer <= sessions
         /\ leaver # 0 => leaver \in Sessions /\ leaver <= sessions
BY Constants DEF Types

(* What is on the list is about sessions.                                  *)
LEMMA OnTheList ==
  ASSUME Types
  PROVE  \A i \in 1 .. Len(List) : /\ List[i].session \in Sessions
                                   /\ List[i].status \in {PKT, CLOSED}
<1> SUFFICES ASSUME NEW i \in 1 .. Len(List)
             PROVE  List[i].session \in Sessions /\ List[i].status \in {PKT, CLOSED}
  OBVIOUS
<1>1. List \in Seq(Item)
  BY DEF Types
<1>2. List[i] \in Item
  BY <1>1
<1> QED BY <1>2 DEF Item

(* A connection is accepted: a new session on a descriptor of its own.     *)
LEMMA AcceptKeeps == ASSUME IInv, NEW c \in Clients, Accept(c) PROVE IInv'
<1> DEFINE n == sessions + 1  d == FreeFD
<1>1. n \in Sessions /\ sessions \in Nat /\ ~(n <= sessions)
  BY Constants, Numbers DEF IInv, Accept
<1>2. d \in FDs /\ \A s \in Sessions : fd[s] # d
  BY FreeFDIsFree DEF IInv, Accept
<1>3. /\ fd' = [fd EXCEPT ![n] = d] /\ name' = [name EXCEPT ![n] = c]
      /\ sessions' = n /\ newcomer' = n /\ lpc' = "handshake" /\ lpc = "accept"
      /\ m_SocketListLock = "free" /\ m_SocketListLock' = "listener" /\ sessions < MaxSessions
      /\ UNCHANGED <<m_Socket2ClientMap, m_ClientThreads, m_SharedDataListFromClient, spc,
                     leaver, worker, history>>
  BY DEF Accept
<1>4. fd[n] = 0 /\ worker[n] = "none"
  BY <1>1 DEF IInv, Sockets
<1>5. d # 0
  BY <1>2, Constants
<1> HIDE DEF n, d
<1>6. Types'
  BY <1>1, <1>2, <1>3, Constants DEF IInv, Types, List
<1>7. Locked'
  BY <1>3 DEF IInv, Locked
<1>8. Sockets'
  <2>1. \A s \in Sessions : fd'[s] = IF s = n THEN d ELSE fd[s]
    BY <1>3 DEF IInv, Types
  <2>2. \A s, t \in Sessions : s # t /\ fd'[s] # 0 => fd'[s] # fd'[t]
    BY <2>1, <1>2 DEF IInv, Sockets
  <2>3. \A s \in Sessions : s > n => s > sessions /\ s # n
    BY <1>1, Constants DEF n
  <2>4. \A s \in Sessions : s <= n => s <= sessions \/ s = n
    BY <1>1, Constants DEF n
  <2>5. \A s \in Sessions : s > sessions' => fd'[s] = 0 /\ worker'[s] = "none"
    BY <2>1, <2>3, <1>3 DEF IInv, Sockets
  <2>6. \A s \in Sessions : s <= sessions' => name'[s] \in Clients
    BY <2>4, <1>3 DEF IInv, Sockets, Types
  <2> QED BY <2>2, <2>5, <2>6 DEF Sockets
<1>9. \A k \in Sessions : k <= sessions => k <= n /\ k # n /\ name'[k] = name[k] /\ fd'[k] = fd[k]
  BY <1>1, <1>3, Constants DEF IInv, Types, n
<1>10. Threads' /\ MapsAgree'
  <2>1. \A x \in Clients : m_ClientThreads[x] # NoSession =>
          m_ClientThreads[x] \in Sessions /\ m_ClientThreads[x] <= sessions
    BY DEF IInv, Types, Threads
  <2> QED BY <1>3, <1>9, <2>1 DEF IInv, Threads, MapsAgree
<1>11. Welcoming'
  BY <1>1, <1>2, <1>3, <1>4, <1>5, Constants DEF IInv, Types, Welcoming
<1>12. Reads'
  BY <1>3, <1>4, <1>9, Started DEF IInv, Reads
<1>13. Queued'
  <2>1. \A i \in 1 .. Len(List) : List[i].session \in Sessions
    BY OnTheList DEF IInv
  <2>2. List' = List /\ m_ClientThreads' = m_ClientThreads /\ worker' = worker /\ sessions' = n
    BY <1>3 DEF List
  <2>3. \A i \in 1 .. Len(List) : LET s == List[i].session
                                 IN  s <= n /\ name'[s] = name[s]
    BY <1>9, <2>1 DEF IInv, Queued
  <2> QED BY <2>2, <2>3 DEF IInv, Queued
<1>14. Leaves'
  BY <1>3, <1>9, Numbers DEF IInv, Leaves, List
<1> QED
  BY <1>3, <1>6, <1>7, <1>8, <1>10, <1>11, <1>12, <1>13, <1>14 DEF IInv

(* A newcomer is turned away: no thread had its socket.                    *)
LEMMA SpurnKeeps ==
  ASSUME IInv, Spurn, lpc # "accept",
         history' \in [poisoned : {"no", "session", "nothing"}, errors : Nat],
         history'.errors = 0,
         UNCHANGED <<m_Socket2ClientMap, m_ClientThreads, m_SharedDataListFromClient, spc,
                     leaver, worker, sessions, name>>
  PROVE  IInv'
<1>1. newcomer \in Sessions /\ worker[newcomer] = "none"
  BY Numbers DEF IInv, Welcoming
<1>2. fd' = [fd EXCEPT ![newcomer] = 0] /\ lpc' = "accept" /\ newcomer' = 0
      /\ m_SocketListLock' = "free" /\ spc # "join"
  BY DEF Spurn, IInv, Locked
<1>3. Types'
  BY <1>1, <1>2, Numbers DEF IInv, Types, List
<1>4. \A s \in Sessions : fd'[s] = IF s = newcomer THEN 0 ELSE fd[s]
  BY <1>2 DEF IInv, Types
<1>5. Sockets'
  BY <1>4 DEF IInv, Sockets
<1>6. Threads'
  BY DEF IInv, Threads
<1>7. \A c \in Clients : m_ClientThreads[c] # NoSession =>
        m_ClientThreads[c] \in Sessions /\ fd'[m_ClientThreads[c]] = fd[m_ClientThreads[c]]
  BY <1>1, <1>4 DEF IInv, Types, Threads
<1>8. MapsAgree'
  BY <1>7 DEF IInv, MapsAgree
<1>9. Reads' /\ Queued' /\ Leaves'
  BY DEF IInv, Reads, Queued, Leaves, List
<1> QED
  BY <1>2, <1>3, <1>5, <1>6, <1>8, <1>9 DEF IInv, Locked, Welcoming

(* A new name is entered, over whatever was left at the descriptor.        *)
LEMMA HandShakeKeeps == ASSUME IInv, HandShake PROVE IInv'
<1> DEFINE c == name[newcomer]
<1>1. newcomer \in Sessions /\ newcomer <= sessions /\ worker[newcomer] = "none"
      /\ fd[newcomer] # 0 /\ fd[newcomer] \in FDs /\ c \in Clients
  BY Numbers DEF IInv, Types, Sockets, Welcoming, HandShake
<1>2. /\ m_Socket2ClientMap' = [m_Socket2ClientMap EXCEPT ![fd[newcomer]] = c]
      /\ lpc = "handshake" /\ lpc' = "welcome"
      /\ \A f \in FDs : m_Socket2ClientMap[f] # c
      /\ UNCHANGED <<m_ClientThreads, m_SharedDataListFromClient, m_SocketListLock, newcomer,
                     spc, leaver, worker, sessions, name, fd, history>>
  BY DEF HandShake, IsUniqueName, sessionVars
<1> HIDE DEF c
<1>3. Types'
  BY <1>1, <1>2 DEF IInv, Types, List
<1>4. Locked' /\ Sockets' /\ Threads' /\ Reads' /\ Queued' /\ Leaves'
  <2>1. Locked' /\ Sockets'
    BY <1>2 DEF IInv, Locked, Sockets
  <2>2. Threads' /\ Reads'
    BY <1>2 DEF IInv, Threads, Reads
  <2>3. Queued' /\ Leaves'
    BY <1>2 DEF IInv, Queued, Leaves, List
  <2> QED BY <2>1, <2>2, <2>3
<1>5. \A f \in FDs : m_Socket2ClientMap'[f] =
                      IF f = fd[newcomer] THEN c ELSE m_Socket2ClientMap[f]
  BY <1>2 DEF IInv, Types
<1>6. \A x \in Clients : m_ClientThreads[x] # NoSession =>
        /\ m_ClientThreads[x] \in Sessions /\ m_ClientThreads[x] # newcomer /\ x # c
        /\ fd[m_ClientThreads[x]] \in FDs /\ fd[m_ClientThreads[x]] # fd[newcomer]
  <2> SUFFICES ASSUME NEW x \in Clients, m_ClientThreads[x] # NoSession
               PROVE  /\ m_ClientThreads[x] \in Sessions /\ m_ClientThreads[x] # newcomer /\ x # c
                      /\ fd[m_ClientThreads[x]] \in FDs /\ fd[m_ClientThreads[x]] # fd[newcomer]
    OBVIOUS
  <2>1. m_ClientThreads[x] \in Sessions /\ m_ClientThreads[x] # newcomer
    BY <1>1 DEF IInv, Types, Threads
  <2>2. fd[m_ClientThreads[x]] \in FDs /\ m_Socket2ClientMap[fd[m_ClientThreads[x]]] = x
    BY <2>1 DEF IInv, Types, MapsAgree
  <2> QED BY <1>1, <1>2, <2>1, <2>2 DEF IInv, Sockets
<1>7. MapsAgree'
  <2> SUFFICES ASSUME NEW x \in Clients, m_ClientThreads[x] # NoSession
               PROVE  /\ fd[m_ClientThreads[x]] # 0
                      /\ m_Socket2ClientMap'[fd[m_ClientThreads[x]]] = x
                      /\ \A f \in FDs : m_Socket2ClientMap'[f] = x => f = fd[m_ClientThreads[x]]
    BY <1>2 DEF MapsAgree
  <2> QED BY <1>5, <1>6 DEF IInv, MapsAgree
<1>8. Welcoming'
  BY <1>1, <1>2, <1>5, <1>6 DEF IInv, Welcoming, c
<1>9. history'.errors = 0
  BY <1>2 DEF IInv
<1> QED
  BY <1>3, <1>4, <1>7, <1>8, <1>9 DEF IInv

(* The name gets its thread: it had none.                                  *)
LEMMA WelcomeKeeps == ASSUME IInv, Welcome PROVE IInv'
<1> DEFINE c == name[newcomer]  n == newcomer
<1>1. n \in Sessions /\ n <= sessions /\ worker[n] = "none" /\ fd[n] # 0 /\ fd[n] \in FDs
      /\ c \in Clients /\ n # 0
  BY Numbers DEF IInv, Types, Sockets, Welcoming, Welcome
<1>2. /\ m_ClientThreads[c] = NoSession /\ m_Socket2ClientMap[fd[n]] = c
      /\ \A f \in FDs : m_Socket2ClientMap[f] = c => f = fd[n]
      /\ spc # "join"
  BY DEF IInv, Welcoming, Locked, Welcome
<1>3. /\ m_ClientThreads' = [m_ClientThreads EXCEPT ![c] = n]
      /\ worker' = [worker EXCEPT ![n] = "run"]
      /\ lpc' = "accept" /\ newcomer' = 0
      /\ UNCHANGED <<m_Socket2ClientMap, m_SharedDataListFromClient, spc, leaver, sessions,
                     name, fd, history>>
  BY <1>2 DEF Welcome, sessionVars
<1> HIDE DEF c, n
<1>4. /\ \A x \in Clients : m_ClientThreads'[x] = IF x = c THEN n ELSE m_ClientThreads[x]
      /\ \A s \in Sessions : worker'[s] = IF s = n THEN "run" ELSE worker[s]
  BY <1>3 DEF IInv, Types
<1>5. Types'
  BY <1>1, <1>3, Constants DEF IInv, Types, List
<1>6. Sockets'
  <2>1. \A s \in Sessions : s > sessions => s # n
    BY <1>1, Numbers, Constants DEF IInv
  <2> QED BY <2>1, <1>3, <1>4 DEF IInv, Sockets
<1>7. Threads'
  <2> SUFFICES ASSUME NEW x \in Clients, m_ClientThreads'[x] # NoSession
               PROVE  /\ m_ClientThreads'[x] <= sessions
                      /\ name[m_ClientThreads'[x]] = x
                      /\ worker'[m_ClientThreads'[x]] # "none"
    BY <1>3 DEF Threads
  <2>1. CASE x = c
    BY <2>1, <1>1, <1>4 DEF c, n
  <2>2. CASE x # c
    <3>1. m_ClientThreads'[x] = m_ClientThreads[x] /\ m_ClientThreads[x] \in Sessions
      BY <2>2, <1>4 DEF IInv, Types
    <3> QED BY <3>1, <1>4 DEF IInv, Threads
  <2> QED BY <2>1, <2>2
<1>8. MapsAgree'
  <2> SUFFICES ASSUME NEW x \in Clients, m_ClientThreads'[x] # NoSession
               PROVE  LET s == m_ClientThreads'[x]
                      IN  /\ fd[s] # 0 /\ m_Socket2ClientMap[fd[s]] = x
                          /\ \A f \in FDs : m_Socket2ClientMap[f] = x => f = fd[s]
    BY <1>3 DEF MapsAgree
  <2>1. CASE x = c
    BY <2>1, <1>1, <1>2, <1>4
  <2>2. CASE x # c
    BY <2>2, <1>4 DEF IInv, MapsAgree
  <2> QED BY <2>1, <2>2
<1>9. \A s \in Sessions : name[s] \in Clients /\ m_ClientThreads[name[s]] = s
                         => m_ClientThreads'[name[s]] = s /\ s # n
  <2> SUFFICES ASSUME NEW s \in Sessions, name[s] \in Clients, m_ClientThreads[name[s]] = s
               PROVE  m_ClientThreads'[name[s]] = s /\ s # n
    OBVIOUS
  <2>1. s # NoSession
    BY Constants
  <2>2. name[s] # c
    BY <2>1, <1>2
  <2>3. s # n
    BY <2>2 DEF c, n
  <2> QED BY <2>2, <2>3, <1>4
<1>10. Reads'
  <2> SUFFICES ASSUME NEW s \in Sessions, worker'[s] = "run"
               PROVE  m_ClientThreads'[name[s]] = s
    BY <1>3 DEF Reads
  <2>1. CASE s = n
    BY <2>1, <1>1, <1>4 DEF c, n
  <2>2. CASE s # n
    <3>1. worker[s] = "run" /\ name[s] \in Clients
      BY <2>2, <1>4, Started DEF IInv
    <3> QED BY <3>1, <1>9 DEF IInv, Reads
  <2> QED BY <2>1, <2>2
<1>11. Queued'
  <2>1. List' = List /\ sessions' = sessions /\ name' = name
    BY <1>3 DEF List
  <2> SUFFICES ASSUME NEW i \in 1 .. Len(List)
               PROVE  LET s == List[i].session
                      IN  /\ m_ClientThreads'[name[s]] = s
                          /\ List[i].status = CLOSED => worker'[s] = "ended"
    BY <2>1 DEF IInv, Queued
  <2> DEFINE s == List[i].session
  <2>2. s \in Sessions /\ s <= sessions /\ m_ClientThreads[name[s]] = s
    BY OnTheList DEF IInv, Queued
  <2>3. name[s] \in Clients
    BY <2>2 DEF IInv, Sockets
  <2> QED BY <2>2, <2>3, <1>4, <1>9 DEF IInv, Queued
<1>12. Leaves'
  <2>1. spc # "pull" => leaver \in Sessions /\ name[leaver] \in Clients
    BY Numbers DEF IInv, Leaves, Sockets
  <2> QED BY <2>1, <1>3, <1>4, <1>9 DEF IInv, Leaves, List
<1>13. Locked' /\ Welcoming'
  BY <1>2, <1>3 DEF Locked, Welcoming
<1>14. history'.errors = 0
  BY <1>3 DEF IInv
<1> QED
  BY <1>5, <1>6, <1>7, <1>8, <1>10, <1>11, <1>12, <1>13, <1>14 DEF IInv

------------------------------------------------------------------------------
(* A packet is put on the list by a thread whose name it is.               *)
LEMMA WriteKeeps == ASSUME IInv, NEW s \in Sessions, HandleClientWrite(s) PROVE IInv'
<1> DEFINE it == [status |-> PKT, session |-> s]
<1>1. /\ List' = Append(List, it) /\ worker[s] = "run"
      /\ UNCHANGED <<m_Socket2ClientMap, m_ClientThreads, m_SocketListLock, lpc, newcomer, spc,
                     leaver, worker, sessions, name, fd, history>>
  BY DEF HandleClientWrite, threadVars, sessionVars, List
<1>2. it \in Item /\ it.session = s /\ it.status # CLOSED /\ List \in Seq(Item)
  BY Constants DEF Item, IInv, Types
<1> HIDE DEF it
<1>3. /\ List' \in Seq(Item) /\ Len(List') = Len(List) + 1 /\ Len(List) \in Nat
      /\ \A i \in 1 .. Len(List) : List'[i] = List[i]
      /\ List'[Len(List) + 1] = it
  BY <1>1, <1>2
<1>4. Types'
  BY <1>1, <1>3 DEF IInv, Types
<1>5. Locked' /\ Sockets' /\ Threads' /\ MapsAgree' /\ Welcoming' /\ Reads'
  <2>1. Locked' /\ Sockets' /\ Threads'
    BY <1>1 DEF IInv, Locked, Sockets, Threads
  <2>2. MapsAgree' /\ Welcoming' /\ Reads'
    BY <1>1 DEF IInv, MapsAgree, Welcoming, Reads
  <2> QED BY <2>1, <2>2
<1>6. s <= sessions /\ m_ClientThreads[name[s]] = s
  BY <1>1, Started DEF IInv, Reads
<1>7. Queued'
  <2> SUFFICES ASSUME NEW i \in 1 .. Len(List')
               PROVE  /\ List'[i].session <= sessions
                      /\ m_ClientThreads[name[List'[i].session]] = List'[i].session
                      /\ List'[i].status = CLOSED =>
                           /\ worker[List'[i].session] = "ended"
                           /\ \A j \in i + 1 .. Len(List') : List'[j].session # List'[i].session
    BY <1>1 DEF Queued
  <2>1. CASE i = Len(List) + 1
    BY <2>1, <1>2, <1>3, <1>6
  <2>2. CASE i # Len(List) + 1
    <3>1. i \in 1 .. Len(List) /\ List'[i] = List[i]
      BY <2>2, <1>3
    <3>2. \A j \in i + 1 .. Len(List') :
            j = Len(List) + 1 \/ (j \in i + 1 .. Len(List) /\ List'[j] = List[j])
      BY <1>3, <3>1
    <3>3. List[i].status = CLOSED => worker[List[i].session] = "ended" /\ List[i].session # s
      BY <1>1, <3>1 DEF IInv, Queued
    <3> QED BY <3>1, <3>2, <3>3, <1>2, <1>3 DEF IInv, Queued
  <2> QED BY <2>1, <2>2
<1>8. Leaves'
  <2>1. spc # "pull" => s # leaver
    BY <1>1 DEF IInv, Leaves
  <2>2. \A i \in 1 .. Len(List') : i = Len(List) + 1 \/ (i \in 1 .. Len(List) /\ List'[i] = List[i])
    BY <1>3
  <2> QED BY <2>1, <2>2, <1>1, <1>2, <1>3 DEF IInv, Leaves
<1>9. history'.errors = 0
  BY <1>1 DEF IInv
<1> QED
  BY <1>4, <1>5, <1>7, <1>8, <1>9 DEF IInv

(* A session that ends says so once, and last.                             *)
LEMMA EndKeeps == ASSUME IInv, NEW s \in Sessions, WorkerEnds(s) PROVE IInv'
<1> DEFINE it == [status |-> CLOSED, session |-> s]
<1>1. /\ List' = Append(List, it) /\ worker[s] = "run"
      /\ worker' = [worker EXCEPT ![s] = "ended"]
      /\ UNCHANGED <<m_Socket2ClientMap, m_ClientThreads, m_SocketListLock, lpc, newcomer, spc,
                     leaver, sessions, name, fd, history>>
  BY DEF WorkerEnds, OnClientDisconnect, sessionVars, List
<1>2. it \in Item /\ it.session = s /\ List \in Seq(Item)
  BY Constants DEF Item, IInv, Types
<1> HIDE DEF it
<1>3. /\ List' \in Seq(Item) /\ Len(List') = Len(List) + 1 /\ Len(List) \in Nat
      /\ \A i \in 1 .. Len(List) : List'[i] = List[i]
      /\ List'[Len(List) + 1] = it
  BY <1>1, <1>2
<1>4. \A t \in Sessions : worker'[t] = IF t = s THEN "ended" ELSE worker[t]
  BY <1>1 DEF IInv, Types
<1>5. Types'
  BY <1>1, <1>3 DEF IInv, Types
<1>6. s <= sessions /\ m_ClientThreads[name[s]] = s
  BY <1>1, Started DEF IInv, Reads
<1>7. Sockets'
  BY <1>1, <1>4 DEF IInv, Sockets
<1>8. Threads'
  <2>1. \A c \in Clients : m_ClientThreads[c] # NoSession => m_ClientThreads[c] \in Sessions
    BY DEF IInv, Types
  <2> QED BY <1>1, <1>4, <2>1 DEF IInv, Threads
<1>9. Locked' /\ MapsAgree' /\ Reads'
  BY <1>1, <1>4 DEF IInv, Locked, MapsAgree, Reads
<1>10. Welcoming'
  BY <1>1, <1>4, Numbers DEF IInv, Welcoming
<1>11. Queued'
  <2> SUFFICES ASSUME NEW i \in 1 .. Len(List')
               PROVE  /\ List'[i].session <= sessions
                      /\ m_ClientThreads[name[List'[i].session]] = List'[i].session
                      /\ List'[i].status = CLOSED =>
                           /\ worker'[List'[i].session] = "ended"
                           /\ \A j \in i + 1 .. Len(List') : List'[j].session # List'[i].session
    BY <1>1 DEF Queued
  <2>1. CASE i = Len(List) + 1
    BY <2>1, <1>2, <1>3, <1>4, <1>6
  <2>2. CASE i # Len(List) + 1
    <3>1. i \in 1 .. Len(List) /\ List'[i] = List[i] /\ List[i].session \in Sessions
      BY <2>2, <1>3, OnTheList DEF IInv
    <3>2. \A j \in i + 1 .. Len(List') :
            j = Len(List) + 1 \/ (j \in i + 1 .. Len(List) /\ List'[j] = List[j])
      BY <1>3, <3>1
    <3>3. List[i].status = CLOSED => worker[List[i].session] = "ended" /\ List[i].session # s
      BY <1>1, <3>1 DEF IInv, Queued
    <3> QED BY <3>1, <3>2, <3>3, <1>2, <1>3, <1>4 DEF IInv, Queued
  <2> QED BY <2>1, <2>2
<1>12. Leaves'
  <2>1. spc # "pull" => s # leaver /\ leaver \in Sessions
    BY <1>1, Numbers DEF IInv, Leaves
  <2>2. \A i \in 1 .. Len(List') : i = Len(List) + 1 \/ (i \in 1 .. Len(List) /\ List'[i] = List[i])
    BY <1>3
  <2> QED BY <2>1, <2>2, <1>1, <1>2, <1>3, <1>4 DEF IInv, Leaves
<1>13. history'.errors = 0
  BY <1>1 DEF IInv
<1> QED
  BY <1>5, <1>7, <1>8, <1>9, <1>10, <1>11, <1>12, <1>13 DEF IInv

------------------------------------------------------------------------------
(* What is left on the list when its first is taken.                       *)
LEMMA Taken ==
  ASSUME Types, List # <<>>, List' = Tail(List)
  PROVE  /\ List' \in Seq(Item) /\ Len(List') = Len(List) - 1 /\ Len(List) \in Nat \ {0}
         /\ \A i \in 1 .. Len(List') : i + 1 \in 2 .. Len(List) /\ List'[i] = List[i + 1]
         /\ Head(List) = List[1] /\ 1 \in 1 .. Len(List)
<1>1. List \in Seq(Item)
  BY DEF Types
<1> QED BY <1>1

(* The rest of the list is about those it was about.                       *)
LEMMA RestIsQueued ==
  ASSUME IInv, List # <<>>, List' = Tail(List),
         UNCHANGED <<m_ClientThreads, worker, sessions, name>>
  PROVE  Queued'
<1> SUFFICES ASSUME NEW i \in 1 .. Len(List')
             PROVE  /\ List'[i].session <= sessions
                    /\ m_ClientThreads[name[List'[i].session]] = List'[i].session
                    /\ List'[i].status = CLOSED =>
                         /\ worker[List'[i].session] = "ended"
                         /\ \A j \in i + 1 .. Len(List') : List'[j].session # List'[i].session
  BY DEF Queued
<1>1. i + 1 \in 1 .. Len(List) /\ List'[i] = List[i + 1]
  BY Taken DEF IInv
<1>2. \A j \in i + 1 .. Len(List') : j + 1 \in (i + 1) + 1 .. Len(List) /\ List'[j] = List[j + 1]
  BY Taken DEF IInv
<1> QED BY <1>1, <1>2 DEF IInv, Queued

(* A packet is answered: its sender has a thread, nothing is an error.     *)
LEMMA ProcessKeeps ==
  ASSUME IInv, NEW receivers \in SUBSET Live, ProcessClient(receivers)
  PROVE  IInv'
<1> DEFINE s == Head(List).session
<1>1. List # <<>> /\ List' = Tail(List) /\ spc = "pull"
  BY DEF ProcessClient, List
<1>2. s \in Sessions /\ m_ClientThreads[name[s]] = s
  BY <1>1, Taken, OnTheList DEF IInv, Queued
<1>3. m_ClientThreads[name[s]] # NoSession
  BY <1>2, Constants
<1>4. UNCHANGED <<m_Socket2ClientMap, m_ClientThreads, m_SocketListLock, lpc, newcomer, spc,
                  leaver, worker, sessions, name, fd, history>>
  BY <1>3 DEF ProcessClient, threadVars, sessionVars, List
<1>5. Types'
  BY <1>1, <1>4, Taken DEF IInv, Types
<1>6. Locked' /\ Sockets' /\ Threads'
  BY <1>4 DEF IInv, Locked, Sockets, Threads
<1>7. MapsAgree' /\ Welcoming' /\ Reads'
  BY <1>4 DEF IInv, MapsAgree, Welcoming, Reads
<1>8. Queued' /\ Leaves'
  BY <1>1, <1>4, RestIsQueued DEF Leaves
<1>9. history'.errors = 0
  BY <1>4 DEF IInv
<1> QED BY <1>5, <1>6, <1>7, <1>8, <1>9 DEF IInv

(* A closed session is taken up: nothing of it is left on the list.        *)
LEMMA PullKeeps == ASSUME IInv, PullClosed PROVE IInv'
<1> DEFINE s == Head(List).session
<1>1. /\ List # <<>> /\ List' = Tail(List) /\ spc' = "disconnect" /\ leaver' = s
      /\ Head(List).status = CLOSED
      /\ UNCHANGED <<m_Socket2ClientMap, m_ClientThreads, m_SocketListLock, lpc, newcomer,
                     worker, sessions, name, fd, history>>
  BY DEF PullClosed, sessionVars, List
<1>2. s \in Sessions /\ s <= sessions /\ worker[s] = "ended" /\ m_ClientThreads[name[s]] = s
  BY <1>1, Taken, OnTheList DEF IInv, Queued
<1>3. \A j \in 2 .. Len(List) : List[j].session # s
  <2>1. 1 \in 1 .. Len(List) /\ Head(List) = List[1]
    BY <1>1, Taken DEF IInv
  <2> QED BY <1>1, <2>1 DEF IInv, Queued
<1> HIDE DEF s
<1>4. s # 0 /\ s \in 0 .. sessions
  BY <1>2, Constants DEF IInv, Types
<1>5. Types'
  BY <1>1, <1>4, Taken DEF IInv, Types
<1>6. Sockets' /\ Threads'
  BY <1>1 DEF IInv, Sockets, Threads
<1>7. MapsAgree' /\ Welcoming' /\ Reads' /\ Locked'
  BY <1>1 DEF IInv, MapsAgree, Welcoming, Reads, Locked
<1>8. Queued'
  BY <1>1, RestIsQueued
<1>9. Leaves'
  <2>1. \A i \in 1 .. Len(List') : List'[i].session # s
    BY <1>1, <1>3, Taken DEF IInv
  <2> QED BY <2>1, <1>1, <1>2, <1>4 DEF Leaves
<1>10. history'.errors = 0
  BY <1>1 DEF IInv
<1> QED BY <1>5, <1>6, <1>7, <1>8, <1>9, <1>10 DEF IInv

(* The server thread takes the lock, which was free.                       *)
LEMMA KillKeeps == ASSUME IInv, KillWriter PROVE IInv'
<1>1. /\ spc = "disconnect" /\ spc' = "join" /\ m_SocketListLock = "free"
      /\ m_SocketListLock' = "server"
      /\ UNCHANGED <<m_Socket2ClientMap, m_ClientThreads, m_SharedDataListFromClient, lpc,
                     newcomer, leaver, worker, sessions, name, fd, history>>
  BY DEF KillWriter, sessionVars
<1>2. Types'
  BY <1>1 DEF IInv, Types, List
<1>3. Locked' /\ Sockets' /\ Threads'
  BY <1>1 DEF IInv, Locked, Sockets, Threads
<1>4. MapsAgree' /\ Welcoming' /\ Reads'
  BY <1>1 DEF IInv, MapsAgree, Welcoming, Reads
<1>5. Queued' /\ Leaves'
  BY <1>1 DEF IInv, Queued, Leaves, List
<1>6. history'.errors = 0
  BY <1>1 DEF IInv
<1> QED BY <1>2, <1>3, <1>4, <1>5, <1>6 DEF IInv

(* The clean-up is of the session that closed, and takes only its name.    *)
LEMMA CleanUpKeeps == ASSUME IInv, CleanUp PROVE IInv'
<1> DEFINE l == leaver  c == name[leaver]
<1>1. /\ l \in Sessions /\ l <= sessions /\ worker[l] = "ended" /\ m_ClientThreads[c] = l /\ l # 0
      /\ \A i \in 1 .. Len(List) : List[i].session # l
      /\ lpc = "accept"
  BY Numbers DEF IInv, Leaves, Locked, CleanUp
<1>2. c \in Clients
  BY <1>1 DEF IInv, Sockets
<1>3. fd[l] \in FDs /\ fd[l] # 0 /\ m_Socket2ClientMap[fd[l]] = c
  BY <1>1, <1>2, Constants DEF IInv, MapsAgree, Types
<1>4. /\ m_Socket2ClientMap' = [m_Socket2ClientMap EXCEPT ![fd[l]] = None]
      /\ m_ClientThreads' = [m_ClientThreads EXCEPT ![c] = NoSession]
      /\ fd' = [fd EXCEPT ![l] = 0]
      /\ spc' = "pull" /\ leaver' = 0 /\ lpc' = "accept"
      /\ UNCHANGED <<m_SharedDataListFromClient, newcomer, worker, sessions, name, history>>
  BY <1>1 DEF CleanUp, Forget, Leaving
<1> HIDE DEF l, c
<1>5. /\ \A x \in Clients : m_ClientThreads'[x] = IF x = c THEN NoSession ELSE m_ClientThreads[x]
      /\ \A s \in Sessions : fd'[s] = IF s = l THEN 0 ELSE fd[s]
      /\ \A f \in FDs : m_Socket2ClientMap'[f] = IF f = fd[l] THEN None ELSE m_Socket2ClientMap[f]
  BY <1>4 DEF IInv, Types
<1>6. Types'
  BY <1>1, <1>2, <1>3, <1>4, Constants DEF IInv, Types, List
<1>7. Locked' /\ Welcoming' /\ Leaves'
  BY <1>4 DEF Locked, Welcoming, Leaves
<1>8. Sockets'
  BY <1>4, <1>5 DEF IInv, Sockets
<1>9. Threads'
  BY <1>4, <1>5 DEF IInv, Threads
<1>10. MapsAgree'
  <2> SUFFICES ASSUME NEW x \in Clients, m_ClientThreads'[x] # NoSession
               PROVE  /\ fd'[m_ClientThreads'[x]] # 0
                      /\ m_Socket2ClientMap'[fd'[m_ClientThreads'[x]]] = x
                      /\ \A f \in FDs : m_Socket2ClientMap'[f] = x => f = fd'[m_ClientThreads'[x]]
    BY DEF MapsAgree
  <2> DEFINE s == m_ClientThreads[x]
  <2>1. x # c /\ m_ClientThreads'[x] = s /\ s # NoSession /\ s \in Sessions
    BY <1>5 DEF IInv, Types
  <2>2. s # l
    BY <2>1, <1>1 DEF IInv, Threads, c, l
  <2>3. fd'[s] = fd[s] /\ fd[s] # fd[l] /\ fd[s] # 0 /\ fd[s] \in FDs
    BY <2>1, <2>2, <1>1, <1>3, <1>5 DEF IInv, Sockets, MapsAgree, Types
  <2> QED BY <2>1, <2>3, <1>5, Constants DEF IInv, MapsAgree
<1>11. \A s \in Sessions : s # l /\ name[s] \in Clients /\ m_ClientThreads[name[s]] = s
                          => m_ClientThreads'[name[s]] = s
  BY <1>1, <1>5
<1>12. Reads'
  <2>1. \A s \in Sessions : worker[s] = "run" => s # l /\ name[s] \in Clients
    BY <1>1, Started DEF IInv
  <2> QED BY <2>1, <1>4, <1>11 DEF IInv, Reads
<1>13. Queued'
  <2> SUFFICES ASSUME NEW i \in 1 .. Len(List)
               PROVE  m_ClientThreads'[name[List[i].session]] = List[i].session
    BY <1>4 DEF IInv, Queued, List
  <2>1. List[i].session \in Sessions /\ List[i].session <= sessions /\ List[i].session # l
    BY <1>1, OnTheList DEF IInv, Queued
  <2>2. name[List[i].session] \in Clients
    BY <2>1 DEF IInv, Sockets
  <2> QED BY <2>1, <2>2, <1>11 DEF IInv, Queued
<1>14. history'.errors = 0
  BY <1>4 DEF IInv
<1> QED
  BY <1>6, <1>7, <1>8, <1>9, <1>10, <1>12, <1>13, <1>14 DEF IInv

------------------------------------------------------------------------------
(* Every step keeps the invariant.                                         *)
LEMMA StepKeeps == IInv /\ [Next]_vars => IInv'
<1> SUFFICES ASSUME IInv, [Next]_vars PROVE IInv'
  OBVIOUS
<1>1. CASE Listener
  <2>1. CASE \E c \in Clients : Accept(c)
    BY <2>1, AcceptKeeps
  <2>2. CASE HandShakeFails
    <3>1. history' = history /\ history \in [poisoned : {"no", "session", "nothing"}, errors : Nat]
          /\ history.errors = 0
      BY <2>2 DEF HandShakeFails, IInv, Types
    <3> QED BY <2>2, <3>1, SpurnKeeps DEF HandShakeFails
  <2>3. CASE Poison
    <3>1. /\ history' \in [poisoned : {"no", "session", "nothing"}, errors : Nat]
          /\ history'.errors = 0
      BY <2>3 DEF Poison, IInv, Types
    <3> QED BY <2>3, <3>1, SpurnKeeps DEF Poison
  <2>4. CASE HandShake
    BY <2>4, HandShakeKeeps
  <2>5. CASE WelcomeFails
    <3>1. history' = history /\ history \in [poisoned : {"no", "session", "nothing"}, errors : Nat]
          /\ history.errors = 0
      BY <2>5 DEF WelcomeFails, IInv, Types
    <3> QED BY <2>5, <3>1, SpurnKeeps DEF WelcomeFails
  <2>6. CASE Welcome
    BY <2>6, WelcomeKeeps
  <2> QED BY <1>1, <2>1, <2>2, <2>3, <2>4, <2>5, <2>6 DEF Listener
<1>2. CASE Server
  BY <1>2, ProcessKeeps, PullKeeps, KillKeeps, CleanUpKeeps DEF Server
<1>3. CASE \E s \in Sessions : Session(s)
  <2>1. PICK s \in Sessions : Session(s)
    BY <1>3
  <2>2. CASE HandleClientWrite(s)
    BY <2>2, WriteKeeps
  <2>3. CASE WorkerEnds(s)
    BY <2>3, EndKeeps
  <2>4. CASE SendPkt(s)
    BY <2>4, Untouched DEF SendPkt, kept, threadVars, sessionVars
  <2>5. CASE WriterEnds(s)
    BY <2>5, Untouched DEF WriterEnds, kept, sessionVars
  <2> QED BY <2>1, <2>2, <2>3, <2>4, <2>5 DEF Session
<1>4. CASE \E s \in Sessions : Client(s)
  BY <1>4, Untouched DEF Client, ClientReads, ClientLeaves, kept, threadVars, sessionVars
<1>5. CASE UNCHANGED vars
  BY <1>5, Untouched DEF vars, kept, threadVars, sessionVars
<1> QED BY <1>1, <1>2, <1>3, <1>4, <1>5 DEF Next

(* So it holds in every state.                                             *)
LEMMA Invariant == FairSpec => []IInv
<1> QED BY ServerStarts, StepKeeps, PTL DEF FairSpec, Spec

(* Every thread's socket has its name, and a name has one session, however *)
(* the listening, the reading and the cleaning up interleave.              *)
THEOREM NamesAgree == FairSpec => []MapsAgree
<1>1. IInv => MapsAgree
  BY DEF IInv
<1> QED BY <1>1, Invariant, PTL

(* The server thread never does for a session what was asked by another    *)
(* of the same name: neither the "logical error" of ProcessClient nor the  *)
(* "worrying condition" of AddAndStartClientThread is reached.             *)
THEOREM NoSessionForAnother == FairSpec => []SessionsIsolated
<1>1. ASSUME IInv PROVE SessionsIsolated
  <2>1. DOMAIN m_SharedDataListFromClient = 1 .. Len(m_SharedDataListFromClient)
    BY <1>1 DEF IInv, Types, List
  <2>2. spc # "pull" => Leaving = leaver
    BY <1>1 DEF IInv, Leaves, Leaving
  <2> QED BY <1>1, <2>1, <2>2 DEF IInv, Queued, List, SessionsIsolated
<1> QED BY <1>1, Invariant, PTL

===============================================================================
