------------------------------ MODULE CommClient ------------------------------
(***************************************************************************)
(* MOOSAsyncCommClient: the connection of every MOOS process to the        *)
(* MOOSDB.  The writing thread connects, sends what has been posted and    *)
(* closes the connection; the reading thread reads into the inbox and,     *)
(* when that fails, asks its sibling to close by posting                   *)
(* MOOS_TERMINATE_CONNECTION to the outgoing queue; the application posts, *)
(* fetches and closes.  The server and the network are the environment.    *)
(*                                                                         *)
(* Connections are numbered, for the reading thread holds on to the        *)
(* socket of one.  Messages are numbered in each direction.                *)
(***************************************************************************)
EXTENDS Integers, Sequences, SequencesExt

CONSTANTS
  OUTBOX_PENDING_LIMIT, INBOX_PENDING_LIMIT,
  MaxConnections,  \* bound: connections made
  MaxPosts,        \* bound: the application posts while fewer have been posted
  MaxMail          \* bound: messages sent by the server

ASSUME CommClientAssumption ==
  /\ OUTBOX_PENDING_LIMIT \in Nat \ {0, 1} /\ INBOX_PENDING_LIMIT \in Nat \ {0}
  /\ MaxConnections \in Nat /\ MaxPosts \in Nat /\ MaxMail \in Nat

VARIABLES
  m_bConnected, m_bQuit,
  m_OutBox,        \* what the application's Post has added and not yet moved on
  OutGoingQueue_,  \* to be sent: [id, conn], id 0 being MOOS_TERMINATE_CONNECTION
  m_InBox,
  wpc, batch,      \* the writing thread, and what it is sending
  rpc, rconn, pkt, \* the reading thread, the connection it reads and what it got
  upc,             \* the application
  quit,            \* threads asked to quit
  conn, broken,    \* the last connection made; the connections that have failed
  wire, down,      \* under way to the server; to the client
  posted, received,  \* posted so far; the last one the server has got
  served, fetched,   \* sent by the server so far; the last one fetched
  lastWord,          \* history: the last message posted on this connection; 0: none
  closing          \* history: connections whose reading failed, of those closed
                   \* on request the last, and why the writing thread ended

clientVars == <<m_bConnected, m_bQuit, m_OutBox, OutGoingQueue_, m_InBox>>
threadVars == <<wpc, batch, rpc, rconn, pkt, upc, quit>>
netVars == <<conn, broken, wire, down>>
countVars == <<posted, received, served, fetched, lastWord>>
vars == <<clientVars, threadVars, netVars, countVars, closing>>

MOOS_TERMINATE_CONNECTION == 0
Item == [id : Nat, conn : Nat]

TypeOK ==
  /\ m_bConnected \in BOOLEAN /\ m_bQuit \in BOOLEAN
  /\ m_OutBox \in Seq(Nat) /\ m_InBox \in Seq(Nat)
  /\ OutGoingQueue_ \in Seq(Item) /\ batch \in Seq(Item)
  /\ wpc \in {"connect", "callback", "calling", "loop", "send", "ended"}
  /\ rpc \in {"poll", "read", "store", "wait", "ended"}
  /\ rconn \in 0 .. conn /\ pkt \in Nat
  /\ upc \in {"idle", "posting", "joinReader", "joinWriter", "closed"}
  /\ quit \subseteq {"reader", "writer"}
  /\ conn \in 0 .. MaxConnections /\ broken \subseteq 1 .. conn
  /\ wire \in Seq(Nat) /\ down \in Seq(Nat)
  /\ posted \in Nat /\ received \in 0 .. posted
  /\ served \in 0 .. MaxMail /\ fetched \in 0 .. served /\ lastWord \in 0 .. posted
  /\ closing \in [failed : SUBSET (1 .. conn), closed : 0 .. conn,
                  ended : {"no", "poisoned", "unanswered", "closed"}]

Init ==
  /\ m_bConnected = FALSE /\ m_bQuit = FALSE
  /\ m_OutBox = <<>> /\ OutGoingQueue_ = <<>> /\ m_InBox = <<>>
  /\ wpc = "connect" /\ batch = <<>>
  /\ rpc = "poll" /\ rconn = 0 /\ pkt = 0
  /\ upc = "idle" /\ quit = {}
  /\ conn = 0 /\ broken = {} /\ wire = <<>> /\ down = <<>>
  /\ posted = 0 /\ received = 0 /\ served = 0 /\ fetched = 0
  /\ lastWord = 0
  /\ closing = [failed |-> {}, closed |-> 0, ended |-> "no"]

------------------------------------------------------------------------------
(* Post, by the application or by its OnConnect callback.                  *)

(* CMOOSCommClient::Post adds to m_OutBox ...                              *)
PostBase ==
  /\ m_bConnected
  /\ posted' = posted + 1 /\ lastWord' = posted + 1
  /\ m_OutBox' = Append(m_OutBox, posted + 1)

(* The oldest half of a queue beyond the limit is ditched.                 *)
Ditched(queue) ==
  IF Len(queue) > OUTBOX_PENDING_LIMIT
    THEN SubSeq(queue, Len(queue) - OUTBOX_PENDING_LIMIT \div 2 + 1, Len(queue)) ELSE queue

(* Mutant: posted to the front, as if m_bPostNewestToFront were set.       *)
PostQueue_Front ==
  /\ OutGoingQueue_' = [i \in DOMAIN m_OutBox |-> [id |-> m_OutBox[i], conn |-> conn]]
                         \o Ditched(OutGoingQueue_)
  /\ m_OutBox' = <<>>

(* ... and MOOSAsyncCommClient::Post moves that to OutGoingQueue_.         *)
PostQueue ==
  /\ OutGoingQueue_' = Ditched(OutGoingQueue_)
                         \o [i \in DOMAIN m_OutBox |-> [id |-> m_OutBox[i], conn |-> conn]]
  /\ m_OutBox' = <<>>

UserPostBase ==
  /\ upc = "idle" /\ upc' = "posting"
  /\ posted < MaxPosts
  /\ PostBase
  /\ UNCHANGED <<m_bConnected, m_bQuit, OutGoingQueue_, m_InBox, wpc, batch, rpc, rconn, pkt,
                 quit, netVars, received, served, fetched, closing>>

UserPostQueue ==
  /\ upc = "posting" /\ upc' = "idle"
  /\ PostQueue
  /\ UNCHANGED <<m_bConnected, m_bQuit, m_InBox, wpc, batch, rpc, rconn, pkt, quit, netVars,
                 countVars, closing>>

(* Fetch takes the whole inbox.                                            *)
Fetch ==
  /\ upc = "idle" /\ m_InBox # <<>>
  /\ fetched' = Last(m_InBox)
  /\ m_InBox' = <<>>
  /\ UNCHANGED <<m_bConnected, m_bQuit, m_OutBox, OutGoingQueue_, threadVars, netVars, posted,
                 received, served, lastWord, closing>>

------------------------------------------------------------------------------
(* The writing thread.                                                     *)

(* OnCloseConnection, ClearResources included: OutGoingQueue_ stays.       *)
OnCloseConnection ==
  /\ m_bConnected' = FALSE
  /\ m_OutBox' = <<>> /\ m_InBox' = <<>>

(* ConnectToServer: vConnect and HandShake succeed.                        *)
ConnectToServer ==
  /\ wpc = "connect" /\ ~m_bQuit /\ conn < MaxConnections
  /\ conn' = conn + 1 /\ wire' = <<>> /\ down' = <<>>
  /\ m_bConnected' = TRUE
  /\ wpc' = "callback" /\ lastWord' = 0
  /\ UNCHANGED <<m_bQuit, m_OutBox, OutGoingQueue_, m_InBox, batch, rpc, rconn, pkt, upc, quit,
                 broken, posted, received, served, fetched, closing>>

(* ConnectToServer returns false, and the writing thread ends: because     *)
(* HandShake was poisoned or broken off, or because the client is closed.  *)
ConnectFails(why) ==
  /\ wpc = "connect"
  /\ m_bQuit <=> why = "closed"
  /\ m_bQuit' = TRUE
  /\ OnCloseConnection
  /\ wpc' = "ended"
  /\ closing' = [closing EXCEPT !.ended = why]
  /\ UNCHANGED <<OutGoingQueue_, batch, rpc, rconn, pkt, upc, quit, netVars, countVars>>

(* The OnConnect callback posts a message or does not.                     *)
Callback(posts) ==
  /\ wpc = "callback"
  /\ IF posts THEN PostBase /\ wpc' = "calling"
              ELSE wpc' = "loop" /\ UNCHANGED <<m_OutBox, posted, lastWord>>
  /\ UNCHANGED <<m_bConnected, m_bQuit, OutGoingQueue_, m_InBox, batch, rpc, rconn, pkt, upc,
                 quit, netVars, received, served, fetched, closing>>

CallbackPostQueue ==
  /\ wpc = "calling" /\ wpc' = "loop"
  /\ PostQueue
  /\ UNCHANGED <<m_bConnected, m_bQuit, m_InBox, batch, rpc, rconn, pkt, upc, quit, netVars,
                 countVars, closing>>

IsQuit(item) == item.id = MOOS_TERMINATE_CONNECTION
Terminates(queue) == \E i \in DOMAIN queue : IsQuit(queue[i])

(* Mutant: the request is dropped with what was taken along, but obeyed    *)
(* only if it is about this connection.                                    *)
TerminateConnection_OfThis ==
  /\ wpc = "loop" /\ Terminates(OutGoingQueue_)
  /\ OutGoingQueue_' = <<>>
  /\ IF \E i \in DOMAIN OutGoingQueue_ :
          IsQuit(OutGoingQueue_[i]) /\ OutGoingQueue_[i].conn = conn
       THEN OnCloseConnection /\ wpc' = IF "writer" \in quit THEN "ended" ELSE "connect"
       ELSE UNCHANGED <<m_bConnected, m_OutBox, m_InBox, wpc>>
  /\ closing' = [closing EXCEPT !.closed = conn]
  /\ UNCHANGED <<m_bQuit, batch, rpc, rconn, pkt, upc, quit, netVars, countVars>>

(* DoWriting takes all there is; a termination among it loses the rest.    *)
TerminateConnection ==
  /\ wpc = "loop" /\ Terminates(OutGoingQueue_)
  /\ OutGoingQueue_' = <<>>
  /\ OnCloseConnection
  /\ wpc' = IF "writer" \in quit THEN "ended" ELSE "connect"
  /\ closing' = [closing EXCEPT !.closed = conn]
  /\ UNCHANGED <<m_bQuit, batch, rpc, rconn, pkt, upc, quit, netVars, countVars>>

(* Otherwise it is sent ...                                                *)
TakeOutGoing ==
  /\ wpc = "loop" /\ OutGoingQueue_ # <<>> /\ ~Terminates(OutGoingQueue_)
  /\ batch' = OutGoingQueue_ /\ OutGoingQueue_' = <<>>
  /\ wpc' = "send"
  /\ UNCHANGED <<m_bConnected, m_bQuit, m_OutBox, m_InBox, rpc, rconn, pkt, upc, quit, netVars,
                 countVars, closing>>

(* ... by SendPkt, which may succeed on a failed connection, for nothing.  *)
Send ==
  /\ wpc = "send"
  /\ wire' = IF conn \in broken THEN wire
             ELSE wire \o [i \in DOMAIN batch |-> batch[i].id]
  /\ batch' = <<>>
  /\ wpc' = IF "writer" \in quit THEN "ended" ELSE "loop"
  /\ m_bConnected' = ("writer" \notin quit)
  /\ UNCHANGED <<m_bQuit, m_OutBox, OutGoingQueue_, m_InBox, rpc, rconn, pkt, upc, quit, conn,
                 broken, down, countVars, closing>>

(* Mutant: DoWriting returns true after the exception.                     *)
SendFails_Swallowed ==
  /\ \/ wpc = "send"
     \/ wpc = "loop" /\ ~Terminates(OutGoingQueue_)
  /\ conn \in broken
  /\ batch' = <<>>
  /\ wpc' = IF "writer" \in quit THEN "ended" ELSE "loop"
  /\ UNCHANGED <<clientVars, rpc, rconn, pkt, upc, quit, netVars, countVars, closing>>

(* SendPkt fails on a failed connection, with mail or with the timing      *)
(* message that is sent when there is none.                                *)
SendFails ==
  /\ \/ wpc = "send"
     \/ wpc = "loop" /\ ~Terminates(OutGoingQueue_)
  /\ conn \in broken
  /\ batch' = <<>>
  /\ OnCloseConnection
  /\ wpc' = IF "writer" \in quit THEN "ended" ELSE "connect"
  /\ UNCHANGED <<m_bQuit, OutGoingQueue_, rpc, rconn, pkt, upc, quit, netVars, countVars,
                 closing>>

------------------------------------------------------------------------------
(* The reading thread.                                                     *)

(* ReadingLoop finds a connection and starts to read it.                   *)
StartReading ==
  /\ rpc = "poll" /\ m_bConnected /\ "reader" \notin quit
  /\ rpc' = "read" /\ rconn' = conn
  /\ UNCHANGED <<clientVars, wpc, batch, pkt, upc, quit, netVars, countVars, closing>>

(* ReadPkt returns a packet ...                                            *)
ReadPkt ==
  /\ rpc = "read" /\ rconn = conn /\ m_bConnected /\ down # <<>>
  /\ pkt' = Head(down) /\ down' = Tail(down)
  /\ rpc' = "store"
  /\ UNCHANGED <<clientVars, wpc, batch, rconn, upc, quit, conn, broken, wire, countVars,
                 closing>>

(* An inbox beyond the limit is emptied.                                   *)
Purged(inbox) == IF Len(inbox) > INBOX_PENDING_LIMIT THEN <<>> ELSE inbox

(* Mutant: a packet is put in front of what is unread.                     *)
Store_Front ==
  /\ rpc = "store" /\ rpc' = "poll"
  /\ m_InBox' = <<pkt>> \o Purged(m_InBox) /\ pkt' = 0
  /\ UNCHANGED <<m_bConnected, m_bQuit, m_OutBox, OutGoingQueue_, wpc, batch, rconn, upc, quit,
                 netVars, countVars, closing>>

(* ... and DoReading adds it to the inbox.                                 *)
Store ==
  /\ rpc = "store" /\ rpc' = "poll"
  /\ m_InBox' = Append(Purged(m_InBox), pkt) /\ pkt' = 0
  /\ UNCHANGED <<m_bConnected, m_bQuit, m_OutBox, OutGoingQueue_, wpc, batch, rconn, upc, quit,
                 netVars, countVars, closing>>

(* ReadPkt throws: the connection has failed, or its socket is gone.       *)
ReadFails ==
  /\ rpc = "read"
  /\ rconn \in broken \/ rconn # conn \/ ~m_bConnected
  /\ OutGoingQueue_' = Append(OutGoingQueue_, [id |-> MOOS_TERMINATE_CONNECTION,
                                               conn |-> rconn])
  /\ rpc' = "wait"
  /\ closing' = [closing EXCEPT !.failed = @ \cup {rconn}]
  /\ UNCHANGED <<m_bConnected, m_bQuit, m_OutBox, m_InBox, wpc, batch, rconn, pkt, upc, quit,
                 netVars, countVars>>

(* One of the looks at IsConnected, 200 ms apart, finds it false.          *)
SeeClosed ==
  /\ rpc = "wait" /\ ~m_bConnected
  /\ rpc' = "poll"
  /\ UNCHANGED <<clientVars, wpc, batch, rconn, pkt, upc, quit, netVars, countVars, closing>>

ReaderQuits ==
  /\ rpc = "poll" /\ "reader" \in quit
  /\ rpc' = "ended"
  /\ UNCHANGED <<clientVars, wpc, batch, rconn, pkt, upc, quit, netVars, countVars, closing>>

------------------------------------------------------------------------------
(* Close: the base class, the reading thread, then the writing thread.     *)

Close ==
  /\ upc = "idle" /\ upc' = "joinReader"
  /\ m_bQuit' = TRUE
  /\ m_OutBox' = <<>> /\ m_InBox' = <<>>
  /\ quit' = {"reader"}
  /\ UNCHANGED <<m_bConnected, OutGoingQueue_, wpc, batch, rpc, rconn, pkt, netVars, countVars,
                 closing>>

ReaderJoined ==
  /\ upc = "joinReader" /\ rpc = "ended"
  /\ upc' = "joinWriter"
  /\ OutGoingQueue_' = Append(OutGoingQueue_, [id |-> MOOS_TERMINATE_CONNECTION, conn |-> conn])
  /\ quit' = {"reader", "writer"}
  /\ closing' = [closing EXCEPT !.failed = @ \cup (IF conn = 0 THEN {} ELSE {conn})]
  /\ UNCHANGED <<m_bConnected, m_bQuit, m_OutBox, m_InBox, wpc, batch, rpc, rconn, pkt, netVars,
                 countVars>>

(* The loop condition of WritingLoop finds the request to quit.            *)
WriterQuits ==
  /\ wpc = "loop" /\ "writer" \in quit
  /\ wpc' = "ended" /\ m_bConnected' = FALSE
  /\ UNCHANGED <<m_bQuit, m_OutBox, OutGoingQueue_, m_InBox, batch, rpc, rconn, pkt, upc, quit,
                 netVars, countVars, closing>>

WriterJoined ==
  /\ upc = "joinWriter" /\ wpc = "ended"
  /\ upc' = "closed"
  /\ UNCHANGED <<clientVars, wpc, batch, rpc, rconn, pkt, quit, netVars, countVars, closing>>

------------------------------------------------------------------------------
(* The server and the network.                                             *)

ServerReceives ==
  /\ wire # <<>>
  /\ received' = Head(wire) /\ wire' = Tail(wire)
  /\ UNCHANGED <<clientVars, threadVars, conn, broken, down, posted, served, fetched,
                 lastWord, closing>>

ServerSends ==
  /\ m_bConnected /\ conn \notin broken /\ served < MaxMail
  /\ served' = served + 1 /\ down' = Append(down, served + 1)
  /\ UNCHANGED <<clientVars, threadVars, conn, broken, wire, posted, received, fetched,
                 lastWord, closing>>

(* The connection is lost, with what is under way or after that has come.  *)
LinkBreaks ==
  /\ conn > 0 /\ conn \notin broken
  /\ broken' = broken \cup {conn}
  /\ down' \in {down, <<>>} /\ wire' \in {wire, <<>>}
  /\ UNCHANGED <<clientVars, threadVars, conn, countVars, closing>>

------------------------------------------------------------------------------
User == UserPostBase \/ UserPostQueue \/ Fetch \/ Close \/ ReaderJoined \/ WriterJoined

Writing == TerminateConnection \/ TakeOutGoing \/ Send \/ SendFails \/ WriterQuits

Writer == \/ \E why \in {"poisoned", "unanswered", "closed"} : ConnectFails(why)
          \/ CallbackPostQueue \/ Writing

Reader == StartReading \/ ReadPkt \/ Store \/ ReadFails \/ SeeClosed \/ ReaderQuits

Network == ServerSends \/ LinkBreaks

(* The steps in which no registration of the application comes or goes.    *)
Connection == User \/ Writer \/ Reader \/ Network

OnConnect == \E posts \in BOOLEAN : Callback(posts)

Next == Connection \/ ConnectToServer \/ ServerReceives \/ OnConnect

Spec == Init /\ [][Next]_vars

(* Threads are scheduled, and a call on a failed connection returns: send  *)
(* is not tried for ever, recv is woken by the reset.  A recv on a socket  *)
(* that was closed under it need not return.  The MOOSDB reads what it is  *)
(* sent.  Nothing obliges anyone to connect, post or close.                *)
FairSpec ==
  /\ Spec
  /\ WF_vars(OnConnect \/ CallbackPostQueue)
  /\ WF_vars(Writing) /\ WF_vars(ConnectFails("closed"))
  /\ WF_vars(StartReading \/ ReadPkt \/ Store \/ SeeClosed \/ ReaderQuits)
  /\ WF_vars(rconn \in broken /\ ReadFails)
  /\ WF_vars(UserPostQueue \/ ReaderJoined \/ WriterJoined)
  /\ WF_vars(ServerReceives)

------------------------------------------------------------------------------
Mail(queue) ==
  LET sent == SelectSeq(queue, LAMBDA item : ~IsQuit(item))
  IN  [i \in DOMAIN sent |-> sent[i].id]

(* What is posted and may still arrive, in order.                          *)
Upstream == wire \o Mail(batch) \o Mail(OutGoingQueue_) \o m_OutBox

(* What the server has sent and may still be fetched, in order.            *)
Downstream == m_InBox \o (IF rpc = "store" THEN <<pkt>> ELSE <<>>) \o down

Up == INSTANCE LossyFifo
        WITH submitted <- posted, pending <- ToSet(Upstream), arrived <- received
Down == INSTANCE LossyFifo
          WITH submitted <- served, pending <- ToSet(Downstream), arrived <- fetched

(* Whatever connections come and go and whatever is ditched, what an       *)
(* application posts reaches the server in the order of posting and once   *)
(* at most.                                                                *)
PostsInOrder == Up!Spec

(* Likewise for what the server sends and the application fetches.         *)
MailInOrder == Down!Spec

(* A connection that has failed is given up, whatever the reading thread   *)
(* is doing: it may have taken the new connection for the old one and wait *)
(* for ever (WaitEnds is refuted), and then the writing thread is the only *)
(* one to notice.                                                          *)
FailureNoticed ==
  (m_bConnected /\ conn \in broken) ~> ~(m_bConnected /\ conn \in broken)

(* On a connection that lasts the last word arrives: neither Post's two    *)
(* critical sections, nor ditching, nor a request to terminate another     *)
(* connection lose what is posted on this one, unless this one ends too or *)
(* the application closes it.                                              *)
PostArrives ==
  (m_bConnected /\ lastWord > received) ~> (lastWord <= received \/ ~m_bConnected \/ m_bQuit)

(* "writing thread receives terminate connection request from sibling      *)
(* reader thread": a connection closed on request is one whose reading     *)
(* has failed.                                                             *)
ClosedOnRequest == closing.closed \in closing.failed \cup {0}

(* "wait for connection to terminate...": that wait ends, since the        *)
(* request was posted before it began.                                     *)
WaitEnds == (rpc = "wait") ~> (rpc # "wait")

(* "if ConnectToServer() returns false it wasn't simply that we could not  *)
(* get hold of the server it was that we misbehaved badly".                *)
EndsOnlyOnMisbehaviour == closing.ended # "unanswered"

==============================================================================
