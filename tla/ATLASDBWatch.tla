----------------------------- MODULE ATLASDBWatch -----------------------------
(***************************************************************************)
(* atlasDBWatch on its connection: the application registers for the       *)
(* variables it passes on to ActiveMQ when it starts, and the MOOSDB       *)
(* forgets the registrations of a client whose connection it sees end.     *)
(***************************************************************************)
EXTENDS CommClient

VARIABLES
  started,        \* OnStartUp has run
  registrations,  \* the messages that are registrations
  subscribed      \* the MOOSDB knows the client's registration

watchVars == <<started, registrations, subscribed>>
allVars == <<vars, watchVars>>

WatchInit == Init /\ started = FALSE /\ registrations = {} /\ subscribed = FALSE

(* RegisterVariables: without a connection Register returns FALSE, which   *)
(* nobody looks at.                                                        *)
RegisterVariables ==
  IF m_bConnected
    THEN /\ upc' = "posting"
         /\ PostBase
         /\ registrations' = registrations \cup {posted + 1}
    ELSE UNCHANGED <<upc, posted, lastWord, m_OutBox, registrations>>

(* Run waits five seconds for a connection and calls OnStartUp, connected  *)
(* or not.                                                                 *)
OnStartUp ==
  /\ ~started /\ started' = TRUE
  /\ upc = "idle"
  /\ RegisterVariables
  /\ UNCHANGED <<m_bConnected, m_bQuit, OutGoingQueue_, m_InBox, wpc, batch, rpc, rconn, pkt,
                 quit, netVars, received, served, fetched, closing, subscribed>>

(* The connect callback returns at once.                                   *)
OnConnectToServer == Callback(FALSE) /\ UNCHANGED watchVars

(* The MOOSDB has dropped the client before it takes it back.              *)
Connects ==
  /\ ConnectToServer
  /\ subscribed' = FALSE
  /\ UNCHANGED <<started, registrations>>

(* The MOOSDB takes the next message of the client.                        *)
DBReceives ==
  /\ ServerReceives
  /\ subscribed' = (subscribed \/ received' \in registrations)
  /\ UNCHANGED <<started, registrations>>

Unwatched == UNCHANGED watchVars

WatchNext ==
  \/ OnStartUp \/ OnConnectToServer \/ Connects \/ DBReceives
  \/ Connection /\ Unwatched

(* CommClient's fairness, and that of OnStartUp.                           *)
WatchFairness ==
  /\ WF_allVars(OnStartUp) /\ WF_allVars(DBReceives)
  /\ WF_allVars(OnConnectToServer \/ (CallbackPostQueue /\ Unwatched))
  /\ WF_allVars(Writing /\ Unwatched) /\ WF_allVars(ConnectFails("closed") /\ Unwatched)
  /\ WF_allVars((StartReading \/ ReadPkt \/ Store \/ SeeClosed \/ ReaderQuits) /\ Unwatched)
  /\ WF_allVars(rconn \in broken /\ ReadFails /\ Unwatched)
  /\ WF_allVars((UserPostQueue \/ ReaderJoined \/ WriterJoined) /\ Unwatched)

WatchSpec == WatchInit /\ [][WatchNext]_allVars /\ WatchFairness

------------------------------------------------------------------------------
(* "Registering with MOOSDB for variable", OnStartUp says: an application  *)
(* that has started and stays connected is subscribed in the end.  (The    *)
(* code does not keep that: see README.)                                   *)
Watched == (started /\ m_bConnected) ~> (subscribed \/ ~m_bConnected \/ m_bQuit)

==============================================================================
