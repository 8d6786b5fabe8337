-------------------------------- MODULE MOOSDB --------------------------------
(***************************************************************************)
(* The MOOSDB as the repository runs it: CMOOSDB_ActiveFaults, a CMOOSDB   *)
(* that also takes notifications ("faults") from an ActiveMQ topic.        *)
(*                                                                         *)
(* Every process of the vehicle is a client.  It registers for variables,  *)
(* by name or by wildcard, writes variables, and is given its held mail    *)
(* with the answer to each of its packets; an asynchronous client is also  *)
(* pushed its mail after every packet that carries a notification.  A      *)
(* fault is written by the ActiveMQ listener thread and only fills the     *)
(* mail boxes.                                                             *)
(*                                                                         *)
(* A packet of several messages is modelled as as many packets of one.     *)
(* A value is the serial number (stamp) of the write it comes from.        *)
(***************************************************************************)
EXTENDS Integers, Sequences, FiniteSets, FiniteSetsExt, SequencesExt

CONSTANTS
  Clients,      \* names of the MOOS processes
  Async,        \* the clients that connect in asynchronous mode
  Vars,         \* names of variables
  DB_EVENT,     \* the variable in which the DB reports connections
  Requested,    \* periods asked for in registrations by name
  Filters,      \* wildcards a client may register: [app, vars, period]
  MaxStamp      \* bound: no write, fault or connection after that many

Anyone == "*"
Fault == ""     \* the source of a message built by the ActiveMQ listener
DBName == "DB"
Periods == {"every", "limited"}   \* m_dfPeriod = 0, m_dfPeriod > 0
Types == {"D", "S"}

ASSUME MOOSDBAssumption ==
  /\ Async \subseteq Clients
  /\ IsFiniteSet(Vars) /\ DB_EVENT \in Vars
  /\ Anyone \notin Clients /\ Fault \notin Clients /\ DBName \notin Clients
  /\ Filters \subseteq [app : Clients \cup {Anyone}, vars : SUBSET Vars, period : Periods]
  /\ Requested \subseteq Periods
  /\ MaxStamp \in Nat

VARIABLES
  m_VarMap,        \* [Vars -> CMOOSDBVar]
  m_HeldMailMap,   \* [Clients -> Seq of held messages]
  m_ClientFilters, \* [Clients -> SUBSET Filters]
  connected,       \* the clients that have a ClientThread
  seen,            \* [Clients -> [Vars -> stamp of the last mail sent to it]]
  fault,           \* the variable of the fault inside fromMQ, or NoFault
  stamp,           \* serial number of the last write
  left             \* history: [Clients -> variables it has unregistered]

vars == <<m_VarMap, m_HeldMailMap, m_ClientFilters, connected, seen, fault, stamp,
          left>>

NoFault == "none"
Message == [key : Vars, stamp : Nat]
Var == [exists : BOOLEAN, written : BOOLEAN, type : Types, stamp : Nat,
        who : Clients \cup {DBName, Fault}, override : BOOLEAN,
        subs : [Clients -> Periods \cup {"no"}]]

TypeOK ==
  /\ m_VarMap \in [Vars -> Var]
  /\ m_HeldMailMap \in [Clients -> Seq(Message)]
  /\ m_ClientFilters \in [Clients -> SUBSET Filters]
  /\ connected \subseteq Clients
  /\ seen \in [Clients -> [Vars -> Nat]]
  /\ fault \in Vars \cup {NoFault}
  /\ stamp \in Nat
  /\ left \in [Clients -> SUBSET Vars]

(* The variables a MOOSDB starts with: none.                               *)
Init ==
  /\ m_VarMap = [v \in Vars |-> [exists |-> FALSE, written |-> FALSE, type |-> "S",
                                 stamp |-> 0, who |-> Fault, override |-> FALSE,
                                 subs |-> [c \in Clients |-> "no"]]]
  /\ m_HeldMailMap = [c \in Clients |-> <<>>]
  /\ m_ClientFilters = [c \in Clients |-> {}]
  /\ connected = {}
  /\ seen = [c \in Clients |-> [v \in Vars |-> 0]]
  /\ fault = NoFault /\ stamp = 0
  /\ left = [c \in Clients |-> {}]

------------------------------------------------------------------------------
(* CMOOSDB::OnNotify.                                                      *)

(* MsgFilter::Matches on a message about v from the application src.       *)
Matches(F, src, v) == F.app \in {Anyone, src} /\ v \in F.vars

(* Mutant: wildcards only cover the variables present at registration.     *)
Subscribers_Present(v, src) == m_VarMap[v].subs

(* The first write of a variable looks for wildcards that want it.         *)
Subscribers(v, src) ==
  [c \in Clients |->
     LET mine == {F \in m_ClientFilters[c] : Matches(F, src, v)} IN
     IF ~m_VarMap[v].written /\ m_VarMap[v].subs[c] = "no" /\ mine # {}
       THEN (CHOOSE F \in mine : TRUE).period
       ELSE m_VarMap[v].subs[c]]

(* A write of another type than the first one's is dropped.                *)
Accepts(v, type) == ~m_VarMap[v].written \/ m_VarMap[v].type = type

Written(v, type, src) ==
  IF Accepts(v, type)
    THEN [m_VarMap EXCEPT ![v].exists = TRUE, ![v].written = TRUE, ![v].type = type,
                          ![v].stamp = stamp + 1, ![v].who = src,
                          ![v].subs = Subscribers(v, src)]
    ELSE m_VarMap

(* AddMessageToClientBox for every subscriber whose period has expired:    *)
(* always for period 0, for the others (late) as the clock happens to be.  *)
Boxes(v, type, src, late) ==
  [c \in Clients |->
     IF Accepts(v, type) /\ (Subscribers(v, src)[c] = "every" \/
                             (Subscribers(v, src)[c] = "limited" /\ c \in late))
       THEN Append(m_HeldMailMap[c], [key |-> v, stamp |-> stamp + 1])
       ELSE m_HeldMailMap[c]]

(* What a client knows of each variable once it has read a box.            *)
Learn(c, box) ==
  [v \in Vars |->
     LET about == {i \in DOMAIN box : box[i].key = v} IN
     IF about = {} THEN seen[c][v] ELSE box[Max(about)].stamp]

(* Mutant: only the newest message of a box is taken out of it.            *)
Deliver_Newest(box, who) ==
  /\ m_HeldMailMap' = [c \in Clients |-> IF c \in who /\ box[c] # <<>> THEN Front(box[c])
                                                                     ELSE box[c]]
  /\ seen' = [c \in Clients |-> IF c \in who THEN Learn(c, box[c]) ELSE seen[c]]

(* OnRxPkt and OnFetchAllMail splice the boxes of the clients in who into  *)
(* the packets sent to them.                                               *)
Deliver(box, who) ==
  /\ m_HeldMailMap' = [c \in Clients |-> IF c \in who THEN <<>> ELSE box[c]]
  /\ seen' = [c \in Clients |-> IF c \in who THEN Learn(c, box[c]) ELSE seen[c]]

------------------------------------------------------------------------------
(* Packets of a client.                                                    *)

(* Anyone may write any variable but the DB's own, as a number or as text. *)
(* ProcessMsg calls OnNotify, which is not virtual: it is CMOOSDB's.       *)
Notify(c, v, type) ==
  /\ c \in connected /\ stamp < MaxStamp
  /\ \E late \in SUBSET Clients :
       Deliver(Boxes(v, type, c, late), {c} \cup (Async \cap connected))
  /\ m_VarMap' = Written(v, type, c)
  /\ stamp' = stamp + 1
  /\ UNCHANGED <<m_ClientFilters, connected, fault, left>>

(* The variable as OnRegister leaves it, and its message to the newcomer.  *)
Registered(c, v, period) ==
  [m_VarMap[v] EXCEPT !.exists = TRUE,
                      !.subs[c] = IF @ = "no" THEN period ELSE @]

(* Mutant: the newcomer is only told of variables nobody has written.      *)
Greets_Unwritten(c, v) == m_VarMap[v].subs[c] = "no" /\ ~m_VarMap[v].written

Greets(c, v) == m_VarMap[v].subs[c] = "no" /\ m_VarMap[v].written

Greeting(v) == [key |-> v, stamp |-> m_VarMap[v].stamp]

Register(c, v, period) ==
  /\ c \in connected
  /\ m_VarMap' = [m_VarMap EXCEPT ![v] = Registered(c, v, period)]
  /\ Deliver([m_HeldMailMap EXCEPT ![c] = IF Greets(c, v) THEN Append(@, Greeting(v))
                                                          ELSE @],
             {c})
  /\ left' = [left EXCEPT ![c] = @ \ {v}]
  /\ UNCHANGED <<m_ClientFilters, connected, fault, stamp>>

(* A wildcard is kept for variables to come and registers the present ones *)
(* that match by the application that last wrote them.                     *)
Present(F) == {v \in Vars : m_VarMap[v].exists /\ Matches(F, m_VarMap[v].who, v)}

WildcardRegister(c, F) ==
  /\ c \in connected
  /\ m_ClientFilters' = [m_ClientFilters EXCEPT ![c] = @ \cup {F}]
  /\ m_VarMap' = [v \in Vars |-> IF v \in Present(F) THEN Registered(c, v, F.period)
                                                     ELSE m_VarMap[v]]
  /\ LET greeted == SetToSeq({v \in Present(F) : Greets(c, v)}) IN
     Deliver([m_HeldMailMap EXCEPT
                ![c] = @ \o [i \in DOMAIN greeted |-> Greeting(greeted[i])]],
             {c})
  /\ left' = [left EXCEPT ![c] = @ \ (IF F.app = Anyone THEN F.vars ELSE Present(F))]
  /\ UNCHANGED <<connected, fault, stamp>>

Unsubscribe(c, S) ==
  /\ m_VarMap' = [v \in Vars |-> IF v \in S THEN [m_VarMap[v] EXCEPT !.subs[c] = "no"]
                                            ELSE m_VarMap[v]]
  /\ left' = [left EXCEPT ![c] = @ \cup {v \in S : m_VarMap[v].subs[c] # "no"}]

UnRegister(c, v) ==
  /\ c \in connected
  /\ Unsubscribe(c, {v})
  /\ Deliver(m_HeldMailMap, {c})
  /\ UNCHANGED <<m_ClientFilters, connected, fault, stamp>>

(* The wildcard itself stays in m_ClientFilters.                           *)
WildcardUnRegister(c, F) ==
  /\ c \in connected
  /\ Unsubscribe(c, Present(F))
  /\ Deliver(m_HeldMailMap, {c})
  /\ UNCHANGED <<m_ClientFilters, connected, fault, stamp>>

(* A server request for DB_CLEAR: variables are reset, boxes emptied;      *)
(* subscriptions, wildcards and overrides stay.                            *)
OnClearRequested(c) ==
  /\ c \in connected
  /\ m_VarMap' = [v \in Vars |-> [m_VarMap[v] EXCEPT !.written = FALSE, !.who = Fault]]
  /\ m_HeldMailMap' = [d \in Clients |-> <<>>]
  /\ UNCHANGED <<m_ClientFilters, connected, seen, fault, stamp,
                 left>>

(* The timing packet every client sends now and then only fetches mail.    *)
Timing(c) ==
  /\ c \in connected /\ m_HeldMailMap[c] # <<>>
  /\ Deliver(m_HeldMailMap, {c})
  /\ UNCHANGED <<m_VarMap, m_ClientFilters, connected, fault, stamp, left>>

------------------------------------------------------------------------------
(* Connections.  A second client of the same name is refused.              *)

OnConnect(c) ==
  /\ c \notin connected /\ stamp < MaxStamp
  /\ connected' = connected \cup {c}
  /\ \E late \in SUBSET Clients : m_HeldMailMap' = Boxes(DB_EVENT, "S", DBName, late)
  /\ m_VarMap' = Written(DB_EVENT, "S", DBName)
  /\ stamp' = stamp + 1
  /\ UNCHANGED <<m_ClientFilters, seen, fault, left>>

(* Mutant: the wildcards of the client survive it.                         *)
OnDisconnect_KeepsFilters(c) ==
  /\ c \in connected
  /\ connected' = connected \ {c}
  /\ \E late \in SUBSET Clients :
       m_HeldMailMap' = [Boxes(DB_EVENT, "S", DBName, late) EXCEPT ![c] = <<>>]
  /\ m_VarMap' = [v \in Vars |-> [Written(DB_EVENT, "S", DBName)[v] EXCEPT !.subs[c] = "no"]]
  /\ seen' = [seen EXCEPT ![c] = [v \in Vars |-> 0]]
  /\ left' = [left EXCEPT ![c] = {}]
  /\ stamp' = stamp + 1
  /\ UNCHANGED <<m_ClientFilters, fault>>

(* Everything kept for the client is dropped before the event is written.  *)
OnDisconnect(c) ==
  /\ c \in connected
  /\ connected' = connected \ {c}
  /\ m_ClientFilters' = [m_ClientFilters EXCEPT ![c] = {}]
  /\ \E late \in SUBSET Clients :
       m_HeldMailMap' = [Boxes(DB_EVENT, "S", DBName, late) EXCEPT ![c] = <<>>]
  /\ m_VarMap' = [v \in Vars |-> [Written(DB_EVENT, "S", DBName)[v] EXCEPT !.subs[c] = "no"]]
  /\ seen' = [seen EXCEPT ![c] = [v \in Vars |-> 0]]
  /\ left' = [left EXCEPT ![c] = {}]
  /\ stamp' = stamp + 1
  /\ UNCHANGED <<fault>>

------------------------------------------------------------------------------
(* The ActiveMQ listener: "<end>|<variable>=<text>", always of type string.*)

FromMQ(v) ==
  /\ fault = NoFault /\ stamp < MaxStamp
  /\ \E late \in SUBSET Clients : m_HeldMailMap' = Boxes(v, "S", Fault, late)
  /\ m_VarMap' = Written(v, "S", Fault)
  /\ fault' = v
  /\ stamp' = stamp + 1
  /\ UNCHANGED <<m_ClientFilters, connected, seen, left>>

(* Back in fromMQ, the listener notes that the override lasts to a time in *)
(* the future (one in the past has no effect), whether or not the value    *)
(* was accepted.                                                           *)
SetOverride ==
  /\ fault # NoFault
  /\ m_VarMap' = [m_VarMap EXCEPT ![fault].exists = TRUE, ![fault].override = TRUE]
  /\ fault' = NoFault
  /\ UNCHANGED <<m_HeldMailMap, m_ClientFilters, connected, seen, stamp, left>>

(* The clock passes m_dfOverrideTime.                                      *)
Expire(v) ==
  /\ m_VarMap[v].override
  /\ m_VarMap' = [m_VarMap EXCEPT ![v].override = FALSE]
  /\ UNCHANGED <<m_HeldMailMap, m_ClientFilters, connected, seen, fault, stamp, left>>

Next ==
  \/ \E c \in Clients :
       \/ OnConnect(c) \/ OnDisconnect(c) \/ Timing(c) \/ OnClearRequested(c)
       \/ \E v \in Vars \ {DB_EVENT}, type \in Types : Notify(c, v, type)
       \/ \E v \in Vars, period \in Requested : Register(c, v, period)
       \/ \E v \in Vars : UnRegister(c, v)
       \/ \E F \in Filters : WildcardRegister(c, F) \/ WildcardUnRegister(c, F)
  \/ \E v \in Vars \ {DB_EVENT} : FromMQ(v) \/ Expire(v)
  \/ SetOverride

Spec == Init /\ [][Next]_vars

------------------------------------------------------------------------------
(* A client that has registered for every change of a variable is told of  *)
(* the latest one: once its box is emptied it knows the value the DB has,  *)
(* whoever wrote it and whichever way it came to be subscribed.            *)
SubscriberInformed ==
  \A c \in Clients, v \in Vars :
    (m_VarMap[v].subs[c] = "every" /\ m_VarMap[v].written) =>
      Learn(c, m_HeldMailMap[c])[v] = m_VarMap[v].stamp

(* A wildcard for any application covers every variable that has ever been *)
(* written, before or after the registration, until the client opts out.   *)
WildcardCovers ==
  \A c \in Clients : \A F \in m_ClientFilters[c] : \A v \in F.vars \ left[c] :
    (F.app = Anyone /\ m_VarMap[v].written) => m_VarMap[v].subs[c] # "no"

(* Nothing is kept for a client that has gone: no subscription, wildcard   *)
(* or mail that its successor of the same name would be handed.            *)
NothingForTheGone ==
  \A c \in Clients \ connected :
    /\ m_HeldMailMap[c] = <<>> /\ m_ClientFilters[c] = {}
    /\ \A v \in Vars : m_VarMap[v].subs[c] = "no"

(* Mail is never shown out of order: a client that knows of a write is not *)
(* told of an older one of the same variable, until it reconnects.         *)
NoStaleMail ==
  [][\A c \in connected \cap connected', v \in Vars : seen'[c][v] >= seen[c][v]]_vars

(* What the comment above CMOOSDB_ActiveFaults::OnNotify says: while an    *)
(* override is in effect only the ActiveMQ side changes the variable.      *)
OverrideHolds ==
  [][\A v \in Vars :
       (m_VarMap[v].override /\ m_VarMap'[v].stamp # m_VarMap[v].stamp) =>
         m_VarMap'[v].who = Fault]_vars
==============================================================================
