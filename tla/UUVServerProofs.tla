--------------------------- MODULE UUVServerProofs ---------------------------
(***************************************************************************)
(* Theorems about UUVServer, for any number of sensors and any bounds, and *)
(* at the end about how it comes up (UUVStartup).                          *)
(*                                                                         *)
(* The order of the proofs: Protocol (where the two sides of the socket    *)
(* and the server's loop can be) is inductive together with TypeOK; on top *)
(* of it, Registers (what the application thread holds in a register) is   *)
(* inductive together with ReadingsConserved.                              *)
(***************************************************************************)
EXTENDS UUVServer, UUVStartup, TLAPS

(* One request is under way at a time, and the server's loop variables are *)
(* those of the request it is serving.                                     *)
Protocol ==
  /\ srvPC \in {"summary", "reset"} =>
       cursor \in Sensors /\ line.cmd = "SENSORS" /\ todo # {}
  /\ srvPC = "reset" => todo \subseteq Resettable
  /\ srvPC = "tokens" => line \in SpeedCommand
  /\ srvPC \notin {"read", "closed"} => reply = "none"
  /\ srvPC \notin {"accept", "read", "closed"} => request = None
  /\ request # None => reply = "none"
  /\ \A s \in Sensors : Overlap(s) => raced[s]

TypeInv == TypeOK /\ Protocol

USE UUVServerAssumption

(* A request has one of four commands and differs from the empty line; a   *)
(* SPEED request carries a speed and a state per named sensor.             *)
LEMMA RequestCmds ==
  /\ \A r \in Requests : r # None /\ (r.cmd = "SPEED" => r \in SpeedCommand)
  /\ \A r \in SpeedCommand : r.speed \in Speeds /\ r.state \in [Named -> States]
BY DEF Requests, Plain, SpeedCommand, None

(* initSensorsMap and the constructor leave a well-typed state in which    *)
(* the server waits for its client.                                        *)
LEMMA TypeInvInit == Init => TypeInv
BY DEF Init, TypeInv, TypeOK, Protocol, Sensors, Zero, Fields, Resettable, Counts, None,
       Overlap, AppIn, SrvIn

(* A step that changes nothing keeps the type and the protocol.            *)
LEMMA Stutter == TypeInv /\ UNCHANGED vars => TypeInv'
<1> SUFFICES ASSUME TypeInv, UNCHANGED vars PROVE TypeInv'
  OBVIOUS
<1> USE DEF TypeInv, vars, appVars, srvVars, sockVars, histVars
<1>1. TypeOK'
  BY DEF TypeOK
<1>2. Protocol'
  BY DEF Protocol, Overlap, AppIn, SrvIn
<1> QED BY <1>1, <1>2

(* Type correctness, one step per action.                                  *)
LEMMA TypeStep == TypeInv /\ Next => TypeOK'
<1> SUFFICES ASSUME TypeInv, Next PROVE TypeOK'
  OBVIOUS
<1> USE DEF TypeInv, TypeOK, appVars, srvVars, sockVars, histVars, Fields, Resettable, Counts
<1>1. raced' \in [Sensors -> BOOLEAN]
  BY DEF Next, Observed, Overlap, AppIn, SrvIn
<1>2. ASSUME NEW s \in Sensors, NEW value \in {0, 1}, NewReading(s, value) PROVE TypeOK'
  <2>1. m_sensors_map[s]["numOfReadings"] \in Int
    OBVIOUS
  <2>2. delivered' \in [Sensors -> [Counts -> Int]]
    BY <1>2 DEF NewReading
  <2> QED BY <1>1, <1>2, <2>1, <2>2 DEF NewReading
<1>3. CASE StoreCount BY <1>1, <1>3 DEF StoreCount
<1>4. CASE StoreRate
  <2>1. PICK n \in {appReg + 1, m_sensors_map[appSensor]["numOfReadings"]} :
          m_sensors_map' = [m_sensors_map EXCEPT ![appSensor]["averageRate"] = n]
    BY <1>4 DEF StoreRate
  <2>2. n \in Int
    OBVIOUS
  <2> QED BY <1>1, <1>4, <2>1, <2>2 DEF StoreRate
<1>5. CASE LoadSucc
  <2>1. m_sensors_map[appSensor]["numOfSuccReadings"] \in Int
    OBVIOUS
  <2> QED BY <1>1, <1>5, <2>1 DEF LoadSucc
<1>6. CASE StoreSucc BY <1>1, <1>6 DEF StoreSucc
<1>7. CASE Iterate BY <1>1, <1>7 DEF Iterate
<1>8. CASE Accept BY <1>1, <1>8 DEF Accept
<1>9. CASE Read BY <1>1, <1>9 DEF Read, Dispatch
<1>10. CASE ReadClosed BY <1>1, <1>10 DEF ReadClosed
<1>11. ASSUME NEW f \in Fields, SummaryField(f) PROVE TypeOK'
  <2>1. summary' \in [Sensors -> [Fields -> Int]]
    BY <1>11 DEF SummaryField, Protocol
  <2>2. srvPC' \in {"summary", "reset"} /\ todo' \subseteq Fields
    BY <1>11 DEF SummaryField
  <2> QED BY <1>1, <1>11, <2>1, <2>2 DEF SummaryField
<1>12. ASSUME NEW f \in Fields, ResetField(f) PROVE TypeOK'
  <2>1. m_sensors_map' \in [Sensors -> [Fields -> Int]]
    BY <1>12 DEF ResetField, Protocol
  <2>2. /\ srvPC' \in {"summary", "reset", "write"} /\ cursor' \in Nat
        /\ todo' \subseteq Fields
    <3>1. CASE todo = {f} BY <1>12, <3>1 DEF ResetField
    <3>2. CASE todo # {f} BY <1>12, <3>2 DEF ResetField
    <3> QED BY <3>1, <3>2
  <2> QED BY <1>1, <1>12, <2>1, <2>2 DEF ResetField
<1>13. CASE ApplySpeed
  <2>1. line.speed \in Speeds
    BY <1>13, RequestCmds DEF ApplySpeed, Protocol
  <2> QED BY <1>1, <1>13, <2>1 DEF ApplySpeed
<1>14. CASE ApplyState
  <2>1. cursor \in Named => line.state[cursor] \in Int
    BY <1>14, RequestCmds DEF ApplyState, Protocol
  <2>2. m_sensors_map' \in [Sensors -> [Fields -> Int]]
    BY <1>14, <2>1 DEF ApplyState
  <2> QED BY <1>1, <1>14, <2>2 DEF ApplyState
<1>15. CASE TokensDone BY <1>1, <1>15 DEF TokensDone, Protocol
<1>16. CASE Write BY <1>1, <1>16 DEF Write, ReplyTo
<1>17. CASE Connect BY <1>1, <1>17 DEF Connect
<1>18. CASE Receive
  <2>1. received' \in [Sensors -> [Counts -> Int]]
    BY <1>18 DEF Receive
  <2> QED BY <1>1, <1>18, <2>1 DEF Receive
<1>19. CASE Disconnect BY <1>1, <1>19 DEF Disconnect
<1>20. ASSUME NEW r \in Requests, Send(r) PROVE TypeOK'
  BY <1>1, <1>20 DEF Send
<1> QED
  BY <1>2, <1>3, <1>4, <1>5, <1>6, <1>7, <1>8, <1>9, <1>10, <1>11, <1>12, <1>13, <1>14,
     <1>15, <1>16, <1>17, <1>18, <1>19, <1>20
  DEF Next, AppThread, ServerThread, ClientStep

(* The protocol, one step per action that moves the server or the socket.  *)
LEMMA ProtocolStep == TypeInv /\ Next => Protocol'
<1> SUFFICES ASSUME TypeInv, Next PROVE Protocol'
  OBVIOUS
<1> USE DEF TypeInv, Protocol, appVars, srvVars, sockVars
<1>1. \A s \in Sensors : Overlap(s)' => raced'[s]
  BY DEF Next, Observed, Overlap, AppIn, SrvIn
<1>2. CASE AppThread
  <2>1. UNCHANGED <<srvVars, sockVars>>
    BY <1>2 DEF AppThread, NewReading, StoreCount, StoreRate, LoadSucc, StoreSucc, Iterate
  <2> QED BY <1>1, <2>1
<1>3. CASE Accept BY <1>1, <1>3 DEF Accept
<1>4. CASE Read
  <2>1. line' \in Requests /\ line' = request /\ line'.cmd = request.cmd
    BY <1>4 DEF Read, TypeOK
  <2>2. 1 \in Sensors
    BY DEF Sensors
  <2> QED BY <1>1, <1>4, <2>1, <2>2, RequestCmds DEF Read, Dispatch, Fields
<1>5. CASE ReadClosed BY <1>1, <1>5 DEF ReadClosed
<1>6. ASSUME NEW f \in Fields, SummaryField(f) PROVE Protocol'
  BY <1>1, <1>6 DEF SummaryField, Resettable
<1>7. ASSUME NEW f \in Fields, ResetField(f) PROVE Protocol'
  BY <1>1, <1>7 DEF ResetField, Sensors, Fields
<1>8. CASE ApplySpeed BY <1>1, <1>8 DEF ApplySpeed
<1>9. CASE ApplyState BY <1>1, <1>9 DEF ApplyState
<1>10. CASE TokensDone BY <1>1, <1>10 DEF TokensDone
<1>11. CASE Write BY <1>1, <1>11 DEF Write
<1>12. CASE Connect BY <1>1, <1>12 DEF Connect
<1>13. CASE Receive BY <1>1, <1>13 DEF Receive
<1>14. CASE Disconnect BY <1>1, <1>14 DEF Disconnect
<1>15. ASSUME NEW r \in Requests, Send(r) PROVE Protocol'
  BY <1>1, <1>15 DEF Send, Outstanding
<1> QED
  BY <1>2, <1>3, <1>4, <1>5, <1>6, <1>7, <1>8, <1>9, <1>10, <1>11, <1>12, <1>13, <1>14,
     <1>15
  DEF Next, ServerThread, ClientStep

(* Type correctness holds in every reachable state.                        *)
THEOREM TypeCorrect == Spec => []TypeOK
<1>1. TypeInv /\ [Next]_vars => TypeInv'
  BY Stutter, TypeStep, ProtocolStep DEF TypeInv
<1> QED BY TypeInvInit, <1>1, PTL DEF Spec, TypeInv
------------------------------------------------------------------------------
(* What the application thread holds in its register is still what the map *)
(* holds, as long as the server thread has not come in between.            *)
Registers ==
  \A s \in Sensors : (appSensor = s /\ ~raced[s]) =>
    /\ appPC = "count" => appReg = m_sensors_map[s]["numOfReadings"]
    /\ appPC = "rate" => appReg + 1 = m_sensors_map[s]["numOfReadings"]
    /\ appPC = "storeSucc" => appReg = m_sensors_map[s]["numOfSuccReadings"]

(* The loop tests of newReading.                                           *)
SuccessOnly == appPC \in {"succ", "storeSucc"} => appValue = 1

(* Next only adds to raced: an overlap is never forgotten, and one under   *)
(* way is recorded.                                                        *)
LEMMA RacedGrows ==
  ASSUME TypeInv, Next, NEW s \in Sensors, ~raced'[s]
  PROVE ~raced[s] /\ ~Overlap(s) /\ ~(Overlap(s)')
<1> USE DEF TypeInv, TypeOK, Protocol, Next, Observed, Overlap, AppIn, SrvIn
<1>1. ~raced[s] /\ ~(Overlap(s)')
  OBVIOUS
<1> QED BY <1>1

(* The register of newReading's thread holds the counter it is about to    *)
(* increment, unless reset raced with it; one step per action.             *)
LEMMA RegistersStep ==
  TypeInv /\ Registers /\ SuccessOnly /\ Next => Registers' /\ SuccessOnly'
<1> SUFFICES ASSUME TypeInv, Registers, SuccessOnly, Next PROVE Registers' /\ SuccessOnly'
  OBVIOUS
<1>1. \A s \in Sensors : raced[s] => raced'[s]
  BY DEF TypeInv, TypeOK, Next, Observed, Overlap, AppIn, SrvIn
<1> USE DEF TypeInv, TypeOK, Registers, SuccessOnly, appVars, srvVars, sockVars, Fields,
            Resettable, Counts
<1>2. ASSUME NEW s \in Sensors, NEW value \in {0, 1}, NewReading(s, value)
      PROVE Registers' /\ SuccessOnly'
  BY <1>2, <1>1 DEF NewReading
<1>3. CASE StoreCount BY <1>3, <1>1 DEF StoreCount
<1>4. CASE StoreRate
  <2>1. \A s \in Sensors, f \in Counts : m_sensors_map'[s][f] = m_sensors_map[s][f]
    BY <1>4 DEF StoreRate
  <2> QED BY <1>4, <2>1, <1>1 DEF StoreRate
<1>5. CASE LoadSucc BY <1>5, <1>1 DEF LoadSucc
<1>6. CASE StoreSucc BY <1>6, <1>1 DEF StoreSucc
<1>7. CASE UNCHANGED <<appVars, m_sensors_map>> BY <1>7, <1>1
<1>8. ASSUME NEW f \in Fields, ResetField(f) PROVE Registers' /\ SuccessOnly'
  <2>1. \A s \in Sensors : s # cursor => m_sensors_map'[s] = m_sensors_map[s]
    BY <1>8 DEF ResetField
  <2>2. cursor \in Sensors /\ (AppIn(cursor) => raced[cursor])
    BY <1>8 DEF ResetField, Protocol, Overlap, SrvIn
  <2> QED BY <1>8, <2>1, <2>2, <1>1 DEF ResetField, AppIn
<1>9. CASE ApplyState
  <2>1. \A s \in Sensors, f \in Counts : m_sensors_map'[s][f] = m_sensors_map[s][f]
    BY <1>9 DEF ApplyState
  <2> QED BY <1>9, <2>1, <1>1 DEF ApplyState
<1>10. ASSUME NEW f \in Fields, SummaryField(f) PROVE UNCHANGED <<appVars, m_sensors_map>>
  BY <1>10 DEF SummaryField
<1>11. ASSUME NEW r \in Requests, Send(r) PROVE UNCHANGED <<appVars, m_sensors_map>>
  BY <1>11 DEF Send
<1>12. Iterate \/ Accept \/ Read \/ ReadClosed \/ ApplySpeed \/ TokensDone \/ Write
       \/ Connect \/ Receive \/ Disconnect => UNCHANGED <<appVars, m_sensors_map>>
  BY DEF Iterate, Accept, Read, ReadClosed, ApplySpeed, TokensDone, Write, Connect, Receive,
         Disconnect
<1> QED
  BY <1>2, <1>3, <1>4, <1>5, <1>6, <1>7, <1>8, <1>9, <1>10, <1>11, <1>12
  DEF Next, AppThread, ServerThread, ClientStep

(* The bookkeeping itself.  For one sensor and one of its two counters, a  *)
(* step moves a reading from one place of the sum to another.              *)
LEMMA ConservedStep ==
  TypeInv /\ Registers /\ SuccessOnly /\ ReadingsConserved /\ Next => ReadingsConserved'
<1> SUFFICES ASSUME TypeInv, Registers, SuccessOnly, ReadingsConserved, Next,
                    NEW s \in Sensors, NEW f \in Counts, ~raced'[s]
             PROVE (delivered[s][f] = received[s][f] + Reported(s, f) + Unreported(s, f)
                                        + InFlight(s, f))'
  BY DEF ReadingsConserved
<1>1. /\ ~raced[s]
      /\ delivered[s][f] = received[s][f] + Reported(s, f) + Unreported(s, f) + InFlight(s, f)
  BY RacedGrows DEF ReadingsConserved
<1>2. /\ m_sensors_map[s][f] \in Int /\ summary[s][f] \in Int
      /\ delivered[s][f] \in Int /\ received[s][f] \in Int
      /\ f \in Fields /\ f \in Resettable
  BY DEF TypeInv, TypeOK, Fields, Resettable, Counts
<1>3. ~Overlap(s) /\ ~(Overlap(s)')
  BY RacedGrows
<1> USE DEF appVars, srvVars, sockVars, histVars
<1>4. ASSUME NEW z \in Sensors, NEW value \in {0, 1}, NewReading(z, value)
      PROVE (delivered[s][f] = received[s][f] + Reported(s, f) + Unreported(s, f)
                                        + InFlight(s, f))'
  <2>1. delivered'[s][f] = IF z # s THEN delivered[s][f]
                           ELSE delivered[s][f] + IF f = "numOfReadings" THEN 1 ELSE value
    BY <1>4 DEF NewReading, TypeInv, TypeOK
  <2>2. Reported(s, f)' = Reported(s, f) /\ Unreported(s, f)' = Unreported(s, f)
    BY <1>4 DEF NewReading, Reported, Unreported, Taken, Doubled
  <2>3. InFlight(s, f) = 0
    BY <1>4 DEF NewReading, InFlight
  <2>4. InFlight(s, f)' = IF z # s THEN 0 ELSE IF f = "numOfReadings" THEN 1 ELSE value
    BY <1>4 DEF NewReading, InFlight
  <2>5. Reported(s, f) \in Int /\ Unreported(s, f) \in Int /\ UNCHANGED received
    BY <1>2, <1>4 DEF Reported, Unreported, NewReading
  <2> QED BY <1>1, <1>2, <2>1, <2>2, <2>3, <2>4, <2>5
<1>5. CASE StoreCount
  <2>1. UNCHANGED <<delivered, received, summary, srvVars, sockVars, appSensor, appValue>>
    BY <1>5 DEF StoreCount
  <2>2. Reported(s, f)' = Reported(s, f)
    BY <2>1 DEF Reported, Taken
  <2>3. CASE appSensor = s
    <3>1. ~Doubled(s, f) /\ ~Doubled(s, f)'
      BY <1>3, <1>5, <2>1, <2>3 DEF Doubled, Overlap, AppIn, SrvIn, StoreCount
    <3>2. m_sensors_map'[s][f] = IF f = "numOfReadings" THEN m_sensors_map[s][f] + 1
                                 ELSE m_sensors_map[s][f]
      BY <1>1, <1>5, <2>3 DEF StoreCount, Registers, TypeInv, TypeOK, Fields, Resettable, Counts
    <3>3. InFlight(s, f)' = IF f = "numOfReadings" THEN 0 ELSE InFlight(s, f)
      BY <1>5, <2>1, <2>3 DEF StoreCount, InFlight
    <3>4. f = "numOfReadings" => InFlight(s, f) = 1
      BY <1>5, <2>3 DEF StoreCount, InFlight
    <3>5. InFlight(s, f) \in Int /\ Reported(s, f) \in Int
      BY <1>2 DEF InFlight, Reported, TypeInv, TypeOK
    <3> QED BY <1>1, <1>2, <2>1, <2>2, <3>1, <3>2, <3>3, <3>4, <3>5 DEF Unreported
  <2>4. CASE appSensor # s
    <3>1. m_sensors_map'[s] = m_sensors_map[s]
      BY <1>5, <2>4 DEF StoreCount, TypeInv, TypeOK
    <3> QED
      BY <1>1, <2>1, <2>2, <2>4, <3>1 DEF Unreported, Doubled, InFlight
  <2> QED BY <2>3, <2>4
<1>6. CASE StoreRate
  <2>1. m_sensors_map'[s][f] = m_sensors_map[s][f]
    BY <1>6 DEF StoreRate, TypeInv, TypeOK, Counts
  <2>2. UNCHANGED <<delivered, received, summary, srvVars, sockVars>>
    BY <1>6 DEF StoreRate
  <2>3. InFlight(s, f)' = InFlight(s, f)
    BY <1>6 DEF StoreRate, InFlight, TypeInv, TypeOK
  <2> QED BY <1>1, <2>1, <2>2, <2>3 DEF Reported, Unreported, Taken, Doubled
<1>7. CASE LoadSucc
  <2>1. InFlight(s, f)' = InFlight(s, f)
    BY <1>7 DEF LoadSucc, InFlight
  <2> QED BY <1>1, <1>7, <2>1 DEF LoadSucc, Reported, Unreported, Taken, Doubled
<1>8. CASE StoreSucc
  <2>1. UNCHANGED <<delivered, received, summary, srvVars, sockVars, appSensor, appValue>>
    BY <1>8 DEF StoreSucc
  <2>2. Reported(s, f)' = Reported(s, f)
    BY <2>1 DEF Reported, Taken
  <2>3. CASE appSensor = s
    <3>1. ~Doubled(s, f) /\ ~Doubled(s, f)'
      BY <1>3, <1>8, <2>1, <2>3 DEF Doubled, Overlap, AppIn, SrvIn, StoreSucc
    <3>2. m_sensors_map'[s][f] = IF f = "numOfReadings" THEN m_sensors_map[s][f]
                                 ELSE m_sensors_map[s][f] + 1
      BY <1>1, <1>8, <2>3 DEF StoreSucc, Registers, TypeInv, TypeOK, Fields, Resettable, Counts
    <3>3. InFlight(s, f)' = 0 /\ InFlight(s, f) = IF f = "numOfReadings" THEN 0 ELSE 1
      BY <1>8, <2>1, <2>3 DEF StoreSucc, InFlight, SuccessOnly
    <3>4. Reported(s, f) \in Int
      BY <1>2 DEF Reported
    <3> QED BY <1>1, <1>2, <2>1, <2>2, <3>1, <3>2, <3>3, <3>4 DEF Unreported
  <2>4. CASE appSensor # s
    <3>1. m_sensors_map'[s] = m_sensors_map[s]
      BY <1>8, <2>4 DEF StoreSucc, TypeInv, TypeOK
    <3> QED
      BY <1>1, <2>1, <2>2, <2>4, <3>1 DEF Unreported, Doubled, InFlight
  <2> QED BY <2>3, <2>4
<1>9. ASSUME UNCHANGED <<delivered, received, m_sensors_map, summary, appVars>>,
             (Taken(s, f)' <=> Taken(s, f)), (Doubled(s, f)' <=> Doubled(s, f))
      PROVE (delivered[s][f] = received[s][f] + Reported(s, f) + Unreported(s, f)
                                        + InFlight(s, f))'
  BY <1>1, <1>9 DEF Reported, Unreported, InFlight
<1>10. CASE Read
  <2>1. ~Taken(s, f) /\ ~Taken(s, f)' /\ ~Doubled(s, f) /\ ~Doubled(s, f)'
    BY <1>2, <1>10, RequestCmds
    DEF Read, Dispatch, Taken, Doubled, TypeInv, TypeOK, Protocol, Sensors
  <2> QED BY <1>9, <1>10, <2>1 DEF Read
<1>11. ASSUME NEW g \in Fields, SummaryField(g)
      PROVE (delivered[s][f] = received[s][f] + Reported(s, f) + Unreported(s, f)
                                        + InFlight(s, f))'
  <2>1. UNCHANGED <<delivered, received, m_sensors_map, appVars, cursor, reply>> /\ g \in todo
    BY <1>11 DEF SummaryField
  <2>2. CASE s = cursor /\ f = g
    <3>1. ~Taken(s, f) /\ ~Doubled(s, f)
      BY <1>11, <2>1, <2>2 DEF SummaryField, Taken, Doubled, TypeInv, Protocol, Sensors
    <3>2. Taken(s, f)' /\ Doubled(s, f)'
      <4>1. cursor' = cursor /\ cursor \in Int /\ srvPC = "summary"
        BY <1>11 DEF SummaryField, TypeInv, TypeOK
      <4>2. CASE todo = {g}
        <5>1. srvPC' = "reset" /\ todo' = Resettable
          BY <1>11, <4>2 DEF SummaryField
        <5> QED BY <1>2, <2>2, <4>1, <5>1 DEF Taken, Doubled
      <4>3. CASE todo # {g}
        <5>1. srvPC' = "summary" /\ f \notin todo'
          BY <1>11, <2>2, <4>1, <4>3 DEF SummaryField
        <5> QED BY <2>2, <4>1, <5>1 DEF Taken, Doubled
      <4> QED BY <4>2, <4>3
    <3>3. summary'[s][f] = m_sensors_map[s][f]
      BY <1>11, <2>2 DEF SummaryField, TypeInv, TypeOK, Fields, Resettable
    <3>4. InFlight(s, f)' = InFlight(s, f)
      BY <2>1 DEF InFlight
    <3> QED BY <1>1, <1>2, <2>1, <3>1, <3>2, <3>3, <3>4 DEF Reported, Unreported
  <2>3. CASE ~(s = cursor /\ f = g)
    <3>1. summary'[s][f] = summary[s][f]
      BY <1>11, <2>3 DEF SummaryField, TypeInv, TypeOK, Fields, Resettable
    <3>2. (Taken(s, f)' <=> Taken(s, f)) /\ (Doubled(s, f)' <=> Doubled(s, f))
      <4>1. CASE todo = {g}
        <5>1. /\ srvPC = "summary" /\ srvPC' = "reset" /\ todo' = Resettable
              /\ cursor' = cursor /\ cursor \in Int /\ s \in Int /\ reply' = reply
              /\ reply = "none"
          BY <1>11, <2>1, <4>1 DEF SummaryField, TypeInv, TypeOK, Protocol, Sensors
        <5>2. Doubled(s, f)' <=> Doubled(s, f)
          BY <1>2, <2>3, <4>1, <5>1 DEF Doubled
        <5>3. Taken(s, f)' <=> Taken(s, f)
          BY <1>2, <2>3, <4>1, <5>1 DEF Taken
        <5> QED BY <5>2, <5>3
      <4>2. CASE todo # {g}
        BY <1>2, <1>11, <2>1, <2>3, <4>2 DEF SummaryField, Taken, Doubled
      <4> QED BY <4>1, <4>2
    <3>3. InFlight(s, f)' = InFlight(s, f)
      BY <2>1 DEF InFlight
    <3> QED BY <1>1, <2>1, <3>1, <3>2, <3>3 DEF Reported, Unreported
  <2> QED BY <2>2, <2>3
<1>12. ASSUME NEW g \in Fields, ResetField(g)
      PROVE (delivered[s][f] = received[s][f] + Reported(s, f) + Unreported(s, f)
                                        + InFlight(s, f))'
  <2>1. UNCHANGED <<delivered, received, summary, appVars, reply, line>> /\ g \in todo
    BY <1>12 DEF ResetField
  <2>2. (Taken(s, f)' <=> Taken(s, f))
    <3>1. CASE todo = {g}
      <4>1. /\ srvPC = "reset" /\ cursor' = cursor + 1 /\ cursor \in Int /\ s \in Int
            /\ s <= NumSensors /\ cursor <= NumSensors /\ NumSensors \in Int
            /\ todo' = Fields /\ line'.cmd = "SENSORS"
            /\ srvPC' = IF cursor < NumSensors THEN "summary" ELSE "write"
            /\ reply = "none" /\ reply' = "none"
        BY <1>12, <2>1, <3>1 DEF ResetField, TypeInv, TypeOK, Protocol, Sensors
      <4>2. CASE cursor < NumSensors
        BY <1>2, <4>1, <4>2 DEF Taken
      <4>3. CASE ~(cursor < NumSensors)
        BY <4>1, <4>3 DEF Taken
      <4> QED BY <4>2, <4>3
    <3>2. CASE todo # {g}
      BY <1>12, <2>1, <3>2 DEF ResetField, Taken
    <3> QED BY <3>1, <3>2
  <2>3. InFlight(s, f)' = InFlight(s, f)
    BY <2>1 DEF InFlight
  <2>4. CASE s = cursor /\ f = g
    <3>1. Doubled(s, f)
      BY <1>12, <2>4 DEF ResetField, Doubled
    <3>2. m_sensors_map'[s][f] = 0
      BY <1>2, <1>12, <2>4 DEF ResetField, TypeInv, TypeOK
    <3>3. Unreported(s, f) = 0 /\ Unreported(s, f)' = 0
      BY <3>1, <3>2 DEF Unreported
    <3> QED BY <1>1, <2>1, <2>2, <2>3, <3>3 DEF Reported
  <2>5. CASE ~(s = cursor /\ f = g)
    <3>1. m_sensors_map'[s][f] = m_sensors_map[s][f]
      BY <1>2, <1>12, <2>5 DEF ResetField, TypeInv, TypeOK
    <3>2. (Doubled(s, f)' <=> Doubled(s, f))
      <4>1. CASE todo = {g}
        BY <1>2, <1>12, <2>1, <2>5, <4>1
        DEF ResetField, Doubled, TypeInv, TypeOK, Protocol, Sensors
      <4>2. CASE todo # {g}
        BY <1>2, <1>12, <2>1, <2>5, <4>2 DEF ResetField, Doubled
      <4> QED BY <4>1, <4>2
    <3> QED BY <1>1, <2>1, <2>2, <2>3, <3>1, <3>2 DEF Reported, Unreported
  <2> QED BY <2>4, <2>5
<1>13. CASE ApplyState
  <2>1. m_sensors_map'[s][f] = m_sensors_map[s][f]
    BY <1>13 DEF ApplyState, TypeInv, TypeOK, Counts
  <2>2. UNCHANGED <<delivered, received, summary, appVars, reply, line, srvPC>>
    BY <1>13 DEF ApplyState
  <2>3. (Taken(s, f)' <=> Taken(s, f)) /\ ~Doubled(s, f) /\ ~Doubled(s, f)'
    BY <1>13, <2>2 DEF ApplyState, Taken, Doubled
  <2> QED BY <1>1, <2>1, <2>2, <2>3 DEF Reported, Unreported, InFlight
<1>14. CASE Write
  <2>1. (Taken(s, f)' <=> Taken(s, f)) /\ ~Doubled(s, f) /\ ~Doubled(s, f)'
    BY <1>14 DEF Write, ReplyTo, Taken, Doubled, TypeInv, Protocol
  <2> QED BY <1>9, <1>14, <2>1 DEF Write
<1>15. CASE Receive
  <2>1. /\ (Taken(s, f) <=> reply = "report") /\ ~Taken(s, f)'
        /\ ~Doubled(s, f) /\ ~Doubled(s, f)'
    BY <1>15 DEF Receive, Taken, Doubled, TypeInv, Protocol
  <2>2. received'[s][f] = IF reply = "report" THEN received[s][f] + summary[s][f]
                          ELSE received[s][f]
    BY <1>15 DEF Receive, TypeInv, TypeOK
  <2>3. UNCHANGED <<delivered, m_sensors_map>> /\ InFlight(s, f)' = InFlight(s, f)
    BY <1>15 DEF Receive, InFlight
  <2>4. InFlight(s, f) \in Int
    BY DEF InFlight, TypeInv, TypeOK
  <2> QED BY <1>1, <1>2, <2>1, <2>2, <2>3, <2>4 DEF Reported, Unreported
<1>16. ASSUME Iterate \/ Accept \/ ReadClosed \/ ApplySpeed \/ TokensDone \/ Connect
               \/ Disconnect \/ (\E r \in Requests : Send(r))
      PROVE (delivered[s][f] = received[s][f] + Reported(s, f) + Unreported(s, f)
                                        + InFlight(s, f))'
  <2>1. UNCHANGED <<delivered, received, m_sensors_map, summary, appVars>>
    BY <1>16
    DEF Iterate, Accept, ReadClosed, ApplySpeed, TokensDone, Connect, Disconnect, Send
  <2>2. (Taken(s, f)' <=> Taken(s, f)) /\ (Doubled(s, f)' <=> Doubled(s, f))
    BY <1>16
    DEF Iterate, Accept, ReadClosed, ApplySpeed, TokensDone, Connect, Disconnect, Send,
        Taken, Doubled, TypeInv, Protocol, SpeedCommand
  <2> QED BY <1>9, <2>1, <2>2
<1> QED
  BY <1>4, <1>5, <1>6, <1>7, <1>8, <1>10, <1>11, <1>12, <1>13, <1>14, <1>15, <1>16
  DEF Next, AppThread, ServerThread, ClientStep

(* No reading is lost or repeated on a sensor whose newReading and whose   *)
(* report never overlapped, whatever the number of sensors and requests.   *)
THEOREM Conservation == Spec => []ReadingsConserved
<1> DEFINE IInv == TypeInv /\ Registers /\ SuccessOnly /\ ReadingsConserved
<1>1. Init => IInv
  <2>1. Init => Registers /\ SuccessOnly
    BY DEF Init, Registers, SuccessOnly
  <2>2. Init => ReadingsConserved
    BY DEF Init, ReadingsConserved, Reported, Unreported, InFlight, Taken, Doubled, Zero,
           Counts, Resettable, Fields, Sensors
  <2> QED BY <2>1, <2>2, TypeInvInit
<1>2. IInv /\ [Next]_vars => IInv'
  <2>1. IInv /\ Next => IInv'
    BY TypeStep, ProtocolStep, RegistersStep, ConservedStep DEF TypeInv
  <2>2. IInv /\ UNCHANGED vars => IInv'
    <3> SUFFICES ASSUME IInv, UNCHANGED vars PROVE IInv'
      OBVIOUS
    <3>1. Registers' /\ SuccessOnly'
      BY DEF Registers, SuccessOnly, vars, appVars
    <3>2. ReadingsConserved'
      BY DEF ReadingsConserved, Reported, Unreported, InFlight, Taken, Doubled, vars, appVars,
             srvVars, sockVars, histVars
    <3> QED BY Stutter, <3>1, <3>2
  <2> QED BY <2>1, <2>2
<1> QED BY <1>1, <1>2, PTL DEF Spec

------------------------------------------------------------------------------
(* While the tokens of a command are applied, those before the cursor are. *)
Applied ==
  srvPC = "tokens" =>
    /\ cursor > 0 => other = line.speed
    /\ \A s \in Sensors \cap Named : s < cursor => m_sensors_map[s]["state"] = line.state[s]

CommandInv == Applied /\ CommandInForce

(* Only ApplyState, hence a SPEED command, changes a sensor's state.       *)
LEMMA StateOnlyByTokens ==
  ASSUME TypeInv, Next, NEW s \in Sensors, ~ApplyState
  PROVE m_sensors_map'[s]["state"] = m_sensors_map[s]["state"]
<1> USE DEF TypeInv, TypeOK, Fields, Resettable, Counts
<1>1. ASSUME NEW f \in Fields, ResetField(f)
      PROVE m_sensors_map'[s]["state"] = m_sensors_map[s]["state"]
  BY <1>1 DEF ResetField, Protocol
<1>2. CASE StoreCount \/ StoreRate \/ StoreSucc
  <2>1. CASE StoreCount BY <2>1 DEF StoreCount
  <2>2. CASE StoreRate
    <3>1. PICK n \in {appReg + 1, m_sensors_map[appSensor]["numOfReadings"]} :
            m_sensors_map' = [m_sensors_map EXCEPT ![appSensor]["averageRate"] = n]
      BY <2>2 DEF StoreRate
    <3> QED BY <3>1
  <2>3. CASE StoreSucc BY <2>3 DEF StoreSucc
  <2> QED BY <1>2, <2>1, <2>2, <2>3
<1>3. CASE UNCHANGED m_sensors_map
  BY <1>3
<1> QED
  BY <1>1, <1>2, <1>3
  DEF Next, AppThread, ServerThread, ClientStep, NewReading, LoadSucc, Iterate, Accept, Read,
      ReadClosed, SummaryField, ApplySpeed, TokensDone, Write, Connect, Receive, Disconnect,
      Send

(* A command being applied has already taken effect up to the cursor, and  *)
(* one that has been applied is not disturbed; one step per action.        *)
LEMMA CommandStep == TypeInv /\ CommandInv /\ Next => CommandInv'
<1> SUFFICES ASSUME TypeInv, CommandInv, Next PROVE CommandInv'
  OBVIOUS
<1> USE DEF CommandInv, Applied, CommandInForce, srvVars, sockVars, histVars
<1>1. CASE ApplyState
  <2>1. cursor \in Sensors /\ cursor' = cursor + 1 /\ srvPC = "tokens" /\ srvPC' = "tokens"
        /\ UNCHANGED <<other, line>>
    BY <1>1 DEF ApplyState
  <2>2. ASSUME NEW s \in Sensors \cap Named, s < cursor'
        PROVE m_sensors_map'[s]["state"] = line.state[s]
    <3>1. s < cursor \/ s = cursor
      BY <2>1, <2>2 DEF Sensors
    <3>2. CASE s = cursor
      BY <1>1, <3>2 DEF ApplyState, TypeInv, TypeOK, Fields
    <3>3. CASE s # cursor
      <4>1. m_sensors_map'[s] = m_sensors_map[s]
        BY <1>1, <3>3 DEF ApplyState, TypeInv, TypeOK
      <4> QED BY <2>1, <3>1, <3>3, <4>1
    <3> QED BY <3>2, <3>3
  <2> QED BY <2>1, <2>2 DEF Sensors
<1>2. CASE ~ApplyState
  <2>1. \A s \in Sensors : m_sensors_map'[s]["state"] = m_sensors_map[s]["state"]
    BY <1>2, StateOnlyByTokens
  <2>2. CASE AppThread \/ ClientStep
    <3>1. UNCHANGED <<other, line, cursor, srvPC, inForce>>
      BY <2>2
      DEF AppThread, ClientStep, NewReading, StoreCount, StoreRate, LoadSucc, StoreSucc,
          Iterate, Connect, Receive, Disconnect, Send
    <3> QED BY <2>1, <3>1
  <2>3. CASE Read
    <3>1. cursor' = 0 \/ srvPC' # "tokens"
      BY <2>3 DEF Read, Dispatch
    <3>2. UNCHANGED <<other, inForce>> /\ srvPC = "read"
      BY <2>3 DEF Read
    <3> QED BY <2>1, <3>1, <3>2 DEF Sensors
  <2>4. CASE ApplySpeed
    BY <2>1, <2>4 DEF ApplySpeed, Sensors
  <2>5. CASE TokensDone
    <3>1. \A s \in Sensors \cap Named : s < cursor
      BY <2>5 DEF TokensDone, Sensors, TypeInv, TypeOK
    <3>2. cursor > 0
      BY <2>5 DEF TokensDone, TypeInv, TypeOK
    <3> QED BY <2>1, <2>5, <3>1, <3>2 DEF TokensDone
  <2>6. CASE Accept \/ ReadClosed \/ Write
    BY <2>1, <2>6 DEF Accept, ReadClosed, Write
  <2>7. ASSUME NEW f \in Fields, SummaryField(f) \/ ResetField(f) PROVE CommandInv'
    <3>1. UNCHANGED <<other, inForce>> /\ srvPC # "tokens" /\ srvPC' # "tokens"
      BY <2>7 DEF SummaryField, ResetField
    <3> QED BY <2>1, <3>1
  <2> QED BY <1>2, <2>2, <2>3, <2>4, <2>5, <2>6, <2>7 DEF Next, ServerThread
<1> QED BY <1>1, <1>2

(* An acknowledged command stays in force until the next one: no report,   *)
(* reset or reading changes the speed or a sensor's state.                 *)
THEOREM CommandsStay == Spec => []CommandInForce
<1> DEFINE IInv == TypeInv /\ CommandInv
<1>1. Init => IInv
  BY TypeInvInit DEF Init, CommandInv, Applied, CommandInForce
<1>2. IInv /\ [Next]_vars => IInv'
  <2>1. IInv /\ Next => IInv'
    BY TypeStep, ProtocolStep, CommandStep DEF TypeInv
  <2>2. IInv /\ UNCHANGED vars => IInv'
    BY Stutter DEF CommandInv, Applied, CommandInForce, vars, srvVars, histVars
  <2> QED BY <2>1, <2>2
<1> QED BY <1>1, <1>2, PTL DEF Spec, CommandInv

------------------------------------------------------------------------------
(* The fields getSummary has already copied still stand in the map, and  *)
(* those reset has cleared are still zero: nobody else is at this sensor.  *)
Copied ==
  \A s \in Sensors, f \in Resettable : (s = cursor /\ ~raced[s] /\ f \notin todo) =>
    /\ srvPC = "summary" => summary[s][f] = m_sensors_map[s][f]
    /\ srvPC = "reset" => m_sensors_map[s][f] = 0

(* getSummary and reset work on a sensor that nobody else changes.         *)
LEMMA CopiedStep == TypeInv /\ Copied /\ Next => Copied'
<1> SUFFICES ASSUME TypeInv, Copied, Next, NEW s \in Sensors, NEW f \in Resettable,
                    s = cursor', ~raced'[s], f \notin todo'
             PROVE /\ srvPC' = "summary" => summary'[s][f] = m_sensors_map'[s][f]
                   /\ srvPC' = "reset" => m_sensors_map'[s][f] = 0
  BY DEF Copied
<1>1. ~raced[s] /\ ~Overlap(s) /\ ~(Overlap(s)')
  BY RacedGrows
<1> USE DEF srvVars, sockVars
<1>2. f \in Fields /\ f \in Resettable
  BY DEF Fields, Resettable
<1>3. CASE AppThread \/ ClientStep
  <2>1. UNCHANGED srvVars
    BY <1>3
    DEF AppThread, NewReading, StoreCount, StoreRate, LoadSucc, StoreSucc, Iterate,
        ClientStep, Connect, Receive, Disconnect, Send
  <2>2. CASE srvPC \in {"summary", "reset"}
    <3>1. CASE AppThread
      <4>1. ~AppIn(s)
        BY <1>1, <2>1, <2>2 DEF Overlap, SrvIn
      <4>2. m_sensors_map'[s][f] = m_sensors_map[s][f]
        BY <1>2, <3>1, <4>1
        DEF AppThread, NewReading, StoreCount, StoreRate, LoadSucc, StoreSucc, Iterate, AppIn,
            TypeInv, TypeOK
      <4> QED BY <1>1, <2>1, <4>2 DEF Copied
    <3>2. CASE ClientStep
      <4>1. UNCHANGED m_sensors_map
        BY <3>2 DEF ClientStep, Connect, Receive, Disconnect, Send
      <4> QED BY <1>1, <2>1, <4>1 DEF Copied
    <3> QED BY <1>3, <3>1, <3>2
  <2>3. CASE srvPC \notin {"summary", "reset"}
    BY <2>1, <2>3
  <2> QED BY <2>2, <2>3
<1>4. CASE Read
  BY <1>2, <1>4 DEF Read
<1>5. ASSUME NEW g \in Fields, SummaryField(g)
      PROVE /\ srvPC' = "summary" => summary'[s][f] = m_sensors_map'[s][f]
            /\ srvPC' = "reset" => m_sensors_map'[s][f] = 0
  <2>1. CASE todo = {g}
    BY <1>2, <1>5, <2>1 DEF SummaryField
  <2>2. CASE todo # {g}
    <3>1. /\ srvPC' = "summary" /\ todo' = todo \ {g} /\ srvPC = "summary"
          /\ UNCHANGED <<cursor, m_sensors_map>>
          /\ summary' = [summary EXCEPT ![cursor][g] = m_sensors_map[cursor][g]]
      BY <1>5, <2>2 DEF SummaryField
    <3> QED BY <1>1, <1>2, <3>1 DEF Copied, TypeInv, TypeOK
  <2> QED BY <2>1, <2>2
<1>6. ASSUME NEW g \in Fields, ResetField(g)
      PROVE /\ srvPC' = "summary" => summary'[s][f] = m_sensors_map'[s][f]
            /\ srvPC' = "reset" => m_sensors_map'[s][f] = 0
  <2>1. CASE todo = {g}
    BY <1>2, <1>6, <2>1 DEF ResetField
  <2>2. CASE todo # {g}
    <3>1. /\ srvPC' = "reset" /\ todo' = todo \ {g} /\ srvPC = "reset" /\ UNCHANGED cursor
          /\ m_sensors_map' = [m_sensors_map EXCEPT ![cursor][g] = 0]
      BY <1>6, <2>2 DEF ResetField
    <3> QED BY <1>1, <1>2, <3>1 DEF Copied, TypeInv, TypeOK
  <2> QED BY <2>1, <2>2
<1>7. CASE Accept \/ ReadClosed \/ ApplySpeed \/ ApplyState \/ TokensDone \/ Write
  BY <1>7
  DEF Accept, ReadClosed, ApplySpeed, ApplyState, TokensDone, Write, TypeInv, Protocol
<1> QED BY <1>3, <1>4, <1>5, <1>6, <1>7 DEF Next, ServerThread

(* What the application thread is about to store has been delivered.       *)
Arrived ==
  \A s \in Sensors :
    /\ \A f \in Counts : /\ InFlight(s, f) <= delivered[s][f]
                         /\ m_sensors_map[s][f] + InFlight(s, f) <= delivered[s][f]
    /\ appSensor = s =>
         /\ appPC = "count" => appReg + 1 <= delivered[s]["numOfReadings"]
         /\ appPC = "storeSucc" => appReg + 1 <= delivered[s]["numOfSuccReadings"]

(* What is in newReading is none or one, and the counters are integers.    *)
LEMMA Numbers ==
  ASSUME TypeInv, NEW s \in Sensors
  PROVE  /\ \A f \in Counts : /\ InFlight(s, f) \in {0, 1}
                              /\ m_sensors_map[s][f] \in Int /\ delivered[s][f] \in Int
         /\ m_sensors_map[s]["averageRate"] \in Int /\ appReg \in Int /\ appValue \in {0, 1}
BY DEF InFlight, TypeInv, TypeOK, Fields, Resettable, Counts

(* No counter is ahead of what has arrived, whoever overlaps with whom.    *)
LEMMA ArrivedStep == TypeInv /\ SuccessOnly /\ Arrived /\ Next => Arrived'
<1> SUFFICES ASSUME TypeInv, SuccessOnly, Arrived, Next, NEW s \in Sensors
             PROVE  /\ \A f \in Counts :
                         /\ InFlight(s, f)' <= delivered'[s][f]
                         /\ m_sensors_map'[s][f] + InFlight(s, f)' <= delivered'[s][f]
                    /\ appSensor' = s =>
                         /\ appPC' = "count" => appReg' + 1 <= delivered'[s]["numOfReadings"]
                         /\ appPC' = "storeSucc" =>
                              appReg' + 1 <= delivered'[s]["numOfSuccReadings"]
  BY DEF Arrived
<1> DEFINE Goal == /\ \A f \in Counts :
                         /\ InFlight(s, f)' <= delivered'[s][f]
                         /\ m_sensors_map'[s][f] + InFlight(s, f)' <= delivered'[s][f]
                   /\ appSensor' = s =>
                         /\ appPC' = "count" => appReg' + 1 <= delivered'[s]["numOfReadings"]
                         /\ appPC' = "storeSucc" =>
                              appReg' + 1 <= delivered'[s]["numOfSuccReadings"]
<1> USE DEF appVars, srvVars, sockVars, histVars
<1>1. /\ \A f \in Counts : /\ InFlight(s, f) <= delivered[s][f]
                           /\ m_sensors_map[s][f] + InFlight(s, f) <= delivered[s][f]
                           /\ InFlight(s, f) \in {0, 1} /\ m_sensors_map[s][f] \in Int
                           /\ delivered[s][f] \in Int /\ f \in Fields
      /\ appReg \in Int /\ appValue \in {0, 1}
      /\ appSensor = s =>
           /\ appPC = "count" => appReg + 1 <= delivered[s]["numOfReadings"]
           /\ appPC = "storeSucc" => appReg + 1 <= delivered[s]["numOfSuccReadings"]
  BY Numbers DEF Arrived, Fields, Resettable
<1>2. ASSUME NEW z \in Sensors, NEW value \in {0, 1}, NewReading(z, value)
      PROVE  Goal
  <2>1. \A f \in Counts : delivered'[s][f] = IF z # s THEN delivered[s][f]
                           ELSE delivered[s][f] + IF f = "numOfReadings" THEN 1 ELSE value
    BY <1>2 DEF NewReading, TypeInv, TypeOK
  <2>2. \A f \in Counts : InFlight(s, f) = 0
    BY <1>2 DEF NewReading, InFlight
  <2>3. \A f \in Counts :
          InFlight(s, f)' = IF z # s THEN 0 ELSE IF f = "numOfReadings" THEN 1 ELSE value
    BY <1>2 DEF NewReading, InFlight
  <2>4. /\ UNCHANGED m_sensors_map /\ appSensor' = z /\ appPC' = "count"
        /\ appReg' = m_sensors_map[z]["numOfReadings"]
    BY <1>2 DEF NewReading
  <2> QED BY <1>1, <2>1, <2>2, <2>3, <2>4 DEF Counts
<1>3. CASE StoreCount
  <2>1. \A f \in Counts : m_sensors_map'[s][f] =
          IF appSensor = s /\ f = "numOfReadings" THEN appReg + 1 ELSE m_sensors_map[s][f]
    BY <1>3 DEF StoreCount, TypeInv, TypeOK, Fields, Resettable
  <2>2. \A f \in Counts : InFlight(s, f)' =
          IF appSensor = s /\ f = "numOfReadings" THEN 0 ELSE InFlight(s, f)
    BY <1>3 DEF StoreCount, InFlight
  <2>3. UNCHANGED <<delivered, appSensor, appReg>> /\ appPC = "count" /\ appPC' = "rate"
    BY <1>3 DEF StoreCount
  <2>4. \A f \in Counts : InFlight(s, f)' <= delivered'[s][f]
    BY <1>1, <2>2, <2>3
  <2> QED BY <1>1, <2>1, <2>2, <2>3, <2>4 DEF Counts
<1>4. CASE StoreRate
  <2>1. \A f \in Counts : m_sensors_map'[s][f] = m_sensors_map[s][f]
    BY <1>4 DEF StoreRate, TypeInv, TypeOK, Counts
  <2>2. \A f \in Counts : InFlight(s, f)' = InFlight(s, f)
    BY <1>4 DEF StoreRate, InFlight, TypeInv, TypeOK
  <2>3. UNCHANGED delivered /\ appPC' \in {"succ", "idle"}
    BY <1>4 DEF StoreRate
  <2> QED BY <1>1, <2>1, <2>2, <2>3
<1>5. CASE LoadSucc
  <2>1. \A f \in Counts : InFlight(s, f)' = InFlight(s, f)
    BY <1>5 DEF LoadSucc, InFlight
  <2>2. /\ UNCHANGED <<delivered, m_sensors_map, appSensor>> /\ appPC' = "storeSucc"
        /\ appReg' = m_sensors_map[appSensor]["numOfSuccReadings"]
    BY <1>5 DEF LoadSucc
  <2>3. appSensor = s => InFlight(s, "numOfSuccReadings") = 1
    BY <1>5 DEF LoadSucc, InFlight, SuccessOnly
  <2> QED BY <1>1, <2>1, <2>2, <2>3 DEF Counts
<1>6. CASE StoreSucc
  <2>1. \A f \in Counts : m_sensors_map'[s][f] =
          IF appSensor = s /\ f = "numOfSuccReadings" THEN appReg + 1 ELSE m_sensors_map[s][f]
    BY <1>6 DEF StoreSucc, TypeInv, TypeOK, Fields, Resettable
  <2>2. \A f \in Counts : InFlight(s, f)' = 0
    BY <1>6 DEF StoreSucc, InFlight
  <2>3. UNCHANGED <<delivered, appSensor>> /\ appPC = "storeSucc" /\ appPC' = "idle"
    BY <1>6 DEF StoreSucc
  <2>4. \A f \in Counts : 0 <= delivered[s][f] /\ m_sensors_map[s][f] <= delivered[s][f]
    BY <1>1
  <2> QED BY <1>1, <2>1, <2>2, <2>3, <2>4 DEF Counts
<1>7. ASSUME NEW g \in Fields, ResetField(g) PROVE Goal
  <2>1. \A f \in Counts : m_sensors_map'[s][f] \in {0, m_sensors_map[s][f]}
    BY <1>1, <1>7 DEF ResetField, TypeInv, TypeOK
  <2>2. UNCHANGED <<delivered, appVars>>
    BY <1>7 DEF ResetField
  <2>3. \A f \in Counts : InFlight(s, f)' = InFlight(s, f)
    BY <2>2 DEF InFlight
  <2> QED BY <1>1, <2>1, <2>2, <2>3
<1>8. CASE ApplyState
  <2>1. \A f \in Counts : m_sensors_map'[s][f] = m_sensors_map[s][f]
    BY <1>8 DEF ApplyState, TypeInv, TypeOK, Counts
  <2>2. UNCHANGED <<delivered, appVars>>
    BY <1>8 DEF ApplyState
  <2> QED BY <1>1, <2>1, <2>2 DEF InFlight
<1>9. ASSUME Iterate \/ Accept \/ Read \/ ReadClosed \/ ApplySpeed \/ TokensDone \/ Write
              \/ Connect \/ Receive \/ Disconnect \/ (\E r \in Requests : Send(r))
              \/ (\E g \in Fields : SummaryField(g))
      PROVE  Goal
  <2>1. UNCHANGED <<delivered, m_sensors_map, appVars>>
    BY <1>9
    DEF Iterate, Accept, Read, ReadClosed, ApplySpeed, TokensDone, Write, Connect, Receive,
        Disconnect, Send, SummaryField
  <2> QED BY <1>1, <2>1 DEF InFlight
<1> QED
  BY <1>2, <1>3, <1>4, <1>5, <1>6, <1>7, <1>8, <1>9
  DEF Next, AppThread, ServerThread, ClientStep

(* The map agrees with itself except while reset is at the sensor ...      *)
MapAgrees(s) ==
  ~(srvPC = "reset" /\ cursor = s) =>
    /\ m_sensors_map[s]["numOfSuccReadings"] + InFlight(s, "numOfSuccReadings")
         <= m_sensors_map[s]["numOfReadings"] + InFlight(s, "numOfReadings")
    /\ ~(appSensor = s /\ appPC = "rate") =>
         m_sensors_map[s]["averageRate"] = m_sensors_map[s]["numOfReadings"]

(* ... and so does what a report has taken from it.                        *)
SummaryAgrees(s) ==
  Covered(s) => /\ summary[s]["numOfSuccReadings"] <= summary[s]["numOfReadings"]
                /\ summary[s]["averageRate"] = summary[s]["numOfReadings"]

(* A step that keeps what the map and newReading hold of a sensor.         *)
LEMMA QuietMap ==
  ASSUME NEW s \in Sensors, MapAgrees(s), UNCHANGED appVars,
         \A f \in Resettable : m_sensors_map'[s][f] = m_sensors_map[s][f],
         (srvPC' = "reset" /\ cursor' = s) \/ ~(srvPC = "reset" /\ cursor = s)
  PROVE  MapAgrees(s)'
<1>1. \A f \in Counts : InFlight(s, f)' = InFlight(s, f)
  BY DEF InFlight, appVars
<1> QED BY <1>1 DEF MapAgrees, appVars, Resettable, Counts

(* A step that keeps what the report holds of a sensor.                    *)
LEMMA QuietSummary ==
  ASSUME NEW s \in Sensors, SummaryAgrees(s), Covered(s)' => Covered(s),
         Covered(s) => summary'[s] = summary[s]
  PROVE  SummaryAgrees(s)'
BY DEF SummaryAgrees

(* newReading keeps the map in agreement with itself if it is alone.       *)
LEMMA AppAgrees ==
  ASSUME TypeInv, Registers, SuccessOnly, Next, AppThread, NEW s \in Sensors, ~raced'[s],
         MapAgrees(s)
  PROVE  MapAgrees(s)'
<1> USE DEF srvVars, sockVars, histVars
<1>1. ~raced[s] /\ ~Overlap(s) /\ ~(Overlap(s)')
  BY RacedGrows
<1>2. UNCHANGED srvVars
  BY DEF AppThread, NewReading, StoreCount, StoreRate, LoadSucc, StoreSucc, Iterate
<1>3. /\ \A f \in Counts : /\ InFlight(s, f) \in {0, 1} /\ m_sensors_map[s][f] \in Int
      /\ m_sensors_map[s]["averageRate"] \in Int /\ appReg \in Int /\ appValue \in {0, 1}
      /\ "numOfReadings" \in Counts /\ "numOfSuccReadings" \in Counts
  BY Numbers DEF Counts
<1>4. CASE srvPC = "reset" /\ cursor = s
  BY <1>2, <1>4 DEF MapAgrees
<1> SUFFICES ASSUME ~(srvPC = "reset" /\ cursor = s) PROVE MapAgrees(s)'
  BY <1>4
<1>5. /\ m_sensors_map[s]["numOfSuccReadings"] + InFlight(s, "numOfSuccReadings")
           <= m_sensors_map[s]["numOfReadings"] + InFlight(s, "numOfReadings")
      /\ ~(appSensor = s /\ appPC = "rate") =>
           m_sensors_map[s]["averageRate"] = m_sensors_map[s]["numOfReadings"]
  BY DEF MapAgrees
<1>6. ASSUME NEW z \in Sensors, NEW value \in {0, 1}, NewReading(z, value)
      PROVE  MapAgrees(s)'
  <2>1. InFlight(s, "numOfSuccReadings") = 0 /\ InFlight(s, "numOfReadings") = 0
    BY <1>6 DEF NewReading, InFlight
  <2>2. /\ InFlight(s, "numOfReadings")' = IF z = s THEN 1 ELSE 0
        /\ InFlight(s, "numOfSuccReadings")' = IF z = s THEN value ELSE 0
    BY <1>6 DEF NewReading, InFlight
  <2>3. UNCHANGED m_sensors_map /\ appPC' = "count" /\ appPC = "idle"
    BY <1>6 DEF NewReading
  <2> QED BY <1>3, <1>5, <2>1, <2>2, <2>3 DEF MapAgrees
<1>7. CASE StoreCount
  <2>1. appSensor = s => appReg = m_sensors_map[s]["numOfReadings"]
    BY <1>1, <1>7 DEF StoreCount, Registers
  <2>2. /\ m_sensors_map'[s]["numOfReadings"] =
             IF appSensor = s THEN appReg + 1 ELSE m_sensors_map[s]["numOfReadings"]
        /\ m_sensors_map'[s]["numOfSuccReadings"] = m_sensors_map[s]["numOfSuccReadings"]
        /\ m_sensors_map'[s]["averageRate"] = m_sensors_map[s]["averageRate"]
    BY <1>7 DEF StoreCount, TypeInv, TypeOK, Fields, Resettable, Counts
  <2>3. /\ InFlight(s, "numOfReadings") = IF appSensor = s THEN 1 ELSE 0
        /\ InFlight(s, "numOfReadings")' = 0
        /\ InFlight(s, "numOfSuccReadings")' = InFlight(s, "numOfSuccReadings")
        /\ appSensor' = appSensor /\ appPC' = "rate" /\ appPC = "count"
    BY <1>7 DEF StoreCount, InFlight
  <2> QED BY <1>3, <1>5, <2>1, <2>2, <2>3 DEF MapAgrees
<1>8. CASE StoreRate
  <2>1. appSensor = s => appReg + 1 = m_sensors_map[s]["numOfReadings"]
    BY <1>1, <1>8 DEF StoreRate, Registers
  <2>2. PICK n \in {appReg + 1, m_sensors_map[appSensor]["numOfReadings"]} :
          m_sensors_map' = [m_sensors_map EXCEPT ![appSensor]["averageRate"] = n]
    BY <1>8 DEF StoreRate
  <2>3. /\ m_sensors_map'[s]["numOfReadings"] = m_sensors_map[s]["numOfReadings"]
        /\ m_sensors_map'[s]["numOfSuccReadings"] = m_sensors_map[s]["numOfSuccReadings"]
        /\ m_sensors_map'[s]["averageRate"] =
             IF appSensor = s THEN n ELSE m_sensors_map[s]["averageRate"]
    BY <2>2 DEF TypeInv, TypeOK, Fields, Resettable, Counts
  <2>4. /\ \A f \in Counts : InFlight(s, f)' = InFlight(s, f)
        /\ appSensor' = appSensor
    BY <1>8 DEF StoreRate, InFlight, TypeInv, TypeOK
  <2> QED BY <1>3, <1>5, <2>1, <2>2, <2>3, <2>4 DEF MapAgrees
<1>9. CASE LoadSucc
  <2>1. \A f \in Counts : InFlight(s, f)' = InFlight(s, f)
    BY <1>9 DEF LoadSucc, InFlight
  <2>2. UNCHANGED <<m_sensors_map, appSensor>> /\ appPC = "succ"
    BY <1>9 DEF LoadSucc
  <2> QED BY <1>3, <1>5, <2>1, <2>2 DEF MapAgrees
<1>10. CASE StoreSucc
  <2>1. appSensor = s => appReg = m_sensors_map[s]["numOfSuccReadings"]
    BY <1>1, <1>10 DEF StoreSucc, Registers
  <2>2. /\ m_sensors_map'[s]["numOfSuccReadings"] =
             IF appSensor = s THEN appReg + 1 ELSE m_sensors_map[s]["numOfSuccReadings"]
        /\ m_sensors_map'[s]["numOfReadings"] = m_sensors_map[s]["numOfReadings"]
        /\ m_sensors_map'[s]["averageRate"] = m_sensors_map[s]["averageRate"]
    BY <1>10 DEF StoreSucc, TypeInv, TypeOK, Fields, Resettable, Counts
  <2>3. /\ InFlight(s, "numOfSuccReadings") = IF appSensor = s THEN 1 ELSE 0
        /\ InFlight(s, "numOfSuccReadings")' = 0
        /\ InFlight(s, "numOfReadings")' = 0 /\ InFlight(s, "numOfReadings") = 0
        /\ appPC = "storeSucc"
    BY <1>10 DEF StoreSucc, InFlight, SuccessOnly
  <2> QED BY <1>3, <1>5, <2>1, <2>2, <2>3 DEF MapAgrees
<1>11. CASE Iterate
  BY <1>11, QuietMap DEF Iterate
<1> QED BY <1>6, <1>7, <1>8, <1>9, <1>10, <1>11 DEF AppThread

Agrees == \A s \in Sensors : ~raced[s] => MapAgrees(s) /\ SummaryAgrees(s)

(* getSummary copies a sensor nobody else is at, so the copy agrees.       *)
LEMMA SummaryFieldAgrees ==
  ASSUME TypeInv, Copied, Next, NEW g \in Fields, SummaryField(g), NEW s \in Sensors,
         ~raced'[s], MapAgrees(s), SummaryAgrees(s)
  PROVE  MapAgrees(s)' /\ SummaryAgrees(s)'
<1> USE DEF appVars, sockVars, histVars
<1>1. /\ srvPC = "summary" /\ reply = "none" /\ reply' = "none" /\ g \in todo
      /\ UNCHANGED <<m_sensors_map, cursor, appVars, line>>
      /\ summary' = [summary EXCEPT ![cursor][g] = m_sensors_map[cursor][g]]
      /\ cursor \in Int /\ cursor \in Sensors
  BY DEF SummaryField, TypeInv, TypeOK, Protocol
<1>2. CASE todo # {g}
  <2>1. srvPC' = "summary"
    BY <1>1, <1>2 DEF SummaryField
  <2>2. MapAgrees(s)'
    BY <1>1, <2>1, QuietMap
  <2>3. Covered(s) => s # cursor
    BY <1>1 DEF Covered, Sensors
  <2>4. Covered(s)' => Covered(s)
    BY <1>1, <2>1 DEF Covered
  <2>5. Covered(s) => summary'[s] = summary[s]
    BY <1>1, <2>3 DEF TypeInv, TypeOK
  <2> QED BY <2>2, <2>4, <2>5, QuietSummary
<1>3. CASE todo = {g}
  <2>1. srvPC' = "reset"
    BY <1>1, <1>3 DEF SummaryField
  <2>2. MapAgrees(s)'
    BY <1>1, <2>1, QuietMap
  <2>3. CASE s # cursor
    <3>1. summary'[s] = summary[s]
      BY <1>1, <2>3 DEF TypeInv, TypeOK
    <3>2. Covered(s)' => Covered(s)
      BY <1>1, <2>1, <2>3 DEF Covered, Sensors
    <3> QED BY <2>2, <3>1, <3>2, QuietSummary
  <2>4. CASE s = cursor
    <3>1. ~raced[s] /\ ~AppIn(s)
      BY <1>1, <2>4, RacedGrows DEF Overlap, SrvIn
    <3>2. \A f \in Resettable : summary'[s][f] = m_sensors_map[s][f]
      BY <1>1, <1>3, <2>4, <3>1 DEF Copied, TypeInv, TypeOK, Fields
    <3>3. \A f \in Counts : InFlight(s, f) = 0 /\ m_sensors_map[s][f] \in Int
      BY <3>1, Numbers DEF AppIn, InFlight
    <3>4. /\ m_sensors_map[s]["numOfSuccReadings"] <= m_sensors_map[s]["numOfReadings"]
          /\ m_sensors_map[s]["averageRate"] = m_sensors_map[s]["numOfReadings"]
      BY <1>1, <3>1, <3>3 DEF MapAgrees, AppIn, Counts
    <3> QED BY <2>2, <3>2, <3>4 DEF SummaryAgrees, Resettable, Counts
  <2> QED BY <2>3, <2>4
<1> QED BY <1>2, <1>3

(* reset leaves the sensor with every counter at zero.                     *)
LEMMA ResetFieldAgrees ==
  ASSUME TypeInv, Copied, Next, NEW g \in Fields, ResetField(g), NEW s \in Sensors,
         ~raced'[s], MapAgrees(s), SummaryAgrees(s)
  PROVE  MapAgrees(s)' /\ SummaryAgrees(s)'
<1> USE DEF appVars, sockVars, histVars
<1>1. /\ srvPC = "reset" /\ reply = "none" /\ reply' = "none" /\ g \in todo
      /\ UNCHANGED <<summary, appVars, line>> /\ todo \subseteq Resettable
      /\ m_sensors_map' = [m_sensors_map EXCEPT ![cursor][g] = 0]
      /\ cursor \in Int /\ cursor \in Sensors /\ cursor <= NumSensors
      /\ s \in Int /\ s <= NumSensors
  BY DEF ResetField, TypeInv, TypeOK, Protocol, Sensors
<1>2. CASE todo # {g}
  <2>1. srvPC' = "reset" /\ cursor' = cursor
    BY <1>1, <1>2 DEF ResetField
  <2>2. s # cursor => m_sensors_map'[s] = m_sensors_map[s]
    BY <1>1 DEF TypeInv, TypeOK
  <2>3. MapAgrees(s)'
    <3>1. CASE s = cursor
      BY <2>1, <3>1 DEF MapAgrees
    <3>2. CASE s # cursor
      BY <1>1, <2>1, <2>2, <3>2, QuietMap
    <3> QED BY <3>1, <3>2
  <2>4. Covered(s)' => Covered(s)
    BY <1>1, <2>1 DEF Covered
  <2> QED BY <1>1, <2>3, <2>4, QuietSummary
<1>3. CASE todo = {g}
  <2>1. cursor' = cursor + 1 /\ srvPC' = IF cursor < NumSensors THEN "summary" ELSE "write"
    BY <1>1, <1>3 DEF ResetField
  <2>2. Covered(s)' => Covered(s)
    BY <1>1, <2>1 DEF Covered
  <2>3. SummaryAgrees(s)'
    BY <1>1, <2>2, QuietSummary
  <2>4. CASE s # cursor
    <3>1. m_sensors_map'[s] = m_sensors_map[s]
      BY <1>1, <2>4 DEF TypeInv, TypeOK
    <3>2. MapAgrees(s)'
      BY <1>1, <2>1, <2>4, <3>1, QuietMap
    <3> QED BY <2>3, <3>2
  <2>5. CASE s = cursor
    <3>1. ~raced[s] /\ ~AppIn(s)
      BY <1>1, <2>5, RacedGrows DEF Overlap, SrvIn
    <3>2. \A f \in Resettable : m_sensors_map'[s][f] = 0
      BY <1>1, <1>3, <2>5, <3>1 DEF Copied, TypeInv, TypeOK, Fields
    <3>3. \A f \in Counts : InFlight(s, f)' = 0
      BY <1>1, <3>1 DEF AppIn, InFlight
    <3>4. MapAgrees(s)'
      BY <3>2, <3>3 DEF MapAgrees, Resettable, Counts
    <3> QED BY <2>3, <3>4
  <2> QED BY <2>4, <2>5
<1> QED BY <1>2, <1>3

(* The map and the report agree with themselves; one step per action.      *)
LEMMA AgreesStep ==
  TypeInv /\ Registers /\ SuccessOnly /\ Copied /\ Agrees /\ Next => Agrees'
<1> SUFFICES ASSUME TypeInv, Registers, SuccessOnly, Copied, Agrees, Next,
                    NEW s \in Sensors, ~raced'[s]
             PROVE  MapAgrees(s)' /\ SummaryAgrees(s)'
  BY DEF Agrees
<1>1. MapAgrees(s) /\ SummaryAgrees(s)
  BY RacedGrows DEF Agrees
<1> USE DEF appVars, srvVars, sockVars, histVars
<1>2. CASE AppThread
  <2>1. UNCHANGED <<srvVars, sockVars>>
    BY <1>2 DEF AppThread, NewReading, StoreCount, StoreRate, LoadSucc, StoreSucc, Iterate
  <2>2. Covered(s)' => Covered(s)
    BY <2>1 DEF Covered
  <2> QED BY <1>1, <1>2, <2>1, <2>2, AppAgrees, QuietSummary
<1>3. ASSUME NEW g \in Fields, SummaryField(g) PROVE MapAgrees(s)' /\ SummaryAgrees(s)'
  BY <1>1, <1>3, SummaryFieldAgrees
<1>4. ASSUME NEW g \in Fields, ResetField(g) PROVE MapAgrees(s)' /\ SummaryAgrees(s)'
  BY <1>1, <1>4, ResetFieldAgrees
<1>5. ASSUME Accept \/ Read \/ ReadClosed \/ ApplySpeed \/ ApplyState \/ TokensDone \/ Write
               \/ ClientStep
      PROVE  MapAgrees(s)' /\ SummaryAgrees(s)'
  <2>1. /\ UNCHANGED appVars /\ UNCHANGED summary
        /\ srvPC' = "reset" => srvPC = "reset" /\ cursor' = cursor
        /\ srvPC = "reset" => srvPC' = "reset" /\ cursor' = cursor
    BY <1>5
    DEF Accept, Read, Dispatch, ReadClosed, ApplySpeed, ApplyState, TokensDone, Write,
        ClientStep, Connect, Receive, Disconnect, Send
  <2>2. \A f \in Resettable : m_sensors_map'[s][f] = m_sensors_map[s][f]
    <3>1. CASE ApplyState
      BY <3>1 DEF ApplyState, TypeInv, TypeOK, Resettable, Counts
    <3>2. CASE ~ApplyState
      BY <1>5, <3>2
      DEF Accept, Read, ReadClosed, ApplySpeed, TokensDone, Write, ClientStep, Connect,
          Receive, Disconnect, Send
    <3> QED BY <3>1, <3>2
  <2>3. Covered(s)' => Covered(s)
    <3>1. CASE Read
      <4>1. reply' = "none" /\ line' = request
        BY <3>1 DEF Read, TypeInv, Protocol
      <4>2. srvPC' = Dispatch(line'.cmd) /\ (srvPC' = "summary" => cursor' = 1)
        BY <3>1 DEF Read, Dispatch
      <4> QED BY <4>1, <4>2 DEF Dispatch, Covered, Sensors
    <3>2. CASE Write
      BY <3>2 DEF Write, ReplyTo, Covered, TypeInv, Protocol
    <3>3. CASE TokensDone
      BY <3>3 DEF TokensDone, Covered, TypeInv, Protocol, SpeedCommand
    <3>4. CASE Accept \/ ReadClosed \/ ApplySpeed \/ ApplyState
      BY <3>4 DEF Accept, ReadClosed, ApplySpeed, ApplyState, Covered
    <3>5. CASE ClientStep
      BY <3>5 DEF ClientStep, Connect, Receive, Disconnect, Send, Covered
    <3> QED BY <1>5, <3>1, <3>2, <3>3, <3>4, <3>5
  <2>4. MapAgrees(s)'
    BY <1>1, <2>1, <2>2, QuietMap
  <2> QED BY <1>1, <2>1, <2>3, <2>4, QuietSummary
<1> QED BY <1>2, <1>3, <1>4, <1>5 DEF Next, ServerThread

(* No count exceeds what arrived, and the report the client is sent agrees *)
(* with itself for every sensor the threads never overlapped on.           *)
THEOREM ReportsAgree == FairSpec => []ReportConsistent
<1> DEFINE IInv == TypeInv /\ Registers /\ SuccessOnly /\ Copied /\ Arrived /\ Agrees
<1>1. Init => IInv
  <2> SUFFICES ASSUME Init PROVE IInv
    OBVIOUS
  <2>1. \A s \in Sensors, f \in Counts : InFlight(s, f) = 0 /\ f \in Fields
    BY DEF Init, InFlight, Fields, Resettable
  <2>2. Registers /\ SuccessOnly /\ Copied
    BY DEF Init, Registers, SuccessOnly, Copied
  <2>3. Arrived
    BY <2>1 DEF Init, Arrived, Zero
  <2>4. Agrees
    BY <2>1 DEF Init, Agrees, MapAgrees, SummaryAgrees, Covered, Counts, Fields, Resettable
  <2> QED BY <2>2, <2>3, <2>4, TypeInvInit
<1>2. IInv /\ [Next]_vars => IInv'
  <2>1. IInv /\ Next => IInv'
    BY TypeStep, ProtocolStep, RegistersStep, CopiedStep, ArrivedStep, AgreesStep DEF TypeInv
  <2>2. IInv /\ UNCHANGED vars => IInv'
    <3> SUFFICES ASSUME IInv, UNCHANGED vars PROVE IInv'
      OBVIOUS
    <3> USE DEF vars, appVars, srvVars, sockVars, histVars
    <3>1. Registers' /\ SuccessOnly' /\ Copied'
      BY DEF Registers, SuccessOnly, Copied
    <3>2. Arrived'
      BY DEF Arrived, InFlight
    <3>3. Agrees'
      BY DEF Agrees, MapAgrees, SummaryAgrees, Covered, InFlight
    <3> QED BY Stutter, <3>1, <3>2, <3>3
  <2> QED BY <2>1, <2>2
<1>3. ASSUME IInv PROVE ReportConsistent
  <2>1. NothingInvented
    <3> SUFFICES ASSUME NEW s \in Sensors, NEW f \in Counts
                 PROVE  m_sensors_map[s][f] <= delivered[s][f]
      BY DEF NothingInvented
    <3>1. m_sensors_map[s][f] + InFlight(s, f) <= delivered[s][f]
      BY <1>3 DEF Arrived
    <3> QED BY <1>3, <3>1, Numbers
  <2>2. reply = "report" => \A s \in Sensors : Covered(s)
    BY DEF Covered
  <2> QED BY <1>3, <2>1, <2>2 DEF ReportConsistent, Agrees, SummaryAgrees
<1> QED BY <1>1, <1>2, <1>3, PTL DEF FairSpec, Spec

------------------------------------------------------------------------------
(***************************************************************************)
(* UUVServer implements Readings, for any number of sensors and any bounds *)
(* (ImplementsReadings, which the run UUVServer checks on two sensors).    *)
(*                                                                         *)
(* A step of UUVServer maps to Deliver, Take or Report; or it leaves the   *)
(* mapped state of every sensor on which the threads have not overlapped   *)
(* alone, and then it is a Spoil or a stutter (QuietStep).                 *)
(***************************************************************************)

USE UUVServerAssumption

RInv == TypeInv /\ Registers /\ SuccessOnly /\ Copied

------------------------------------------------------------------------------
(* A sensor's mapped counters, for one of them, are left as they are.      *)
Kept(s, f) ==
  /\ Pending(s, f)' = Pending(s, f)
  /\ Batch(s, f)' = Batch(s, f)
  /\ Told(s, f)' = Told(s, f)

(* Overlapping is with one sensor at a time.                               *)
LEMMA OneOverlap ==
  ASSUME TypeInv, Next, NEW s \in Sensors, NEW z \in Sensors,
         ~raced[s], raced'[s], ~raced[z], raced'[z]
  PROVE s = z
BY DEF TypeInv, TypeOK, Next, Observed, Overlap, AppIn

(* A step that keeps the counters of every sensor not overlapped with, and *)
(* what the report covers, is a stutter or spoils one sensor.              *)
LEMMA QuietStep ==
  ASSUME TypeInv, Next,
         \A s \in Sensors : (Covered(s)' <=> Covered(s)),
         \A s \in Sensors, f \in Counts : ~raced'[s] => Kept(s, f)
  PROVE [Abstract!Next]_(Abstract!vars)
<1>1. \A s \in Sensors : raced[s] => raced'[s]
  BY DEF TypeInv, TypeOK, Next, Observed, Overlap, AppIn, SrvIn
<1>2. AbsTaken' = AbsTaken
  BY DEF AbsTaken
<1>3. \A s \in Sensors, f \in Counts : raced'[s] =>
        Pending(s, f)' = 0 /\ Batch(s, f)' = 0 /\ Told(s, f)' = 0
  BY DEF Pending, Batch, Told
<1>4. \A s \in Sensors, f \in Counts : raced[s] =>
        Pending(s, f) = 0 /\ Batch(s, f) = 0 /\ Told(s, f) = 0
  BY DEF Pending, Batch, Told
<1>5. CASE \A s \in Sensors : raced'[s] => raced[s]
  <2>1. \A s \in Sensors, f \in Counts : Kept(s, f)
    BY <1>3, <1>4, <1>5 DEF Kept
  <2>2. UNCHANGED <<AbsPending, AbsBatch, AbsTold, AbsSpoiled>>
    BY <1>1, <1>5, <2>1 DEF Kept, AbsPending, AbsBatch, AbsTold, AbsSpoiled
  <2> QED BY <1>2, <2>2 DEF Abstract!vars
<1>6. ASSUME NEW z \in Sensors, ~raced[z], raced'[z]
      PROVE Abstract!Spoil(z)
  <2>1. \A s \in Sensors \ {z} : raced'[s] => raced[s]
    BY <1>6, OneOverlap
  <2>2. \A s \in Sensors \ {z}, f \in Counts : Kept(s, f)
    BY <1>3, <1>4, <2>1 DEF Kept
  <2>3. AbsSpoiled' = AbsSpoiled \cup {z}
    BY <1>1, <1>6, <2>1 DEF AbsSpoiled
  <2>4. AbsPending' = [AbsPending EXCEPT ![z] = Abstract!Nothing]
    <3>1. \A s \in Sensors \ {z} :
            [f \in Counts |-> Pending(s, f)]' = [f \in Counts |-> Pending(s, f)]
      BY <2>2 DEF Kept
    <3>2. [f \in Counts |-> Pending(z, f)]' = Abstract!Nothing
      BY <1>3, <1>6 DEF Abstract!Nothing
    <3> QED BY <3>1, <3>2 DEF AbsPending
  <2>5. AbsBatch' = [AbsBatch EXCEPT ![z] = Abstract!Nothing]
    <3>1. \A s \in Sensors \ {z} :
            [f \in Counts |-> Batch(s, f)]' = [f \in Counts |-> Batch(s, f)]
      BY <2>2 DEF Kept
    <3>2. [f \in Counts |-> Batch(z, f)]' = Abstract!Nothing
      BY <1>3, <1>6 DEF Abstract!Nothing
    <3> QED BY <3>1, <3>2 DEF AbsBatch
  <2>6. AbsTold' = [AbsTold EXCEPT ![z] = Abstract!Nothing]
    <3>1. \A s \in Sensors \ {z} :
            [f \in Counts |-> Told(s, f)]' = [f \in Counts |-> Told(s, f)]
      BY <2>2 DEF Kept
    <3>2. [f \in Counts |-> Told(z, f)]' = Abstract!Nothing
      BY <1>3, <1>6 DEF Abstract!Nothing
    <3> QED BY <3>1, <3>2 DEF AbsTold
  <2> QED BY <1>2, <2>3, <2>4, <2>5, <2>6 DEF Abstract!Spoil
<1> QED BY <1>5, <1>6 DEF Abstract!Next

(* newReading takes several steps; its reading is pending from the first.  *)
LEMMA AppQuiet ==
  ASSUME RInv, Next, StoreCount \/ StoreRate \/ LoadSucc \/ StoreSucc \/ Iterate
  PROVE /\ \A s \in Sensors : (Covered(s)' <=> Covered(s))
        /\ \A s \in Sensors, f \in Counts : ~raced'[s] => Kept(s, f)
<1> USE DEF RInv
<1>1. UNCHANGED <<srvVars, sockVars, received, delivered>>
  BY DEF StoreCount, StoreRate, LoadSucc, StoreSucc, Iterate, histVars
<1>2. \A s \in Sensors : (Covered(s)' <=> Covered(s))
  BY <1>1 DEF Covered, srvVars, sockVars
<1>3. ASSUME NEW s \in Sensors, NEW f \in Counts, ~raced'[s] PROVE Kept(s, f)
  <2>1. ~raced[s] /\ ~Overlap(s) /\ ~(Overlap(s)')
    BY <1>3, RacedGrows
  <2>2. Batch(s, f)' = Batch(s, f) /\ Told(s, f)' = Told(s, f)
    BY <1>1, <1>2, <1>3, <2>1 DEF Batch, Told, srvVars
  <2>3. /\ m_sensors_map[s][f] \in Int /\ f \in Fields
        /\ appReg \in Int /\ appValue \in {0, 1}
    BY DEF TypeInv, TypeOK, Fields, Resettable, Counts
  <2>4. m_sensors_map'[s][f] + InFlight(s, f)' = m_sensors_map[s][f] + InFlight(s, f)
    <3>1. CASE StoreCount
      <4>1. CASE appSensor = s
        <5>1. m_sensors_map'[s][f] = IF f = "numOfReadings" THEN m_sensors_map[s][f] + 1
                                     ELSE m_sensors_map[s][f]
          BY <2>1, <3>1, <4>1
          DEF StoreCount, Registers, TypeInv, TypeOK, Fields, Resettable, Counts
        <5>2. InFlight(s, f)' = IF f = "numOfReadings" THEN 0 ELSE InFlight(s, f)
          BY <3>1, <4>1 DEF StoreCount, InFlight
        <5>3. (f = "numOfReadings" => InFlight(s, f) = 1) /\ InFlight(s, f) \in Int
          BY <2>3, <3>1, <4>1 DEF StoreCount, InFlight
        <5> QED BY <2>3, <5>1, <5>2, <5>3
      <4>2. CASE appSensor # s
        BY <3>1, <4>2 DEF StoreCount, TypeInv, TypeOK, InFlight
      <4> QED BY <4>1, <4>2
    <3>2. CASE StoreRate
      <4>1. PICK n \in {appReg + 1, m_sensors_map[appSensor]["numOfReadings"]} :
              m_sensors_map' = [m_sensors_map EXCEPT ![appSensor]["averageRate"] = n]
        BY <3>2 DEF StoreRate
      <4>2. m_sensors_map'[s][f] = m_sensors_map[s][f]
        BY <4>1 DEF TypeInv, TypeOK, Counts
      <4>3. InFlight(s, f)' = InFlight(s, f)
        BY <2>3, <3>2 DEF StoreRate, InFlight
      <4> QED BY <4>2, <4>3
    <3>3. CASE LoadSucc
      BY <3>3 DEF LoadSucc, InFlight
    <3>4. CASE StoreSucc
      <4>1. CASE appSensor = s
        <5>1. m_sensors_map'[s][f] = IF f = "numOfSuccReadings" THEN m_sensors_map[s][f] + 1
                                     ELSE m_sensors_map[s][f]
          BY <2>1, <3>4, <4>1
          DEF StoreSucc, Registers, TypeInv, TypeOK, Fields, Resettable, Counts
        <5>2. InFlight(s, f)' = 0
          BY <3>4, <4>1 DEF StoreSucc, InFlight
        <5>3. InFlight(s, f) = IF f = "numOfReadings" THEN 0 ELSE 1
          BY <3>4, <4>1 DEF StoreSucc, InFlight, SuccessOnly
        <5> QED BY <2>3, <5>1, <5>2, <5>3 DEF Counts
      <4>2. CASE appSensor # s
        BY <3>4, <4>2 DEF StoreSucc, TypeInv, TypeOK, InFlight
      <4> QED BY <4>1, <4>2
    <3>5. CASE Iterate
      BY <3>5 DEF Iterate, appVars, InFlight
    <3> QED BY <3>1, <3>2, <3>3, <3>4, <3>5
  <2>5. Pending(s, f)' = Pending(s, f)
    BY <1>1, <1>3, <2>1, <2>4 DEF Pending, srvVars
  <2> QED BY <2>2, <2>5 DEF Kept
<1> QED BY <1>2, <1>3

(* Everything else that is quiet: the parts of a report between two takes, *)
(* commands, and the socket, but for the receipt of a report.              *)
LEMMA ServerQuiet ==
  ASSUME RInv, Next,
         \/ Accept \/ Read \/ ReadClosed \/ ApplySpeed \/ ApplyState \/ TokensDone \/ Write
         \/ \E g \in Fields : (SummaryField(g) /\ todo # {g}) \/ ResetField(g)
         \/ Connect \/ Disconnect \/ (Receive /\ reply # "report")
         \/ \E r \in Requests : Send(r)
  PROVE /\ \A s \in Sensors : (Covered(s)' <=> Covered(s))
        /\ \A s \in Sensors, f \in Counts : ~raced'[s] => Kept(s, f)
<1> USE DEF RInv, srvVars, sockVars, appVars, histVars
<1>1. UNCHANGED appVars
  BY DEF Accept, Read, ReadClosed, ApplySpeed, ApplyState, TokensDone, Write, SummaryField,
         ResetField, Connect, Disconnect, Receive, Send
<1>2. \A s \in Sensors, f \in Counts : InFlight(s, f)' = InFlight(s, f)
  BY <1>1 DEF InFlight
<1>3. ASSUME NEW g \in Fields, ResetField(g)
      PROVE /\ \A s \in Sensors : (Covered(s)' <=> Covered(s))
            /\ \A s \in Sensors, f \in Counts : ~raced'[s] => Kept(s, f)
  <2>1. /\ cursor \in Sensors /\ cursor \in Int /\ NumSensors \in Int
        /\ \A s \in Sensors : s \in Int /\ s <= NumSensors
        /\ srvPC = "reset" /\ reply = "none" /\ line.cmd = "SENSORS"
        /\ UNCHANGED <<line, reply, summary, received>>
    BY <1>3 DEF ResetField, TypeInv, TypeOK, Protocol, Sensors
  <2>2. CASE todo # {g}
    <3>1. srvPC' = "reset" /\ cursor' = cursor
      BY <1>3, <2>1, <2>2 DEF ResetField
    <3>2. \A s \in Sensors : (Covered(s)' <=> Covered(s))
      BY <2>1, <3>1 DEF Covered
    <3>3. \A s \in Sensors \ {cursor}, f \in Counts : m_sensors_map'[s][f] = m_sensors_map[s][f]
      BY <1>3 DEF ResetField, TypeInv, TypeOK
    <3>4. ASSUME NEW s \in Sensors, NEW f \in Counts, ~raced'[s] PROVE Kept(s, f)
      <4>1. ~raced[s]
        BY <3>4, RacedGrows
      <4>2. Pending(s, f)' = Pending(s, f)
        BY <1>2, <2>1, <3>1, <3>3, <3>4, <4>1 DEF Pending
      <4> QED BY <2>1, <3>2, <3>4, <4>1, <4>2 DEF Kept, Batch, Told
    <3> QED BY <3>2, <3>4
  <2>3. CASE todo = {g}
    <3>1. /\ cursor' = cursor + 1
          /\ srvPC' = IF cursor < NumSensors THEN "summary" ELSE "write"
          /\ m_sensors_map' = [m_sensors_map EXCEPT ![cursor][g] = 0]
      BY <1>3, <2>3 DEF ResetField
    <3>2. \A s \in Sensors : (Covered(s)' <=> Covered(s))
      <4>1. CASE cursor < NumSensors BY <2>1, <3>1, <4>1 DEF Covered
      <4>2. CASE ~(cursor < NumSensors) BY <2>1, <3>1, <4>2 DEF Covered
      <4> QED BY <4>1, <4>2
    <3>3. ASSUME NEW s \in Sensors, NEW f \in Counts, ~raced'[s] PROVE Kept(s, f)
      <4>1. ~raced[s] /\ ~Overlap(s)
        BY <3>3, RacedGrows
      <4>2. f \in Fields /\ f \in Resettable
        BY DEF Fields, Resettable
      <4>3. CASE s = cursor
        <5>1. m_sensors_map'[s][f] = 0
          BY <2>1, <2>3, <3>1, <4>1, <4>2, <4>3 DEF Copied, TypeInv, TypeOK
        <5>2. InFlight(s, f)' = 0
          BY <1>2, <2>1, <4>1, <4>3 DEF InFlight, Overlap, AppIn, SrvIn
        <5>3. Pending(s, f) = 0
          BY <2>1, <4>3 DEF Pending
        <5>4. Pending(s, f)' = 0
          BY <5>1, <5>2 DEF Pending
        <5> QED BY <2>1, <3>2, <3>3, <4>1, <5>3, <5>4 DEF Kept, Batch, Told
      <4>4. CASE s # cursor
        <5>1. m_sensors_map'[s][f] = m_sensors_map[s][f]
          BY <3>1, <4>4 DEF TypeInv, TypeOK
        <5>2. Pending(s, f)' = Pending(s, f)
          BY <1>2, <3>1, <3>3, <4>1, <4>4, <5>1 DEF Pending
        <5> QED BY <2>1, <3>2, <3>3, <4>1, <5>2 DEF Kept, Batch, Told
      <4> QED BY <4>3, <4>4
    <3> QED BY <3>2, <3>3
  <2> QED BY <2>2, <2>3
<1>4. ASSUME NEW g \in Fields, SummaryField(g), todo # {g}
      PROVE /\ \A s \in Sensors : (Covered(s)' <=> Covered(s))
            /\ \A s \in Sensors, f \in Counts : ~raced'[s] => Kept(s, f)
  <2>1. /\ srvPC = "summary" /\ srvPC' = "summary" /\ cursor \in Sensors
        /\ reply = "none"
        /\ UNCHANGED <<cursor, line, reply, received, m_sensors_map>>
        /\ summary' = [summary EXCEPT ![cursor][g] = m_sensors_map[cursor][g]]
    BY <1>4 DEF SummaryField, TypeInv, Protocol
  <2>2. \A s \in Sensors : (Covered(s)' <=> Covered(s))
    BY <2>1 DEF Covered
  <2>3. \A s \in Sensors : Covered(s) => summary'[s] = summary[s]
    BY <2>1 DEF Covered, TypeInv, TypeOK, Sensors
  <2>4. ASSUME NEW s \in Sensors, NEW f \in Counts, ~raced'[s] PROVE Kept(s, f)
    <3>1. ~raced[s]
      BY <2>4, RacedGrows
    <3> QED BY <1>2, <2>1, <2>2, <2>3, <2>4, <3>1 DEF Kept, Pending, Batch, Told
  <2> QED BY <2>2, <2>4
<1>5. ASSUME \/ Accept \/ Read \/ ReadClosed \/ ApplySpeed \/ ApplyState \/ TokensDone
             \/ Write \/ Connect \/ Disconnect \/ (Receive /\ reply # "report")
             \/ \E r \in Requests : Send(r)
      PROVE /\ \A s \in Sensors : (Covered(s)' <=> Covered(s))
            /\ \A s \in Sensors, f \in Counts : ~raced'[s] => Kept(s, f)
  <2>1. /\ UNCHANGED <<summary, received>>
        /\ \A s \in Sensors, f \in Counts : m_sensors_map'[s][f] = m_sensors_map[s][f]
    <3>1. CASE ApplyState
      <4>1. \A s \in Sensors, f \in Counts : m_sensors_map'[s][f] = m_sensors_map[s][f]
        BY <3>1 DEF ApplyState, TypeInv, TypeOK, Counts
      <4> QED BY <3>1, <4>1 DEF ApplyState
    <3>2. CASE Receive
      BY <3>2, <1>5 DEF Receive, Read, Accept, ReadClosed, ApplySpeed, ApplyState, TokensDone,
                        Write, Connect, Disconnect, Send, TypeInv, Protocol
    <3>3. CASE Accept \/ Read \/ ReadClosed \/ ApplySpeed \/ TokensDone \/ Write \/ Connect
               \/ Disconnect \/ \E r \in Requests : Send(r)
      BY <3>3
      DEF Accept, Read, ReadClosed, ApplySpeed, TokensDone, Write, Connect, Disconnect, Send
    <3> QED BY <1>5, <3>1, <3>2, <3>3
  <2>2. \A s \in Sensors : (Covered(s)' <=> Covered(s))
    <3>1. CASE Read
      BY <3>1, RequestCmds DEF Read, Dispatch, Covered, TypeInv, TypeOK, Protocol, Sensors
    <3>2. CASE Write
      BY <3>2 DEF Write, ReplyTo, Covered, TypeInv, TypeOK, Protocol
    <3>3. CASE TokensDone
      BY <3>3 DEF TokensDone, Covered, TypeInv, Protocol, SpeedCommand
    <3>4. CASE Accept \/ ReadClosed \/ ApplySpeed \/ ApplyState \/ Connect \/ Disconnect
      BY <3>4 DEF Accept, ReadClosed, ApplySpeed, ApplyState, Connect, Disconnect, Covered
    <3>5. CASE (Receive /\ reply # "report") \/ \E r \in Requests : Send(r)
      BY <3>5 DEF Receive, Send, Covered
    <3> QED BY <1>5, <3>1, <3>2, <3>3, <3>4, <3>5
  <2>3. \A s \in Sensors : (srvPC = "reset" /\ s = cursor)' <=> (srvPC = "reset" /\ s = cursor)
    BY <1>5
    DEF Accept, Read, ReadClosed, ApplySpeed, ApplyState, TokensDone, Write, Connect,
        Disconnect, Receive, Send, Dispatch
  <2>4. ASSUME NEW s \in Sensors, NEW f \in Counts, ~raced'[s] PROVE Kept(s, f)
    <3>1. ~raced[s]
      BY <2>4, RacedGrows
    <3> QED BY <1>2, <2>1, <2>2, <2>3, <2>4, <3>1 DEF Kept, Pending, Batch, Told
  <2> QED BY <2>2, <2>4
<1> QED BY <1>3, <1>4, <1>5

------------------------------------------------------------------------------
(* Every step of UUVServer is a step of Readings or none.                  *)
LEMMA ReadingsStep == RInv /\ Next => [Abstract!Next]_(Abstract!vars)
<1> SUFFICES ASSUME RInv, Next PROVE [Abstract!Next]_(Abstract!vars)
  OBVIOUS
<1> USE DEF RInv, srvVars, sockVars, appVars, histVars
<1>1. ASSUME NEW z \in Sensors, NEW value \in {0, 1}, NewReading(z, value)
      PROVE [Abstract!Next]_(Abstract!vars)
  <2>1. \A s \in Sensors \ {z}, f \in Counts : ~raced'[s] => Kept(s, f)
    <3> SUFFICES ASSUME NEW s \in Sensors \ {z}, NEW f \in Counts, ~raced'[s] PROVE Kept(s, f)
      OBVIOUS
    <3>1. ~raced[s]
      BY RacedGrows
    <3>2. InFlight(s, f) = 0 /\ InFlight(s, f)' = 0
      BY <1>1 DEF NewReading, InFlight
    <3> QED BY <1>1, <3>1, <3>2 DEF NewReading, Kept, Pending, Batch, Told, Covered
  <2>2. \A s \in Sensors : (Covered(s)' <=> Covered(s))
    BY <1>1 DEF NewReading, Covered
  <2>3. CASE raced'[z]
    <3>1. \A s \in Sensors, f \in Counts : ~raced'[s] => Kept(s, f)
      BY <2>1, <2>3
    <3> QED BY <2>2, <3>1, QuietStep
  <2>4. CASE ~raced'[z]
    <3>1. \A s \in Sensors : raced'[s] <=> raced[s]
      <4>1. \A s \in Sensors \ {z} : ~(Overlap(s)')
        BY <1>1 DEF NewReading, Overlap, AppIn
      <4> QED BY <2>4, <4>1, RacedGrows DEF Next, Observed, TypeInv, TypeOK
    <3>2. \A s \in Sensors \ {z}, f \in Counts : Kept(s, f)
      BY <2>1, <3>1 DEF Kept, Pending, Batch, Told
    <3>3. \A f \in Counts : Batch(z, f)' = Batch(z, f) /\ Told(z, f)' = Told(z, f)
      BY <1>1, <2>2, <3>1 DEF NewReading, Batch, Told
    <3>4. ASSUME NEW f \in Counts
          PROVE Pending(z, f)' = Pending(z, f) + IF f = "numOfReadings" THEN 1 ELSE value
      <4>1. ~raced[z] /\ ~Overlap(z) /\ ~(Overlap(z)')
        BY <2>4, RacedGrows
      <4>2. /\ InFlight(z, f) = 0
            /\ InFlight(z, f)' = IF f = "numOfReadings" THEN 1 ELSE value
        BY <1>1 DEF NewReading, InFlight
      <4>3. m_sensors_map[z][f] \in Int
        BY DEF TypeInv, TypeOK, Fields, Resettable
      <4>4. ~(srvPC = "reset" /\ z = cursor)
        BY <1>1, <4>1 DEF NewReading, Overlap, AppIn, SrvIn
      <4> QED BY <1>1, <2>4, <4>1, <4>2, <4>3, <4>4 DEF NewReading, Pending
    <3>5. AbsSpoiled' = AbsSpoiled /\ AbsTaken' = AbsTaken /\ z \notin AbsSpoiled
      BY <2>2, <2>4, <3>1 DEF AbsSpoiled, AbsTaken
    <3>6. AbsBatch' = AbsBatch /\ AbsTold' = AbsTold
      BY <3>2, <3>3 DEF AbsBatch, AbsTold, Kept
    <3>7. AbsPending' = [AbsPending EXCEPT ![z] = Abstract!Plus(@,
                           [f \in Counts |-> IF f = "numOfReadings" THEN 1 ELSE value])]
      BY <3>2, <3>4 DEF AbsPending, Kept, Abstract!Plus
    <3>8. Abstract!Deliver(z, value)
      BY <3>5, <3>6, <3>7 DEF Abstract!Deliver
    <3> QED BY <3>8 DEF Abstract!Next
  <2> QED BY <2>3, <2>4
<1>2. ASSUME NEW g \in Fields, SummaryField(g), todo = {g}
      PROVE [Abstract!Next]_(Abstract!vars)
  <2>1. /\ srvPC = "summary" /\ srvPC' = "reset" /\ cursor \in Sensors /\ reply = "none"
        /\ UNCHANGED <<cursor, line, reply, received, m_sensors_map, appVars>>
        /\ summary' = [summary EXCEPT ![cursor][g] = m_sensors_map[cursor][g]]
    BY <1>2 DEF SummaryField, TypeInv, Protocol
  <2>2. \A s \in Sensors : raced'[s] <=> raced[s]
    <3>1. \A s \in Sensors : Overlap(s)' => Overlap(s)
      BY <2>1 DEF Overlap, AppIn, SrvIn
    <3> QED BY <3>1 DEF Next, Observed, TypeInv, TypeOK, Protocol
  <2>3. \A s \in Sensors : (Covered(s)' <=> Covered(s) \/ s = cursor)
    BY <2>1 DEF Covered, Sensors
  <2>4. ~Covered(cursor)
    BY <2>1 DEF Covered, Sensors
  <2>5. ASSUME NEW s \in Sensors \ {cursor}, NEW f \in Counts PROVE Kept(s, f)
    <3>1. summary'[s] = summary[s]
      BY <2>1 DEF TypeInv, TypeOK
    <3> QED BY <2>1, <2>2, <2>3, <3>1 DEF Kept, Pending, Batch, Told, InFlight
  <2>6. ASSUME NEW f \in Counts
        PROVE Batch(cursor, f)' = Pending(cursor, f) /\ Told(cursor, f)' = Told(cursor, f)
              /\ Pending(cursor, f)' = 0
    <3>1. CASE raced[cursor]
      BY <2>1, <2>2, <3>1 DEF Batch, Pending, Told
    <3>2. CASE ~raced[cursor]
      <4>1. summary'[cursor][f] = m_sensors_map[cursor][f] /\ m_sensors_map[cursor][f] \in Int
        BY <1>2, <2>1, <3>2 DEF Copied, TypeInv, TypeOK, Fields, Resettable
      <4>2. ~AppIn(cursor)
        BY <2>1, <3>2 DEF TypeInv, Protocol, Overlap, SrvIn
      <4>3. InFlight(cursor, f) = 0
        BY <4>2 DEF InFlight, AppIn
      <4>4. Covered(cursor)'
        BY <2>1, <2>3
      <4> QED BY <2>1, <2>2, <3>2, <4>1, <4>3, <4>4 DEF Batch, Pending, Told
    <3> QED BY <3>1, <3>2
  <2>7. AbsTaken' = AbsTaken \cup {cursor} /\ cursor \notin AbsTaken /\ AbsSpoiled' = AbsSpoiled
    BY <2>1, <2>2, <2>3, <2>4 DEF AbsTaken, AbsSpoiled
  <2>8. AbsBatch' = [AbsBatch EXCEPT ![cursor] = AbsPending[cursor]]
    BY <2>1, <2>5, <2>6 DEF AbsBatch, AbsPending, Kept
  <2>9. AbsPending' = [AbsPending EXCEPT ![cursor] = Abstract!Nothing]
    BY <2>1, <2>5, <2>6 DEF AbsPending, Abstract!Nothing, Kept
  <2>10. AbsTold' = AbsTold
    <3>1. \A s \in Sensors, f \in Counts : Told(s, f)' = Told(s, f)
      BY <2>1, <2>2 DEF Told
    <3> QED BY <3>1 DEF AbsTold
  <2>11. Abstract!Take(cursor)
    BY <2>7, <2>8, <2>9, <2>10 DEF Abstract!Take
  <2> QED BY <2>1, <2>11 DEF Abstract!Next
<1>3. ASSUME Receive, reply = "report" PROVE [Abstract!Next]_(Abstract!vars)
  <2>1. /\ srvPC \in {"read", "closed"} /\ reply' = "none" /\ UNCHANGED <<appVars, srvVars>>
        /\ UNCHANGED m_sensors_map
        /\ received' = [s \in Sensors |->
                          [f \in Counts |-> received[s][f] + summary[s][f]]]
    BY <1>3 DEF Receive, TypeInv, Protocol
  <2>2. \A s \in Sensors : raced'[s] <=> raced[s]
    <3>1. \A s \in Sensors : ~(Overlap(s)')
      BY <2>1 DEF Overlap, SrvIn
    <3> QED BY <3>1 DEF Next, Observed, TypeInv, TypeOK
  <2>3. \A s \in Sensors : Covered(s) /\ ~(Covered(s)')
    BY <1>3, <2>1 DEF Covered
  <2>4. \A s \in Sensors, f \in Counts : received[s][f] \in Int /\ summary[s][f] \in Int
    BY DEF TypeInv, TypeOK, Fields, Resettable
  <2>5. \A s \in Sensors, f \in Counts :
          /\ Pending(s, f)' = Pending(s, f)
          /\ Batch(s, f)' = 0
          /\ Told(s, f)' = Told(s, f) + Batch(s, f)
    BY <2>1, <2>2, <2>3, <2>4 DEF Pending, Batch, Told, InFlight
  <2>6. AbsTaken = Sensors /\ AbsTaken' = {} /\ AbsSpoiled' = AbsSpoiled
    BY <2>2, <2>3 DEF AbsTaken, AbsSpoiled
  <2>7. AbsPending' = AbsPending /\ AbsBatch' = [s \in Sensors |-> Abstract!Nothing]
    BY <2>5 DEF AbsPending, AbsBatch, Abstract!Nothing
  <2>8. AbsTold' = [s \in Sensors |-> Abstract!Plus(AbsTold[s], AbsBatch[s])]
    BY <2>5 DEF AbsTold, AbsBatch, Abstract!Plus
  <2>9. Abstract!Report
    BY <2>6, <2>7, <2>8 DEF Abstract!Report
  <2> QED BY <2>9 DEF Abstract!Next
<1>4. CASE StoreCount \/ StoreRate \/ LoadSucc \/ StoreSucc \/ Iterate
  BY <1>4, AppQuiet, QuietStep
<1>5. ASSUME \/ Accept \/ Read \/ ReadClosed \/ ApplySpeed \/ ApplyState \/ TokensDone
             \/ Write
             \/ \E g \in Fields : (SummaryField(g) /\ todo # {g}) \/ ResetField(g)
             \/ Connect \/ Disconnect \/ (Receive /\ reply # "report")
             \/ \E r \in Requests : Send(r)
      PROVE [Abstract!Next]_(Abstract!vars)
  BY <1>5, ServerQuiet, QuietStep
<1> QED
  BY <1>1, <1>2, <1>3, <1>4, <1>5 DEF Next, AppThread, ServerThread, ClientStep

(* The SENSORS service is a get-and-reset of each sensor in one step,      *)
(* except for sensors on which newReading and a report have overlapped.    *)
THEOREM Refinement == Spec => ImplementsReadings
<1>1. Init => RInv /\ Abstract!Init
  <2> SUFFICES ASSUME Init PROVE RInv /\ Abstract!Init
    OBVIOUS
  <2>1. RInv
    BY TypeInvInit DEF RInv, Init, Registers, SuccessOnly, Copied
  <2>2. \A s \in Sensors, f \in Counts : Pending(s, f) = 0 /\ Batch(s, f) = 0 /\ Told(s, f) = 0
    BY DEF Init, Pending, Batch, Told, Covered, InFlight, Zero, Fields, Resettable, Counts
  <2>3. AbsTaken = {} /\ AbsSpoiled = {}
    BY DEF Init, AbsTaken, AbsSpoiled, Covered
  <2> QED
    BY <2>1, <2>2, <2>3
    DEF Abstract!Init, Abstract!Nothing, AbsPending, AbsBatch, AbsTold
<1>2. RInv /\ [Next]_vars => RInv'
  <2>1. RInv /\ Next => RInv'
    BY TypeStep, ProtocolStep, RegistersStep, CopiedStep DEF RInv, TypeInv
  <2>2. RInv /\ UNCHANGED vars => RInv'
    BY Stutter DEF RInv, Registers, SuccessOnly, Copied, vars, appVars, srvVars
  <2> QED BY <2>1, <2>2
<1>3. RInv /\ [Next]_vars => [Abstract!Next]_(Abstract!vars)
  <2>1. UNCHANGED vars => UNCHANGED Abstract!vars
    BY DEF vars, appVars, srvVars, sockVars, histVars, Abstract!vars, AbsPending, AbsBatch,
           AbsTold, AbsTaken, AbsSpoiled, Pending, Batch, Told, Covered, InFlight
  <2> QED BY <2>1, ReadingsStep
<1> QED BY <1>1, <1>2, <1>3, PTL DEF Spec, ImplementsReadings, Abstract!Spec

------------------------------------------------------------------------------
(* The start-up, for any set of sensors, any ports and any number of       *)
(* connections.                                                            *)

(* What OnStartUp knows of the sensors once it has read the mission file.  *)
Parsed == main \in {"initMap", "register", "running"} => m_uuv_sensors = Configured

(* NeverDeaf without the process being alive.                              *)
Hears == main = "running" /\ comms = "connected" => subscribed = Configured

(* Each bound port has its one server thread.  The mission file's port is  *)
(* bound only by the socket opened last, which is therefore the one its    *)
(* thread closes; and a controller that is served is served there.         *)
Served ==
  /\ \A p \in Ports : servers[p] = IF p \in bound THEN 1 ELSE 0
  /\ ConfPort \in bound => sockfd = ConfPort /\ PORT = ConfPort
  /\ controller \in {"connected", "answered"} => ConfPort \in bound

StartupInv == StartupTypeOK /\ Parsed /\ Hears /\ Served

(* The invariant holds at the start.                                       *)
LEMMA StartupStarts == StartupInit => StartupInv
BY UUVStartupAssumption DEF StartupInit, StartupInv, StartupTypeOK, Parsed, Hears, Served, Ports

(* Registering keeps what is registered among the sensors there are.       *)
LEMMA Registering ==
  ASSUME StartupTypeOK, RegisterVariables
  PROVE  /\ subscribed' \subseteq Configured
         /\ (IsConnected /\ m_uuv_sensors = Configured) => subscribed' = Configured
BY DEF StartupTypeOK, RegisterVariables, IsConnected

(* What says nothing of the sockets keeps Served.                          *)
LEMMA SameServers ==
  ASSUME Served, UNCHANGED <<serverVars, controller>>, PORT' = PORT \/ PORT' = ConfPort
  PROVE Served'
BY DEF Served, serverVars

(* Steps of the main thread keep the invariant.                            *)
LEMMA MainThreadKeeps == ASSUME StartupInv, MainThread PROVE StartupInv'
<1> USE DEF Ports, serverVars
<1>0. Served'
  BY SameServers
  DEF StartupInv, MainThread, StopWaiting, ParseConfiguration, InitSensorsMap, StartUpRegister
<1>1. CASE StopWaiting
  BY <1>0, <1>1 DEF StartupInv, StartupTypeOK, Parsed, Hears, StopWaiting
<1>2. CASE ParseConfiguration
  BY <1>0, <1>2 DEF StartupInv, StartupTypeOK, Parsed, Hears, ParseConfiguration
<1>3. CASE InitSensorsMap
  <2>1. /\ m_uuv_sensors = Configured /\ m_uuv_sensors' = m_uuv_sensors
        /\ main' \in {"initMap", "register"}
    BY <1>3 DEF StartupInv, Parsed, InitSensorsMap
  <2>2. mapped' \subseteq Configured
    BY <1>3 DEF StartupInv, StartupTypeOK, InitSensorsMap
  <2>3. StartupTypeOK'
    BY <1>3, <2>1, <2>2 DEF StartupInv, StartupTypeOK, InitSensorsMap
  <2>4. QED BY <1>0, <2>1, <2>3 DEF StartupInv, Parsed, Hears
<1>4. CASE StartUpRegister
  <2>1. /\ m_uuv_sensors = Configured /\ m_uuv_sensors' = m_uuv_sensors
        /\ subscribed' \subseteq Configured
        /\ IsConnected => subscribed' = Configured
    BY <1>4, Registering DEF StartupInv, Parsed, StartUpRegister
  <2>2. StartupTypeOK' BY <1>4, <2>1 DEF StartupInv, StartupTypeOK, StartUpRegister
  <2>3. Hears' BY <1>4, <2>1 DEF Hears, StartUpRegister, IsConnected
  <2>4. QED BY <1>0, <2>1, <2>2, <2>3 DEF StartupInv, Parsed
<1>5. QED BY <1>1, <1>2, <1>3, <1>4 DEF MainThread

(* Opening a server: bind has refused a port that had one.                 *)
LEMMA OpeningKeeps ==
  ASSUME StartupInv, comms = "initServer", PORT \notin bound, OpenServer
  PROVE StartupInv'
<1>1. /\ PORT \in Ports /\ ConfPort \in Ports /\ bound \subseteq Ports
      /\ servers \in [Ports -> Nat]
  BY DEF StartupInv, StartupTypeOK, Ports
<1>2. /\ bound' = bound \cup {PORT} /\ sockfd' = PORT /\ PORT' = PORT
      /\ servers' = [servers EXCEPT ![PORT] = @ + 1] /\ controller' = controller
  BY DEF OpenServer
<1>3. servers[PORT] = 0 BY <1>1 DEF StartupInv, Served
<1>4. ASSUME NEW p \in Ports PROVE servers'[p] = IF p \in bound' THEN 1 ELSE 0
  BY <1>1, <1>2, <1>3 DEF StartupInv, Served
<1>5. ConfPort \notin bound \/ PORT = ConfPort BY DEF StartupInv, Served
<1>6. Served' BY <1>2, <1>4, <1>5 DEF StartupInv, Served
<1>7. servers' \in [Ports -> Nat] BY <1>1, <1>2
<1>8. StartupTypeOK' BY <1>1, <1>2, <1>7 DEF StartupInv, StartupTypeOK, OpenServer
<1>9. QED BY <1>6, <1>8 DEF StartupInv, Parsed, Hears, OpenServer

(* The end of the process changes only that.                               *)
LEMMA ExitKeeps ==
  ASSUME StartupInv, up' = FALSE,
         UNCHANGED <<main, comms, connections, PORT, m_uuv_sensors, mapped, serverVars,
                     subscribed, controller, report>>
  PROVE StartupInv'
<1>1. Served' BY SameServers DEF StartupInv
<1>2. up' \in BOOLEAN OBVIOUS
<1>3. QED BY <1>1, <1>2 DEF StartupInv, StartupTypeOK, Parsed, Hears, serverVars

(* Steps of the communications thread keep the invariant.                  *)
LEMMA CommsThreadKeeps == ASSUME StartupInv, CommsThread PROVE StartupInv'
<1>1. CASE ConnectToServer
  <2>1. connections' \in 0 .. MaxConnections
    BY <1>1, UUVStartupAssumption DEF StartupInv, StartupTypeOK, ConnectToServer
  <2>2. Served' BY <1>1, SameServers DEF StartupInv, ConnectToServer
  <2>3. QED
    BY <1>1, <2>1, <2>2
    DEF StartupInv, StartupTypeOK, Parsed, Hears, ConnectToServer, serverVars
<1>2. CASE InitServer
  <2>1. CASE ExitInCallback BY <2>1, ExitKeeps DEF ExitInCallback
  <2>2. QED BY <1>2, <2>1, OpeningKeeps DEF InitServer
<1>3. CASE ConnectRegister
  <2>1. /\ subscribed' \subseteq Configured
        /\ m_uuv_sensors = Configured => subscribed' = Configured
    BY <1>3, Registering DEF StartupInv, ConnectRegister, IsConnected
  <2>2. Served' BY <1>3, SameServers DEF StartupInv, ConnectRegister
  <2>3. StartupTypeOK' BY <1>3, <2>1 DEF StartupInv, StartupTypeOK, ConnectRegister, serverVars
  <2>4. Parsed' /\ Hears'
    BY <1>3, <2>1 DEF StartupInv, Parsed, Hears, ConnectRegister
  <2>5. QED BY <2>2, <2>3, <2>4 DEF StartupInv
<1>4. CASE ConnectionLost
  <2>1. Served' BY <1>4, SameServers DEF StartupInv, ConnectionLost
  <2>2. QED
    BY <1>4, <2>1 DEF StartupInv, StartupTypeOK, Parsed, Hears, ConnectionLost, serverVars
<1>5. QED BY <1>1, <1>2, <1>3, <1>4 DEF CommsThread

(* What the controller does keeps the invariant.  The thread that ends is  *)
(* the one of the mission file's port, whose socket sockfd still is.       *)
LEMMA ServedClientKeeps == ASSUME StartupInv, ServedClient PROVE StartupInv'
<1>1. CASE ClientConnect
  <2>1. Served' BY <1>1 DEF StartupInv, Served, ClientConnect, serverVars
  <2>2. QED
    BY <1>1, <2>1 DEF StartupInv, StartupTypeOK, Parsed, Hears, ClientConnect, serverVars
<1>2. CASE FirstReport
  <2>1. CASE mapped = {}
    <3>1. up' = FALSE /\ UNCHANGED <<controller, report>> BY <1>2, <2>1, Zenon DEF FirstReport
    <3>2. QED BY <1>2, <3>1, ExitKeeps DEF FirstReport
  <2>2. CASE mapped # {}
    <3>1. controller' = "answered" /\ report' = mapped /\ up' = up
      BY <1>2, <2>2, Zenon DEF FirstReport
    <3>2. Served' BY <1>2, <3>1 DEF StartupInv, Served, FirstReport, serverVars
    <3>3. QED
      BY <1>2, <3>1, <3>2 DEF StartupInv, StartupTypeOK, Parsed, Hears, FirstReport, serverVars
  <2>3. QED BY <2>1, <2>2
<1>3. CASE ServerEnds
  <2>1. /\ ConfPort \in Ports /\ bound \subseteq Ports /\ servers \in [Ports -> Nat]
        /\ sockfd = ConfPort /\ servers[ConfPort] = 1
    BY <1>3 DEF StartupInv, StartupTypeOK, Served, ServerEnds, Ports
  <2>2. /\ servers' = [servers EXCEPT ![ConfPort] = 0] /\ bound' = bound \ {ConfPort}
        /\ controller' = "left" /\ PORT' = PORT /\ sockfd' = sockfd
    BY <1>3, <2>1 DEF ServerEnds
  <2>3. ASSUME NEW p \in Ports PROVE servers'[p] = IF p \in bound' THEN 1 ELSE 0
    BY <2>1, <2>2 DEF StartupInv, Served
  <2>4. Served' BY <2>2, <2>3 DEF Served
  <2>5. servers' \in [Ports -> Nat] BY <2>1, <2>2
  <2>6. StartupTypeOK' BY <1>3, <2>1, <2>2, <2>5 DEF StartupInv, StartupTypeOK, ServerEnds
  <2>7. QED BY <1>3, <2>4, <2>6 DEF StartupInv, Parsed, Hears, ServerEnds
<1>4. CASE ClientCloses BY <1>4, ExitKeeps DEF ClientCloses
<1>5. QED BY <1>1, <1>2, <1>3, <1>4 DEF ServedClient

(* Every step keeps the invariant.                                         *)
LEMMA StartupKeeps == StartupInv /\ [StartupNext]_startupVars => StartupInv'
<1> SUFFICES ASSUME StartupInv, [StartupNext]_startupVars PROVE StartupInv'
  OBVIOUS
<1>1. CASE UNCHANGED startupVars
  <2>1. Served' BY <1>1, SameServers DEF StartupInv, startupVars
  <2>2. QED BY <1>1, <2>1 DEF StartupInv, StartupTypeOK, Parsed, Hears, startupVars, serverVars
<1>2. QED
  BY <1>1, MainThreadKeeps, CommsThreadKeeps, ServedClientKeeps DEF StartupNext

(* The types of the variables, whatever the sensors and the ports.         *)
THEOREM StartupTypes == StartupSpec => []StartupTypeOK
<1>1. StartupInv => StartupTypeOK BY DEF StartupInv
<1>2. QED BY StartupStarts, StartupKeeps, <1>1, PTL DEF StartupSpec

(* Once both threads are through, a connected sUUV receives every sensor,  *)
(* in whichever order OnStartUp, the callback and the loss of a connection *)
(* came: what the one cannot register yet, the other does.                 *)
THEOREM HearsItsSensors == StartupSpec => []NeverDeaf
<1>1. StartupInv => NeverDeaf BY DEF StartupInv, Hears, NeverDeaf
<1>2. QED BY StartupStarts, StartupKeeps, <1>1, PTL DEF StartupSpec

(* No port ever has two server threads, however often MOOSDB reconnects,   *)
(* whatever bind refuses and whenever a thread ends and closes the global  *)
(* socket: on the port sUUV starts with, the map has one user.             *)
THEOREM ServesOnce == StartupSpec => []OneServer
<1>1. StartupInv => OneServer BY DEF StartupInv, Served, OneServer
<1>2. QED BY StartupStarts, StartupKeeps, <1>1, PTL DEF StartupSpec

==============================================================================
