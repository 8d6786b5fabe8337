------------------------------- MODULE HelmIvP -------------------------------
(***************************************************************************)
(* pHelmIvP as the one that steers: its status, the manual override, the   *)
(* all-stop, and a second helm on standby that takes over when the first   *)
(* is no longer heard, as in the kilo mission.  The two talk through       *)
(* IVPHELM_STATE on the MOOSDB.                                            *)
(*                                                                         *)
(* What the helm's engine decides is left open: a value for every          *)
(* decision variable, for some of them, for none, or a behaviour's error.  *)
(***************************************************************************)
EXTENDS Integers, Sequences, FiniteSets, SequencesExt

CONSTANTS
  Standby,             \* whether there is a second helm
  AllowOverride,       \* ALLOW_PARK
  ParkOnAllStop,       \* PARK_ON_ALLSTOP
  StartInDrive,        \* the helms with START_IN_DRIVE = true
  BehaviorsInMission,  \* whether the mission file names the behavior files
  Threshold,           \* STANDBY, in ticks
  Decisions,           \* what the engine may come to
  MaxMail,             \* bound: mail for a helm
  Commands,            \* what the operator commands, variables and values
  MaxCommands,         \* bound: how often
  MaxCrashes,          \* bound: crashes of helms
  Crashing             \* bound: the helms that crash

ASSUME HelmAssumption ==
  /\ {Standby, AllowOverride, ParkOnAllStop, BehaviorsInMission} \subseteq BOOLEAN
  /\ Decisions \subseteq {"clear", "BehaviorError", "NothingToDo", "MissingDecVars"}
  /\ {Threshold, MaxMail, MaxCommands, MaxCrashes} \subseteq Nat /\ MaxMail > 0
  /\ Commands \subseteq
       {<<"MOOS_MANUAL_OVERRIDE", "TRUE">>, <<"MOOS_MANUAL_OVERRIDE", "FALSE">>,
        <<"RESTART_HELM", "TRUE">>}

Helms == IF Standby THEN {"pHelmIvP", "pHelmIvP_Standby"} ELSE {"pHelmIvP"}
Operator == "operator"

VARIABLES
  helm,      \* the members of each helm, and what it posts in a step
  alive,     \* whether its process runs
  mail,      \* mail it has not read
  desired,   \* DESIRED_*, and the helm that wrote it last
  state,     \* IVPHELM_STATE
  commands, crashes,
  coasting   \* iterations of a helm since its last decision, up to 2

vars == <<helm, alive, mail, desired, state, commands, crashes, coasting>>

Statuses == {"PARK", "DRIVE", "STANDBY", "DISABLED", "MALCONFIG"}
Enabled(x) == x.m_helm_status \in {"PARK", "DRIVE"}
Undecided == {"NothingToDo", "MissingDecVars"}
Never == -1

Post(var, val, h) == [var |-> var, val |-> val, from |-> h]

(* The last post to each variable, if there is one.                        *)
NoPosts == [DESIRED |-> "none", IVPHELM_STATE |-> "none"]

(* The types, and that a helm on standby or disabled is what it was        *)
(* configured to be.                                                       *)
TypeOK ==
  /\ \A h \in Helms :
       /\ helm[h].m_helm_status \in
            IF h = "pHelmIvP" THEN Statuses \ {"STANDBY"} ELSE Statuses \ {"DISABLED"}
       /\ helm[h].m_has_control \in BOOLEAN
       /\ helm[h].m_allstop_msg \in Undecided \cup
            {"", "clear", "ManualOverride", "BehaviorError", "IncompleteOrEmptyDecision",
             "DisabledByStandbyHelm"}
       /\ helm[h].m_no_decisions \in 0 .. 2
       /\ helm[h].m_standby_last_heartbeat \in Never .. Threshold + 1
       /\ helm[h].disabledPosted \in BOOLEAN
       /\ helm[h].posts = NoPosts
       /\ coasting[h] \in 0 .. 2 /\ alive[h] \in BOOLEAN
       /\ Len(mail[h]) <= MaxMail
  /\ desired.val \in {"none", "zero", "drive"} /\ state.val \in Statuses \cup {"none"}
  /\ commands \in 0 .. MaxCommands /\ crashes \in 0 .. MaxCrashes

Launched(h) ==
  [m_helm_status |-> IF h = "pHelmIvP" THEN "PARK" ELSE "STANDBY",
   m_has_control |-> h \in StartInDrive, m_allstop_msg |-> "", m_no_decisions |-> 0,
   m_standby_last_heartbeat |-> Never, disabledPosted |-> FALSE, posts |-> NoPosts]

Init ==
  /\ helm = [h \in Helms |-> Launched(h)]
  /\ alive = [h \in Helms |-> TRUE]
  /\ mail = [h \in Helms |-> <<>>]
  /\ desired = Post("DESIRED", "none", Operator)
  /\ state = Post("IVPHELM_STATE", "none", Operator)
  /\ commands = 0 /\ crashes = 0
  /\ coasting = [h \in Helms |-> 0]

------------------------------------------------------------------------------
(* The procedures of a helm: x is the helm and what it posts.              *)

(* helmStatusUpdate: a new status, if one is given, in the light of        *)
(* m_has_control.                                                          *)
Settle(x) ==
  IF Enabled(x) THEN [x EXCEPT !.m_helm_status = IF x.m_has_control THEN "DRIVE" ELSE "PARK"]
  ELSE x

helmStatusUpdate(x, status) ==
  Settle([x EXCEPT !.m_helm_status = CASE status = "" -> @
                                       [] status = "ENABLED" -> "PARK"
                                       [] OTHER -> status])

Notify(x, var, val) == [x EXCEPT !.posts[var] = val]

(* Mutant: the message stays what it was while the helm holds off.         *)
HoldOff_SameMessage(x) == x

(* The all-stop is held off for one iteration.                             *)
HoldOff(x) == [x EXCEPT !.m_allstop_msg = "IncompleteOrEmptyDecision"]

(* postAllStop.                                                            *)
postAllStop(x, msg) ==
  LET n == IF msg \notin Undecided THEN 0
           ELSE IF x.m_no_decisions = 2 THEN 2 ELSE x.m_no_decisions + 1
      y == [x EXCEPT !.m_allstop_msg = IF msg = "" THEN @ ELSE msg, !.m_no_decisions = n]
  IN  CASE ~Enabled(x) \/ msg = x.m_allstop_msg -> x
        [] OTHER -> IF y.m_allstop_msg = "clear" THEN y
                    ELSE IF n = 1 THEN HoldOff(y)
                    ELSE Notify(y, "DESIRED", "zero")

(* OnStartUp for RESTART_HELM: behavior files the helm has already are     *)
(* refused, which is a configuration warning.                              *)
OnStartUp(h, x) ==
  IF BehaviorsInMission
    THEN [x EXCEPT !.m_helm_status = "MALCONFIG", !.m_has_control = FALSE]
    ELSE LET y == [x EXCEPT !.m_has_control = @ \/ h \in StartInDrive]
         IN  IF h = "pHelmIvP" THEN y ELSE helmStatusUpdate(y, "STANDBY")

(* Mutant: the helm is disabled before it can post the all-stop.           *)
Yield_First(x) == postAllStop(helmStatusUpdate(x, "DISABLED"), "DisabledByStandbyHelm")

(* Another helm is in charge: the primary yields.                          *)
Yield(x) == helmStatusUpdate(postAllStop(x, "DisabledByStandbyHelm"), "DISABLED")

(* Mutant: the primary yields to a helm that is in DRIVE only.             *)
HandleState_DriveOnly(h, x, m) ==
  IF h = "pHelmIvP" THEN IF m.val = "DRIVE" THEN Yield(x) ELSE x
  ELSE IF x.m_helm_status = "STANDBY" THEN [x EXCEPT !.m_standby_last_heartbeat = 0]
  ELSE postAllStop(x, "")

(* OnNewMail on an IVPHELM_STATE of another helm.                          *)
HandleState(h, x, m) ==
  IF h = "pHelmIvP" THEN IF m.val # "STANDBY" THEN Yield(x) ELSE x
  ELSE IF x.m_helm_status = "STANDBY" THEN [x EXCEPT !.m_standby_last_heartbeat = 0]
  ELSE postAllStop(x, "")

HandleMail(h, x, m) ==
  CASE m.var = "MOOS_MANUAL_OVERRIDE" /\ m.val = "FALSE" ->
         helmStatusUpdate([x EXCEPT !.m_has_control = TRUE], "")
    [] m.var = "MOOS_MANUAL_OVERRIDE" /\ m.val = "TRUE" ->
         IF AllowOverride THEN helmStatusUpdate([x EXCEPT !.m_has_control = FALSE], "") ELSE x
    [] m.var = "IVPHELM_STATE" -> IF m.from = h THEN x ELSE HandleState(h, x, m)
    [] m.var = "RESTART_HELM" -> OnStartUp(h, x)

(* checkForTakeOver, of a helm on standby.                                 *)
checkForTakeOver(x) ==
  IF x.m_helm_status = "STANDBY" /\ x.m_standby_last_heartbeat > Threshold
    THEN helmStatusUpdate(x, "ENABLED") ELSE x

(* postHelmStatus: DISABLED is posted once.                                *)
postHelmStatus(x) ==
  IF x.m_helm_status = "DISABLED" /\ x.disabledPosted THEN x
  ELSE [Notify(x, "IVPHELM_STATE", x.m_helm_status) EXCEPT
          !.disabledPosted = @ \/ x.m_helm_status = "DISABLED"]

(* The end of Iterate, given the engine's decision.                        *)
Decide(x, decision) ==
  IF decision = "clear" THEN Notify(postAllStop(x, "clear"), "DESIRED", "drive")
  ELSE LET y == postAllStop(x, decision)
       IN  IF AllowOverride /\ ParkOnAllStop THEN [y EXCEPT !.m_has_control = FALSE] ELSE y

------------------------------------------------------------------------------
(* A message that repeats the one before it is kept once: a helm reads all *)
(* its mail at once.                                                       *)
Received(q, m) == IF q # <<>> /\ Last(q) = m THEN q ELSE Append(q, m)

(* Mutant: the MOOSDB keeps a client's own posts from it.                  *)
Mailed_Others(m) == [h \in Helms |-> IF alive[h] /\ h # m.from
                                       THEN Received(mail[h], m) ELSE mail[h]]

(* Every helm subscribes to IVPHELM_STATE, its own included.               *)
Mailed(m) == [h \in Helms |-> IF alive[h] THEN Received(mail[h], m) ELSE mail[h]]

WithinMail == \A h \in Helms : Len(mail'[h]) <= MaxMail

(* The helm h becomes x, and what it has posted is what DESIRED_* are now. *)
Becomes(h, x) ==
  /\ helm' = [helm EXCEPT ![h] = [x EXCEPT !.posts = NoPosts]]
  /\ desired' = IF x.posts.DESIRED = "none" THEN desired
                ELSE Post("DESIRED", x.posts.DESIRED, h)

(* A post to IVPHELM_STATE is mail for the helms.                          *)
Reports(h, x) ==
  IF x.posts.IVPHELM_STATE # "none"
    THEN /\ state' = Post("IVPHELM_STATE", x.posts.IVPHELM_STATE, h)
         /\ mail' = Mailed(state')
         /\ WithinMail
    ELSE UNCHANGED <<state, mail>>

(* The helm after its mail, one message after the other.                   *)
AfterMail(h) ==
  LET read[i \in 0 .. Len(mail[h])] ==
        IF i = 0 THEN helm[h] ELSE HandleMail(h, read[i - 1], mail[h][i])
  IN  read[Len(mail[h])]

OnNewMail(h) ==
  /\ alive[h] /\ mail[h] # <<>>
  /\ mail' = [mail EXCEPT ![h] = <<>>]
  /\ IF helm[h].m_helm_status = "DISABLED" THEN UNCHANGED <<helm, desired>>
     ELSE \E x \in {checkForTakeOver(AfterMail(h))} : Becomes(h, x)
  /\ UNCHANGED <<alive, state, commands, crashes, coasting>>

(* What an iteration makes of the helm x.                                  *)
Steered(x, decision) ==
  IF ~Enabled(x) THEN x
  ELSE IF ~x.m_has_control THEN postAllStop(x, "ManualOverride")
  ELSE Decide(x, decision)

Iterate(h, decision) ==
  /\ alive[h]
  /\ \E x \in {postHelmStatus(helmStatusUpdate(helm[h], ""))} :
       /\ \E y \in {Steered(x, decision)} : Becomes(h, y)
       /\ Reports(h, x)
       /\ coasting' = [coasting EXCEPT ![h] =
                         IF Enabled(x) /\ x.m_has_control /\ decision = "clear" THEN 0
                         ELSE IF @ = 2 THEN 2 ELSE @ + 1]
  /\ UNCHANGED <<alive, commands, crashes>>

------------------------------------------------------------------------------
(* The operator, time and the processes.                                   *)

Command(var, val) ==
  /\ commands < MaxCommands /\ commands' = commands + 1
  /\ mail' = Mailed(Post(var, val, Operator))
  /\ WithinMail
  /\ UNCHANGED <<helm, alive, desired, state, crashes, coasting>>

(* Time passes for a helm on standby.                                      *)
Tick ==
  /\ \E h \in Helms : helm[h].m_standby_last_heartbeat \in 0 .. Threshold
  /\ helm' = [h \in Helms |-> [helm[h] EXCEPT !.m_standby_last_heartbeat =
                                 IF @ \in 0 .. Threshold THEN @ + 1 ELSE @]]
  /\ UNCHANGED <<alive, mail, desired, state, commands, crashes, coasting>>

Crash(h) ==
  /\ alive[h] /\ crashes < MaxCrashes /\ crashes' = crashes + 1
  /\ alive' = [alive EXCEPT ![h] = FALSE]
  /\ mail' = [mail EXCEPT ![h] = <<>>]
  /\ UNCHANGED <<helm, desired, state, commands, coasting>>

(* A helm launched again is sent the last IVPHELM_STATE as it registers.   *)
Launch(h) ==
  /\ ~alive[h]
  /\ alive' = [alive EXCEPT ![h] = TRUE]
  /\ helm' = [helm EXCEPT ![h] = Launched(h)]
  /\ mail' = [mail EXCEPT ![h] = IF state.val = "none" THEN <<>> ELSE <<state>>]
  /\ coasting' = [coasting EXCEPT ![h] = 0]
  /\ UNCHANGED <<desired, state, commands, crashes>>

------------------------------------------------------------------------------
Next ==
  \/ \E h \in Helms : \/ OnNewMail(h) \/ Launch(h)
                      \/ h \in Crashing /\ Crash(h)
                      \/ \E decision \in Decisions : Iterate(h, decision)
  \/ \E c \in Commands : Command(c[1], c[2])
  \/ Tick

Spec == Init /\ [][Next]_vars

(* A helm that runs reads its mail and iterates, and time passes.  The     *)
(* bound on mail may disable Iterate for a while, hence SF.                *)
Fairness ==
  /\ WF_vars(Tick)
  /\ \A h \in Helms :
       /\ WF_vars(OnNewMail(h))
       /\ SF_vars(\E decision \in Decisions : Iterate(h, decision))

FairSpec == Spec /\ Fairness

------------------------------------------------------------------------------
Driving(h) == desired = Post("DESIRED", "drive", h)

(* The vehicle goes on as it was for at most one iteration of the helm     *)
(* after the helm's last decision, whether it parked, failed or had        *)
(* nothing to do, in whatever order.                                       *)
NeverCoasts == \A h \in Helms : alive[h] /\ Driving(h) => coasting[h] <= 1

(* A helm that no longer steers has left zeros behind it.                  *)
StopsWhenItQuits == \A h \in Helms : alive[h] /\ Driving(h) => Enabled(helm[h])

BothSteer == \A h \in Helms : alive[h] /\ Enabled(helm[h])

(* Two helms that both steer end up as one.                                *)
OneSteers == BothSteer ~> ~BothSteer

(* A primary that dies after it was heard is replaced.                     *)
TakesOver ==
  (\E h \in Helms \ {"pHelmIvP"} :
     /\ ~alive["pHelmIvP"] /\ alive[h] /\ helm[h].m_standby_last_heartbeat # Never)
  ~> (alive["pHelmIvP"] \/ \A h \in Helms \ {"pHelmIvP"} : alive[h] => Enabled(helm[h]))

(* "pHelmIvP has been re-started!!", the operator is told.                 *)
Restarted == \A h \in Helms : helm[h].m_helm_status # "MALCONFIG"

==============================================================================
