------------------------------- MODULE Mission -------------------------------
(***************************************************************************)
(* The mission of the exemplar, meta_vehicle.bhv, as pHelmIvP runs it in   *)
(* DRIVE: the hierarchical modes, the behaviors' conditions and endflags,  *)
(* and what the vehicle is told to do.  The operator posts to the mission's*)
(* variables whenever it likes, and the helm reads its mail later.         *)
(*                                                                         *)
(* A value is the sequence of its fields, as in ACTIVE:SURVEY:SURVEYA.     *)
(* Where the vehicle goes is kept as far as the two waypoint behaviors     *)
(* look at it.                                                             *)
(***************************************************************************)
EXTENDS Integers, Sequences, FiniteSets, SequencesExt, TLC

CONSTANTS
  Repeats,      \* repeat of waypt_survey_regionA
  Commands,     \* what the operator posts: pairs of a variable and a value
  MaxCommands,  \* bound: how often
  MaxMail       \* bound: mail the helm has not read

ASSUME MissionAssumption == {Repeats, MaxCommands, MaxMail} \subseteq Nat

VARIABLES
  info,       \* the info buffer of the helm
  db,         \* the same variables on the MOOSDB
  mode_set,   \* the value last posted under the key mode_set
  mail,       \* mail for the helm
  fresh,      \* whether the helm has iterated since it read mail
  cycles,     \* m_repeats_sofar of the survey
  undecided,  \* m_no_decisions: iterations in a row without a full decision, up to 2
  steering,   \* the behaviors that DESIRED_* stand for, none after an all-stop
  place,      \* where the vehicle is
  commands

vars == <<info, db, mode_set, mail, fresh, cycles, undecided, steering, place, commands>>

(* The variables the helm registers for, and one it only posts.            *)
Registered == {"DEPLOY", "RETURN", "REGION", "MODE"}
Unknown == <<>>
True  == <<"true">>
False == <<"false">>

(* The initialize lines.                                                   *)
Initial == [DEPLOY |-> False, RETURN |-> False, REGION |-> <<"REGIONA">>,
            MODE |-> Unknown, MISSION |-> Unknown]

(* The set lines: a value, its conditions, the mode it refines, and the    *)
(* value otherwise.                                                        *)
Modes == <<
  [val |-> "ACTIVE", conditions |-> {<<"DEPLOY", True>>}, prefix |-> <<>>, else |-> "INACTIVE"],
  [val |-> "SURVEY", conditions |-> {<<"RETURN", False>>}, prefix |-> <<"ACTIVE">>,
   else |-> "RETURNING"],
  [val |-> "SURVEYA", conditions |-> {<<"REGION", <<"REGIONA">> >>},
   prefix |-> <<"ACTIVE", "SURVEY">>, else |-> "SURVEYB"] >>

(* The Behavior blocks: the fields MODE has to have (==), the values other *)
(* variables have to have (=), the variables of the domain it decides, and *)
(* its endflags.                                                           *)
Behaviors == <<
  [name |-> "waypt_survey_regionA", modes |-> {"SURVEYA"}, conditions |-> {},
   decides |-> {"course", "speed"},
   endflags |-> << <<"RETURN", <<"TRUE">> >> >>],
  [name |-> "waypt_return", modes |-> {}, conditions |-> {<<"RETURN", True>>, <<"DEPLOY", True>>},
   decides |-> {"course", "speed"},
   endflags |-> << <<"RETURN", False>>, <<"DEPLOY", False>>, <<"MISSION", <<"complete">> >> >>],
  [name |-> "constant_speed", modes |-> {"SURVEY"}, conditions |-> {},
   decides |-> {"speed"}, endflags |-> <<>>],
  [name |-> "bhv_const_depth", modes |-> {"SURVEY"}, conditions |-> {},
   decides |-> {"depth"}, endflags |-> <<>>] >>

(* The domain of the helm.  No variable of it is optional.                 *)
Domain == {"course", "depth", "speed"}

Values == {Unknown, True, False, <<"TRUE">>, <<"REGIONA">>, <<"REGIONB">>, <<"complete">>,
           <<"INACTIVE">>, <<"ACTIVE", "RETURNING">>, <<"ACTIVE", "SURVEY", "SURVEYA">>,
           <<"ACTIVE", "SURVEY", "SURVEYB">>}

(* The operator posts what the mission file initializes; MODE is the       *)
(* helm's.                                                                 *)
ASSUME CommandsAssumption == Commands \subseteq (Registered \ {"MODE"}) \X Values

(* The types; a mode is always one of the leaves of the hierarchy.         *)
TypeOK ==
  /\ info \in [DOMAIN Initial -> Values] /\ db \in [DOMAIN Initial -> Values]
  /\ mode_set = db.MODE
  /\ mail \in Seq(Registered \X Values) /\ Len(mail) <= MaxMail /\ fresh \in BOOLEAN
  /\ cycles \in 0 .. Repeats /\ undecided \in 0 .. 2 /\ commands \in 0 .. MaxCommands
  /\ steering \subseteq {Behaviors[i].name : i \in DOMAIN Behaviors}
  /\ place \in {"home", "away", "last"}

(* The helm has posted the initial values; updateInfoBuffer passes over    *)
(* what comes back of them, marked HELM_VAR_INIT, so none of it is mail.   *)
Init ==
  /\ info = Initial /\ db = Initial
  /\ mode_set = Unknown
  /\ mail = <<>> /\ fresh = FALSE
  /\ cycles = 0 /\ undecided = 0
  /\ steering = {} /\ place = "home"
  /\ commands = 0

------------------------------------------------------------------------------
(* Modes and conditions.                                                   *)

Holds(x, conditions) == \A c \in conditions : x[c[1]] = c[2]

IsMode(x, mode) == mode = <<>> \/ x.MODE = mode

(* An entry of the mode set, on an info buffer.                            *)
evaluateEntry(x, m) ==
  CASE IsMode(x, m.prefix) /\ Holds(x, m.conditions) ->
         [x EXCEPT !.MODE = Append(m.prefix, m.val)]
    [] IsMode(x, m.prefix) /\ ~Holds(x, m.conditions) ->
         [x EXCEPT !.MODE = Append(m.prefix, m.else)]
    [] OTHER -> x

(* ModeSet::evaluate.  Every entry sees what the ones before it have set.  *)
evaluate(x) == evaluateEntry(evaluateEntry(evaluateEntry(x, Modes[1]), Modes[2]), Modes[3])

(* Whether the conditions of a behavior are met.  == looks for a field of  *)
(* the value, = compares all of it, case and all.                          *)
checkConditions(x, b) == b.modes \subseteq Range(x.MODE) /\ Holds(x, b.conditions)

IsSurvey(b) == b.name = "waypt_survey_regionA"

(* Whether a waypoint behavior has come to its last point.                 *)
Captures(b) == IF IsSurvey(b) THEN place = "last" ELSE b.name = "waypt_return" /\ place = "home"

(* Whether that completes it, or only another cycle.                       *)
Completes(b) == Captures(b) /\ (IsSurvey(b) => cycles = Repeats)

------------------------------------------------------------------------------
(* Posting: x holds the info buffer, the MOOSDB and the mail.              *)

(* Mutant: the helm does not hear what it has posted itself.               *)
Deliver_NoEcho(x, var, val) == [x EXCEPT !.db[var] = val]

(* The MOOSDB sends the helm what it has registered for, its own posts     *)
(* too.                                                                    *)
Deliver(x, var, val) ==
  [x EXCEPT !.db[var] = val,
            !.mail = IF var \in Registered THEN Append(@, <<var, val>>) ELSE @]

(* An endflag goes into the info buffer and to the MOOSDB.                 *)
PostFlag(x, var, val) == [Deliver(x, var, val) EXCEPT !.info[var] = val]

PostFlags(x, flags) ==
  LET posted[i \in 0 .. Len(flags)] ==
        IF i = 0 THEN x ELSE PostFlag(posted[i - 1], flags[i][1], flags[i][2])
  IN  posted[Len(flags)]

(* The behaviors post in the order of the mission file.                    *)
postBehaviorMessages(x, completed) ==
  PostFlags(x, FlattenSeq([i \in DOMAIN Behaviors |->
                             IF i \in completed THEN Behaviors[i].endflags ELSE <<>>]))

(* Mutant: a mode without a refinement is not posted.                      *)
postModeMessages_Refined(x) ==
  IF x.info.MODE = mode_set \/ Len(x.info.MODE) = 1 THEN x ELSE Deliver(x, "MODE", x.info.MODE)

(* The mode is posted when it is not what was posted last.                 *)
postModeMessages(x) ==
  IF x.info.MODE = mode_set THEN x ELSE Deliver(x, "MODE", x.info.MODE)

(* Mutant: without a full decision the last one stays in force.            *)
Steer_Hold(active, n) == IF n = 0 THEN active ELSE steering

(* DESIRED_*.  The all-stop is held off for one iteration.                 *)
Steer(active, n) ==
  CASE n = 0 -> active
    [] n = 1 -> steering
    [] OTHER -> {}

(* What comes of an iteration in which some behaviors run and some of them *)
(* complete.                                                               *)
Iterated(moded, running, completed) ==
  LET active == {Behaviors[i] : i \in running \ completed}
  IN  [x |-> postBehaviorMessages(
               postModeMessages([info |-> moded, db |-> db, mail |-> mail]), completed),
       cycled |-> \E i \in running : IsSurvey(Behaviors[i]) /\ Captures(Behaviors[i]),
       active |-> {b.name : b \in active},
       undecided |-> IF Domain \subseteq UNION {b.decides : b \in active} THEN 0
                     ELSE IF undecided = 2 THEN 2 ELSE undecided + 1]

Iterate ==
  \E moded \in {evaluate(info)} :
    \E running \in {{i \in DOMAIN Behaviors : checkConditions(moded, Behaviors[i])}} :
      \E completed \in {{i \in running : Completes(Behaviors[i])}} :
        \E r \in {Iterated(moded, running, completed)} :
           /\ Len(r.x.mail) <= MaxMail
           /\ info' = r.x.info /\ db' = r.x.db /\ mail' = r.x.mail
           /\ mode_set' = moded.MODE
           /\ fresh' = (completed = {})
           /\ cycles' = IF ~r.cycled THEN cycles
                        ELSE IF cycles = Repeats THEN 0 ELSE cycles + 1
           /\ undecided' = r.undecided
           /\ steering' = Steer(r.active, r.undecided)
           /\ place' = IF r.cycled THEN "away" ELSE place
           /\ UNCHANGED commands

(* What the helm has of a variable after a list of posts: the last of them *)
(* about it.                                                               *)
ValueAfter(x, posts, v) ==
  LET about == {i \in DOMAIN posts : posts[i][1] = v}
  IN  IF about = {} THEN x[v] ELSE posts[Max(about)][2]

(* OnNewMail.                                                              *)
OnNewMail ==
  /\ mail # <<>>
  /\ info' = [v \in DOMAIN info |-> ValueAfter(info, mail, v)]
  /\ mail' = <<>> /\ fresh' = FALSE
  /\ UNCHANGED <<db, mode_set, cycles, undecided, steering, place, commands>>

(* The operator, or uTimerScript.                                          *)
Command ==
  /\ commands < MaxCommands /\ Len(mail) < MaxMail
  /\ \E c \in Commands :
       /\ db' = [db EXCEPT ![c[1]] = c[2]]
       /\ mail' = Append(mail, c)
  /\ commands' = commands + 1
  /\ UNCHANGED <<info, mode_set, fresh, cycles, undecided, steering, place>>

(* The vehicle moves on, towards what it is steered to.                    *)
Move ==
  /\ \/ "waypt_survey_regionA" \in steering
        /\ place' = IF place = "home" THEN "away" ELSE "last"
     \/ "waypt_return" \in steering /\ place' = "home"
  /\ UNCHANGED <<info, db, mode_set, mail, fresh, cycles, undecided, steering, commands>>

Next == Iterate \/ OnNewMail \/ Command \/ Move

Spec == Init /\ [][Next]_vars

(* The helm goes on reading its mail and iterating, and a vehicle that is  *)
(* steered gets there.                                                     *)
FairSpec == Spec /\ WF_vars(Iterate) /\ WF_vars(OnNewMail) /\ WF_vars(Move)

------------------------------------------------------------------------------
(* When all its mail is read, what the helm acts on is what the MOOSDB     *)
(* has, whoever wrote last (HelmIvP.cpp:440-441: a behavior's messages go  *)
(* to both).                                                               *)
InfoAgrees == mail = <<>> => \A v \in Registered : info[v] = db[v]

(* The leaf of the mode hierarchy that some values call for.               *)
ModeOf(x) ==
  CASE x.DEPLOY # True -> <<"INACTIVE">>
    [] x.DEPLOY = True /\ x.RETURN # False -> <<"ACTIVE", "RETURNING">>
    [] OTHER -> <<"ACTIVE", "SURVEY",
                  IF x.REGION = <<"REGIONA">> THEN "SURVEYA" ELSE "SURVEYB">>

(* Once the helm has read its mail and iterated, the MODE everybody sees   *)
(* is the one that the other published variables call for.                 *)
PublishedMode == mail = <<>> /\ fresh => db.MODE = ModeOf(db)

(* A vehicle that is no longer deployed is stopped, or deployed again.     *)
StopsWhenRecalled ==
  (db.DEPLOY = False /\ commands = MaxCommands) ~> (steering = {} \/ db.DEPLOY # False)

(* A survey that runs to its end brings the vehicle home, unless somebody  *)
(* has sent it elsewhere (meta_vehicle.bhv: the survey ends with RETURN,   *)
(* and waypt_return runs on it).                                           *)
SurveyBringsHome ==
  (db.RETURN = <<"TRUE">> /\ commands = MaxCommands) ~> (place = "home")

(* The operator's RETURN brings a deployed vehicle home.                   *)
ReturnBringsHome ==
  (db.RETURN = True /\ db.DEPLOY = True /\ commands = MaxCommands) ~>
    (place = "home" \/ db.RETURN # True)
=============================================================================
