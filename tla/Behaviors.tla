------------------------------ MODULE Behaviors ------------------------------
(***************************************************************************)
(* The behaviors of pHelmIvP: how a behavior is spawned, updated, run,     *)
(* completed and removed, and the flags it posts on the way.  One Iterate  *)
(* of the helm in DRIVE is one step: HelmEngine asks every behavior for    *)
(* its objective function, then HelmIvP posts the behaviors' messages,     *)
(* removes the completed ones and forgets the updates.                     *)
(*                                                                         *)
(* What a behavior comes to when it is asked is left open.  All behaviors  *)
(* take their updates from one variable, and an update sets a speed.       *)
(***************************************************************************)
EXTENDS Integers, Sequences, FiniteSets

CONSTANTS
  Specs,        \* the Behavior blocks of the mission: prefix, templating, perpetual, level
  Updates,      \* what may be posted to the updates variable: name, speed, ok, toggle
  Outcomes,     \* what a behavior may come to, and whether its duration is over by then
  MaxDeltas,    \* bound: updates between two iterations
  MaxBehaviors  \* bound: behaviors at a time

(* A name is the sequence of what is put together to make it: what an      *)
(* update gives is appended to the name the block gives, or to "???".      *)
Name(prefix, aug) == <<prefix>> \o aug

(* m_descriptor is never empty, and two behaviors of one name are refused  *)
(* at the start.                                                           *)
ASSUME BehaviorsAssumption ==
  /\ Specs \in Seq([prefix : STRING, templating : {"", "clone", "spawn"},
                    perpetual : BOOLEAN, level : 0 .. 1])
  /\ \A i \in DOMAIN Specs : Specs[i].prefix # ""
  /\ \A i, j \in DOMAIN Specs :
       /\ "spawn" \notin {Specs[i].templating, Specs[j].templating}
       /\ Name(Specs[i].prefix, <<>>) = Name(Specs[j].prefix, <<>>)
       => i = j
  /\ \A u \in Updates : {u.ok, u.toggle} \subseteq BOOLEAN
  /\ Outcomes \subseteq [does : {"unmet", "starved", "ipf", "none", "complete", "error"},
                          expired : BOOLEAN]
  /\ {MaxDeltas, MaxBehaviors} \subseteq Nat

VARIABLES
  m_bhv_entry,    \* the behaviors there are
  m_bhv_names,    \* their names
  deltas,         \* updates in the info buffer since the last iteration
  gone            \* the behaviors the last iteration removed

vars == <<m_bhv_entry, m_bhv_names, deltas, gone>>

Names ==
  {Name(Specs[i].prefix, aug) : i \in DOMAIN Specs, aug \in {<<>>} \cup {u.name : u \in Updates}}

Levels == {Specs[i].level : i \in DOMAIN Specs}

Speeds == {0} \cup {u.speed : u \in Updates}

(* What a behavior has last posted of runflags and idleflags, of           *)
(* activeflags and inactiveflags, and how often its endflags.              *)
Flags == [run : {"", "running", "idle"}, active : {"", "active", "inactive"}, ends : 0 .. 2]

Unposted == [run |-> "", active |-> "", ends |-> 0]

Behavior(spec, aug, speed) ==
  [name |-> Name(spec.prefix, aug), perpetual |-> spec.perpetual, level |-> spec.level,
   state |-> "", completed |-> FALSE, speed |-> speed, prev |-> {}, flags |-> Unposted]

Behaviors ==
  [name : Names, perpetual : BOOLEAN, level : Levels,
   state : {"", "idle", "running", "active", "completed"}, completed : BOOLEAN,
   speed : Speeds, prev : {{}} \cup {{u} : u \in Updates}, flags : Flags]

(* The types.                                                              *)
TypeOK ==
  /\ m_bhv_entry \in Seq(Behaviors) /\ m_bhv_names \subseteq Names
  /\ deltas \in Seq(Updates) /\ Len(deltas) <= MaxDeltas
  /\ gone \subseteq Behaviors

(* What a sequence has at the places in ps, in its order.                  *)
AtPlaces(s, ps) ==
  LET taken[i \in 0 .. Len(s)] ==
        IF i = 0 THEN <<>>
        ELSE IF i \in ps THEN Append(taken[i - 1], s[i]) ELSE taken[i - 1]
  IN  taken[Len(s)]

Launched == AtPlaces(Specs, {i \in DOMAIN Specs : Specs[i].templating # "spawn"})

Init ==
  /\ m_bhv_entry = [i \in DOMAIN Launched |-> Behavior(Launched[i], <<>>, 0)]
  /\ m_bhv_names = {Name(Launched[i].prefix, <<>>) : i \in DOMAIN Launched}
  /\ deltas = <<>> /\ gone = {}

------------------------------------------------------------------------------
(* Spawning: x holds the behaviors and the names.                          *)

Templates == {i \in DOMAIN Specs : Specs[i].templating # ""}

(* The name as the update gives it, not as it will be.                     *)
IsNew(x, u) == u.name \notin x.names

(* A faulty update makes no behavior.                                      *)
Spawn(spec, x, u) ==
  IF u.name # <<>> /\ IsNew(x, u) /\ u.ok
    THEN [bhvs |-> Append(x.bhvs, Behavior(spec, u.name, u.speed)),
          names |-> x.names \cup {Name(spec.prefix, u.name)}]
    ELSE x

(* All the updates, for one template.                                      *)
SpawnAll(spec, x) ==
  LET spawned[j \in 0 .. Len(deltas)] ==
        IF j = 0 THEN x ELSE Spawn(spec, spawned[j - 1], deltas[j])
  IN  spawned[Len(deltas)]

handlePossibleSpawnings(x) ==
  LET spawned[i \in 0 .. Len(Specs)] ==
        IF i = 0 THEN x
        ELSE IF Specs[i].templating = "" THEN spawned[i - 1]
        ELSE SpawnAll(Specs[i], spawned[i - 1])
  IN  spawned[Len(Specs)]

------------------------------------------------------------------------------
(* One behavior in one iteration.                                          *)

Addressed(b, u) == u.name \in {<<>>, b.name}

(* An update that repeats the last good one is skipped, unless the word    *)
(* "toggle" is in it; of a faulty one the good parameters are set.  One    *)
(* with a name counts as faulty: no behavior has a parameter of that name. *)
ApplyUpdate(b, u) ==
  IF ({u} = b.prev /\ ~u.toggle) \/ ~Addressed(b, u) THEN b
  ELSE [b EXCEPT !.speed = u.speed, !.prev = IF u.ok /\ u.name = <<>> THEN {u} ELSE @]

checkUpdates(b) ==
  LET updated[j \in 0 .. Len(deltas)] ==
        IF j = 0 THEN b ELSE ApplyUpdate(updated[j - 1], deltas[j])
  IN  updated[Len(deltas)]

(* Mutant: the duration is looked at before the behavior's completion.     *)
isRunnable_Again(b, o) ==
  IF o.does = "unmet" THEN "idle"
  ELSE IF o.expired /\ ~b.perpetual THEN "expired"
  ELSE IF b.completed THEN "completed"
  ELSE IF o.does = "starved" THEN "idle" ELSE "running"

(* Whether the conditions are met, the duration is over and the variables  *)
(* it needs are fresh.                                                     *)
isRunnable(b, o) ==
  IF b.completed THEN "completed"
  ELSE IF o.does = "unmet" THEN "idle"
  ELSE IF o.expired /\ ~b.perpetual THEN "expired"
  ELSE IF o.does = "starved" THEN "idle" ELSE "running"

(* The state after the iteration.                                          *)
NewState(b, o) ==
  LET r == isRunnable(b, o)
  IN  IF r = "running" /\ o.does = "ipf" THEN "active"
      ELSE IF r = "expired" THEN "completed" ELSE r

(* How often the behavior ends: by its duration, and because onRunState    *)
(* says so.                                                                *)
Ends(b, o) ==
  LET r == isRunnable(b, o)
  IN  IF r = "completed" \/ o.does = "unmet" THEN 0
      ELSE (IF o.expired THEN 1 ELSE 0) + (IF r = "running" /\ o.does = "complete" THEN 1 ELSE 0)

(* setComplete.                                                            *)
Completes(b, ends) == ends > 0 /\ ~b.perpetual

(* Mutant: an idle behavior does not say that it is inactive.              *)
PostFlags_Idle(f, old, new, ends) ==
  [run    |-> CASE new = "idle" /\ old # "idle" -> "idle"
                [] new \in {"running", "active"} /\ old \in {"", "idle"} -> "running"
                [] OTHER -> f.run,
   active |-> CASE new = "active" /\ old # "active" -> "active"
                [] new = "running" /\ old = "active" -> "inactive"
                [] OTHER -> f.active,
   ends   |-> IF f.ends + ends > 2 THEN 2 ELSE f.ends + ends]

(* The flags as a behavior goes from one state to another.                 *)
PostFlags(f, old, new, ends) ==
  [run    |-> CASE new = "idle" /\ old # "idle" -> "idle"
                [] new \in {"running", "active"} /\ old \in {"", "idle"} -> "running"
                [] OTHER -> f.run,
   active |-> CASE new = "active" /\ old # "active" -> "active"
                [] new = "idle" /\ old # "idle" -> "inactive"
                [] new = "running" /\ old = "active" -> "inactive"
                [] OTHER -> f.active,
   ends   |-> IF f.ends + ends > 2 THEN 2 ELSE f.ends + ends]

(* The behavior once it has been asked.                                    *)
produceOF(b, o) ==
  LET c == checkUpdates(b)
  IN  [c EXCEPT !.state = NewState(b, o), !.completed = @ \/ Completes(b, Ends(b, o)),
                !.flags = PostFlags(@, b.state, NewState(b, o), Ends(b, o))]

(* An error is posted by a behavior that runs.                             *)
StateOK(b, o) == ~(isRunnable(b, o) = "running" /\ o.does = "error")

(* The behaviors of a filter level, up to the first error.                 *)
AskedAt(bhvs, level, choice) ==
  {i \in DOMAIN bhvs :
     /\ bhvs[i].level = level
     /\ \A j \in 1 .. i - 1 : bhvs[j].level = level => StateOK(bhvs[j], choice[j])}

(* Those that are asked in one iteration: the filter behaviors if nothing  *)
(* went wrong and there is something to filter.                            *)
Asked(bhvs, filters, choice) ==
  LET first == AskedAt(bhvs, 0, choice)
      goOn  == /\ filters
               /\ \A i \in first : StateOK(bhvs[i], choice[i])
               /\ \E i \in first : NewState(bhvs[i], choice[i]) = "active"
  IN  first \cup (IF goOn THEN AskedAt(bhvs, 1, choice) ELSE {})

(* Mutant: the name of a behavior that is removed stays taken.             *)
Removed_Name(names, bs) == names

(* The names that are left once the behaviors in bs are removed.           *)
Removed(names, bs) == names \ {b.name : b \in bs}

------------------------------------------------------------------------------
HasFilters(bhvs) == \E i \in DOMAIN bhvs : bhvs[i].level # 0

Iterate ==
  LET s == handlePossibleSpawnings([bhvs |-> m_bhv_entry, names |-> m_bhv_names])
  IN  /\ \E choice \in [DOMAIN s.bhvs -> Outcomes] :
           LET asked == Asked(s.bhvs, HasFilters(m_bhv_entry), choice)
               bhvs  == [i \in DOMAIN s.bhvs |->
                           IF i \in asked THEN produceOF(s.bhvs[i], choice[i]) ELSE s.bhvs[i]]
               over  == {i \in DOMAIN bhvs : bhvs[i].state = "completed"}
           IN  /\ m_bhv_entry' = AtPlaces(bhvs, DOMAIN bhvs \ over)
               /\ gone' = {bhvs[i] : i \in over}
               /\ m_bhv_names' = Removed(s.names, gone')
      /\ deltas' = <<>>

(* Whether what one more update may spawn stays within the bound.          *)
Room ==
  LET named == {j \in DOMAIN deltas : deltas[j].name # <<>>}
  IN  Len(m_bhv_entry) + Cardinality(Templates) * (Cardinality(named) + 1) <= MaxBehaviors

(* An update comes in by mail.                                             *)
Update(u) ==
  /\ Len(deltas) < MaxDeltas /\ (u.name # <<>> => Room)
  /\ deltas' = Append(deltas, u)
  /\ UNCHANGED <<m_bhv_entry, m_bhv_names, gone>>

Next == Iterate \/ \E u \in Updates : Update(u)

Spec == Init /\ [][Next]_vars

------------------------------------------------------------------------------
Live == {m_bhv_entry[i] : i \in DOMAIN m_bhv_entry}

(* A good update with a name finds a behavior of that name, or one of the  *)
(* name the template makes of it is there for the iteration, however names *)
(* are taken, released and, while two behaviors share one, taken back from *)
(* the one that is left.                                                   *)
AlertsAnswered ==
  [][deltas' = <<>> =>
       \A j \in DOMAIN deltas, t \in Templates :
         deltas[j].name # <<>> /\ deltas[j].ok =>
           \E b \in Live' \cup gone' :
             b.name \in {deltas[j].name, Name(Specs[t].prefix, deltas[j].name)}]_vars

(* "Actual spawning does not occur until after the caller determines that  *)
(* candidate names are unique to the helm.": the names that are looked     *)
(* up are those of the behaviors there are, each of its own.               *)
NamesAgree ==
  /\ m_bhv_names = {b.name : b \in Live}
  /\ \A i, j \in DOMAIN m_bhv_entry :
       m_bhv_entry[i].name = m_bhv_entry[j].name => i = j

(* What a behavior's flags say of it is the state it is in, through        *)
(* errors of others, iterations it was left out of and its own completion. *)
FlagsTruthful ==
  \A b \in Live :
    /\ b.flags.run = CASE b.state = "" -> "" [] b.state = "idle" -> "idle" [] OTHER -> "running"
    /\ b.flags.active = "active" <=> b.state = "active"

(* A behavior posts its endflags once in its life, be it ended by its      *)
(* duration or by itself, and is not removed without.                      *)
EndsOnce ==
  /\ \A b \in Live :
       ~b.perpetual => b.flags.ends <= 1 /\ (b.completed <=> b.flags.ends = 1)
  /\ \A b \in gone : ~b.perpetual /\ b.flags.ends = 1

(* "Clear the delta vectors now that all behavior have had the chance to   *)
(* consume delta info.": the last update for a behavior, if it is a good   *)
(* one, is in force after the iteration that read it.                      *)
LastUpdateInForce ==
  [][deltas' = <<>> =>
       \A i \in DOMAIN m_bhv_entry', j \in DOMAIN deltas :
         LET b == m_bhv_entry'[i]
         IN  /\ Addressed(b, deltas[j]) /\ deltas[j].ok
             /\ \A k \in j + 1 .. Len(deltas) : ~Addressed(b, deltas[k])
             => b.speed = deltas[j].speed]_vars

(* "Removed by mikerb jun2213 to prevent double posting", not to prevent   *)
(* the only one: what is gone has not left the flag of an active behavior. *)
InactiveWhenGone == \A b \in gone : b.flags.active # "active"

==============================================================================
