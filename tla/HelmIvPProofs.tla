---------------------------- MODULE HelmIvPProofs ----------------------------
(***************************************************************************)
(* Theorems about HelmIvP, with or without a standby helm, for any         *)
(* configuration and any decisions of the engine.                          *)
(*                                                                         *)
(* The inductive invariant says how a helm that has left "drive" behind it *)
(* remembers that (Tight): its last all-stop message is the one of a       *)
(* decision, of holding the all-stop off, or of a helm just launched, and  *)
(* m_no_decisions counts with it.  That is what makes the next postAllStop *)
(* post zeros.  Reading mail is a loop over messages; that each of them    *)
(* keeps what is needed (HandleMailHolds) carries over to all of them by   *)
(* induction (AfterMailHolds).                                             *)
(***************************************************************************)
EXTENDS HelmIvP, TLAPS, NaturalsInduction, WellFoundedInduction, SequenceTheorems

Messages == Undecided \cup
  {"", "clear", "ManualOverride", "BehaviorError", "IncompleteOrEmptyDecision",
   "DisabledByStandbyHelm"}

Member ==
  [m_helm_status : Statuses, m_has_control : BOOLEAN, m_allstop_msg : Messages,
   m_no_decisions : 0 .. 2, m_standby_last_heartbeat : Never .. Threshold + 1,
   disabledPosted : BOOLEAN,
   posts : [DESIRED : {"none", "zero", "drive"}, IVPHELM_STATE : Statuses \cup {"none"}]]

StatusesOf(h) == IF h = "pHelmIvP" THEN Statuses \ {"STANDBY"} ELSE Statuses \ {"DISABLED"}

StateMessage == {Post("IVPHELM_STATE", v, h) : v \in Statuses, h \in Helms}
Message == StateMessage \cup {Post(c[1], c[2], Operator) : c \in Commands}

(* A helm in the middle of a step.                                         *)
Fits(h, x) ==
  /\ x \in Member /\ x.m_helm_status \in StatusesOf(h)
  /\ x.m_allstop_msg = "clear" => x.m_no_decisions = 0

TypeInv ==
  /\ helm \in [Helms -> Member] /\ alive \in [Helms -> BOOLEAN]
  /\ \A h \in Helms : Fits(h, helm[h]) /\ helm[h].posts = NoPosts
  /\ mail \in [Helms -> Seq(Message)] /\ \A h \in Helms : Len(mail[h]) <= MaxMail
  /\ desired.val \in {"none", "zero", "drive"}
  /\ state \in StateMessage \cup {Post("IVPHELM_STATE", "none", Operator)}
  /\ commands \in 0 .. MaxCommands /\ crashes \in 0 .. MaxCrashes
  /\ coasting \in [Helms -> 0 .. 2]

(* What a helm x remembers of the "drive" it has left, n iterations ago.   *)
Tight(x, n) ==
  \/ x.m_allstop_msg = "clear" /\ x.m_no_decisions = 0 /\ n = 0
  \/ x.m_allstop_msg = "IncompleteOrEmptyDecision" /\ x.m_no_decisions = 1 /\ n <= 1
  \/ x.m_allstop_msg = "" /\ x.m_no_decisions = 0 /\ n = 0

Steering ==
  \A h \in Helms : alive[h] /\ Driving(h) =>
     Enabled(helm[h]) /\ Tight(helm[h], coasting[h])

(* A standby helm that is never launched again.                            *)
StandbyLives == \A h \in Helms \ {"pHelmIvP"} : alive[h]

(* Nobody restarts a helm, and only the primary crashes: a helm that comes *)
(* back as a standby helm knows nothing of what it has left behind.        *)
NoReturn == (\A c \in Commands : c[1] # "RESTART_HELM") /\ Crashing \subseteq {"pHelmIvP"}

IInv == TypeInv /\ (NoReturn => Steering /\ StandbyLives)

(* The same in the middle of OnNewMail.                                    *)
Holding(h, x, n, driving) ==
  /\ Fits(h, x) /\ x.posts.IVPHELM_STATE = "none" /\ x.posts.DESIRED \in {"none", "zero"}
  /\ NoReturn /\ driving /\ x.posts.DESIRED = "none" => Enabled(x) /\ Tight(x, n)

------------------------------------------------------------------------------
(* Induction up to a bound, as a property of sets of numbers.              *)
LEMMA UpTo ==
  ASSUME NEW n \in Nat, NEW S, 0 \in S, \A i \in 1 .. n : i - 1 \in S => i \in S
  PROVE  \A i \in 0 .. n : i \in S
<1> DEFINE before == {ss \in Nat \X Nat : ss[1] < ss[2]}
           missing == {i \in 0 .. n : i \notin S}
<1>1. IsWellFoundedOn(before, Nat)
  BY NatLessThanWellFounded DEF OpToRel
<1>2. SUFFICES ASSUME missing # {} PROVE FALSE
  OBVIOUS
<1>3. missing \subseteq Nat
  OBVIOUS
<1>4. PICK k \in missing : \A j \in missing : <<j, k>> \notin before
  <2> HIDE DEF missing, before
  <2> QED BY <1>1, <1>2, <1>3, WFMin
<1>5. k \in 1 .. n
  OBVIOUS
<1>6. k - 1 \in Nat /\ k \in Nat /\ k - 1 < k /\ k - 1 \in 0 .. n
  BY <1>5
<1>7. k - 1 \notin missing
  BY <1>4, <1>6
<1> QED BY <1>5, <1>6, <1>7

(* What a loop with step g has done after each of its n rounds.            *)
Rounds(r, n, a, g) == r[0] = a /\ \A i \in 1 .. n : r[i] = g[<<i, r[i - 1]>>]

(* A loop that takes every step in A stays in A, and is a function.        *)
LEMMA LoopExists ==
  ASSUME NEW n \in Nat, NEW A, NEW a \in A, NEW g \in [(1 .. n) \X A -> A]
  PROVE  \E r \in [0 .. n -> A] : Rounds(r, n, a, g)
<1> DEFINE Upto(m) == \E r \in [0 .. m -> A] :
                         r[0] = a /\ \A i \in 1 .. m : r[i] = g[<<i, r[i - 1]>>]
           S == {m \in 0 .. n : Upto(m)}
<1>1. 0 \in S
  <2> DEFINE f == [i \in 0 .. 0 |-> a]
  <2>1. f \in [0 .. 0 -> A] /\ f[0] = a
    OBVIOUS
  <2>2. \A i \in 1 .. 0 : f[i] = g[<<i, f[i - 1]>>]
    OBVIOUS
  <2>3. 0 \in 0 .. n
    OBVIOUS
  <2>4. Upto(0)
    <3> HIDE DEF f
    <3> QED BY <2>1, <2>2
  <2> QED BY <2>3, <2>4
<1>2. ASSUME NEW m \in 1 .. n, m - 1 \in S PROVE m \in S
  <2>1. PICK r \in [0 .. m - 1 -> A] :
          r[0] = a /\ \A i \in 1 .. m - 1 : r[i] = g[<<i, r[i - 1]>>]
    BY <1>2
  <2> DEFINE s == [i \in 0 .. m |-> IF i = m THEN g[<<m, r[m - 1]>>] ELSE r[i]]
  <2>2. r[m - 1] \in A /\ g[<<m, r[m - 1]>>] \in A
    OBVIOUS
  <2>3. s \in [0 .. m -> A]
    BY <2>2
  <2>4. s[0] = a
    BY <2>1
  <2>5. ASSUME NEW i \in 1 .. m PROVE s[i] = g[<<i, s[i - 1]>>]
    <3>1. i - 1 \in 0 .. m - 1 /\ s[i - 1] = r[i - 1]
      OBVIOUS
    <3>2. CASE i = m
      <4>1. s[m] = g[<<m, r[m - 1]>>] OBVIOUS
      <4> HIDE DEF s
      <4> QED BY <4>1, <3>1, <3>2
    <3>3. CASE i # m
      <4>1. i \in 1 .. m - 1 BY <3>3
      <4> QED BY <4>1, <3>1, <3>3, <2>1
    <3> QED BY <3>2, <3>3
  <2>6. Upto(m)
    <3> HIDE DEF s
    <3> QED BY <2>3, <2>4, <2>5
  <2> QED BY <2>6
<1>3. n \in S
  <2> HIDE DEF S
  <2> QED BY <1>1, <1>2, UpTo
<1> QED BY <1>3 DEF Rounds

------------------------------------------------------------------------------
(* The procedures.                                                         *)

(* Only the status and the control of a helm differ.                       *)
Alike(x, y) ==
  /\ y.m_allstop_msg = x.m_allstop_msg /\ y.m_no_decisions = x.m_no_decisions
  /\ y.posts = x.posts

LEMMA UpdateFits ==
  ASSUME NEW x \in Member, NEW status \in {"", "ENABLED", "DISABLED", "STANDBY"}
  PROVE  /\ helmStatusUpdate(x, status) \in Member
         /\ Alike(x, helmStatusUpdate(x, status))
         /\ helmStatusUpdate(x, status).m_has_control = x.m_has_control
         /\ status = "" => /\ Enabled(helmStatusUpdate(x, status)) <=> Enabled(x)
                           /\ ~Enabled(x) => helmStatusUpdate(x, status) = x
         /\ status = "ENABLED" => Enabled(helmStatusUpdate(x, status))
         /\ status \in {"DISABLED", "STANDBY"} =>
              helmStatusUpdate(x, status).m_helm_status = status
<1> DEFINE s == CASE status = "" -> x.m_helm_status
                  [] status = "ENABLED" -> "PARK"
                  [] OTHER -> status
           y == [x EXCEPT !.m_helm_status = s]
           t == IF y.m_has_control THEN "DRIVE" ELSE "PARK"
           z == [y EXCEPT !.m_helm_status = t]
<1>1. s \in Statuses
  BY DEF Member, Statuses
<1>2. /\ y \in Member /\ Alike(x, y) /\ y.m_has_control = x.m_has_control
      /\ y.m_helm_status = s
  <2> HIDE DEF s
  <2> QED BY <1>1 DEF Member, Alike
<1>3. t \in {"DRIVE", "PARK"}
  OBVIOUS
<1>4. /\ z \in Member /\ Alike(x, z) /\ z.m_has_control = x.m_has_control
      /\ z.m_helm_status = t
  <2> HIDE DEF y, t
  <2> QED BY <1>2, <1>3 DEF Member, Alike, Statuses
<1>5. helmStatusUpdate(x, status) = IF Enabled(y) THEN z ELSE y
  BY DEF helmStatusUpdate, Settle
<1>6. status = "" => y = x
  BY DEF Member
<1> QED
  <2> HIDE DEF y, z, t
  <2> QED BY <1>2, <1>3, <1>4, <1>5, <1>6 DEF Enabled

(* What postAllStop may be told.                                           *)
Stops == {"", "clear", "ManualOverride", "BehaviorError", "DisabledByStandbyHelm"} \cup Undecided

LEMMA StopForms ==
  ASSUME NEW x \in Member, NEW msg \in Stops
  PROVE  LET n == IF msg \notin Undecided THEN 0
                  ELSE IF x.m_no_decisions = 2 THEN 2 ELSE x.m_no_decisions + 1
             k == IF msg = "" THEN x.m_allstop_msg ELSE msg
             z == postAllStop(x, msg)
         IN  /\ z \in Member /\ z.m_helm_status = x.m_helm_status
             /\ z.m_has_control = x.m_has_control
             /\ \/ z = x /\ (~Enabled(x) \/ msg = x.m_allstop_msg)
                \/ /\ Enabled(x) /\ msg # x.m_allstop_msg
                   /\ \/ /\ k = "clear" /\ z.m_allstop_msg = k /\ z.m_no_decisions = n
                         /\ z.posts = x.posts
                      \/ /\ k # "clear" /\ n = 1 /\ z.posts = x.posts
                         /\ z.m_allstop_msg = "IncompleteOrEmptyDecision"
                         /\ z.m_no_decisions = 1
                      \/ /\ k # "clear" /\ n # 1 /\ z.m_allstop_msg = k
                         /\ z.m_no_decisions = n
                         /\ z.posts = [x.posts EXCEPT !.DESIRED = "zero"]
<1> DEFINE n == IF msg \notin Undecided THEN 0
                ELSE IF x.m_no_decisions = 2 THEN 2 ELSE x.m_no_decisions + 1
           k == IF msg = "" THEN x.m_allstop_msg ELSE msg
           y == [x EXCEPT !.m_allstop_msg = k, !.m_no_decisions = n]
           p == [x.posts EXCEPT !.DESIRED = "zero"]
           z == postAllStop(x, msg)
<1>1. n \in 0 .. 2 /\ k \in Messages
  <2>1. x.m_no_decisions \in 0 .. 2 /\ x.m_allstop_msg \in Messages
    BY DEF Member
  <2>2. n \in 0 .. 2
    BY <2>1
  <2>3. k \in Messages
    BY <2>1 DEF Stops, Messages
  <2> QED BY <2>2, <2>3
<1>2. /\ y \in Member /\ y.m_helm_status = x.m_helm_status /\ y.m_has_control = x.m_has_control
      /\ y.m_allstop_msg = k /\ y.m_no_decisions = n /\ y.posts = x.posts
  <2> HIDE DEF n, k
  <2> QED BY <1>1 DEF Member
<1>3. z = IF ~Enabled(x) \/ msg = x.m_allstop_msg THEN x
          ELSE IF k = "clear" THEN y
          ELSE IF n = 1 THEN HoldOff(y) ELSE Notify(y, "DESIRED", "zero")
  <2>1. z = CASE ~Enabled(x) \/ msg = x.m_allstop_msg -> x
              [] OTHER -> IF y.m_allstop_msg = "clear" THEN y
                          ELSE IF n = 1 THEN HoldOff(y) ELSE Notify(y, "DESIRED", "zero")
    BY DEF postAllStop
  <2> HIDE DEF y, z, n, k
  <2> QED BY <2>1, <1>2
<1>4. LET w == HoldOff(y)
      IN  /\ w \in Member /\ w.m_helm_status = y.m_helm_status
          /\ w.m_has_control = y.m_has_control /\ w.m_no_decisions = y.m_no_decisions
          /\ w.m_allstop_msg = "IncompleteOrEmptyDecision" /\ w.posts = y.posts
  <2> HIDE DEF y
  <2> QED BY <1>2 DEF HoldOff, Member, Messages
<1>5. p \in [DESIRED : {"none", "zero", "drive"}, IVPHELM_STATE : Statuses \cup {"none"}]
  BY DEF Member
<1>6. LET w == Notify(y, "DESIRED", "zero")
      IN  /\ w \in Member /\ w.m_helm_status = y.m_helm_status
          /\ w.m_has_control = y.m_has_control /\ w.m_no_decisions = y.m_no_decisions
          /\ w.m_allstop_msg = y.m_allstop_msg /\ w.posts = p
  <2> DEFINE w == [y EXCEPT !.posts = p]
  <2>1. Notify(y, "DESIRED", "zero") = w
    <3>1. y.posts = x.posts
      BY <1>2
    <3> HIDE DEF y
    <3> QED BY <3>1 DEF Notify
  <2>2. /\ w \in Member /\ w.m_helm_status = y.m_helm_status
        /\ w.m_has_control = y.m_has_control /\ w.m_no_decisions = y.m_no_decisions
        /\ w.m_allstop_msg = y.m_allstop_msg /\ w.posts = p
    <3> HIDE DEF y, p
    <3> QED BY <1>2, <1>5 DEF Member
  <2> HIDE DEF w, p, y
  <2> QED BY <2>1, <2>2
<1> QED
  <2> HIDE DEF y, p, n, k, z
  <2>1. /\ z \in Member /\ z.m_helm_status = x.m_helm_status
        /\ z.m_has_control = x.m_has_control
    BY <1>2, <1>3, <1>4, <1>6
  <2>2. \/ z = x /\ (~Enabled(x) \/ msg = x.m_allstop_msg)
        \/ /\ Enabled(x) /\ msg # x.m_allstop_msg
           /\ \/ /\ k = "clear" /\ z.m_allstop_msg = k /\ z.m_no_decisions = n
                 /\ z.posts = x.posts
              \/ /\ k # "clear" /\ n = 1 /\ z.posts = x.posts
                 /\ z.m_allstop_msg = "IncompleteOrEmptyDecision"
                 /\ z.m_no_decisions = 1
              \/ /\ k # "clear" /\ n # 1 /\ z.m_allstop_msg = k
                 /\ z.m_no_decisions = n
                 /\ z.posts = p
    BY <1>2, <1>3, <1>4, <1>6
  <2> QED BY <2>1, <2>2 DEF n, k, p, z

(* What postAllStop leaves of a helm, and of one that has left "drive"     *)
(* behind it c iterations ago.                                             *)
LEMMA StopHolds ==
  ASSUME NEW h, NEW x, Fits(h, x), NEW msg \in Stops, NEW c
  PROVE  LET z == postAllStop(x, msg)
         IN  /\ Fits(h, z) /\ z.m_helm_status = x.m_helm_status
             /\ z.m_has_control = x.m_has_control
             /\ z.posts.IVPHELM_STATE = x.posts.IVPHELM_STATE
             /\ z.posts.DESIRED \in {x.posts.DESIRED, "zero"}
             /\ Enabled(x) /\ msg = "clear" =>
                  z.m_allstop_msg = "clear" /\ z.m_no_decisions = 0
             /\ Enabled(x) /\ Tight(x, c) =>
                  /\ msg \in {"ManualOverride", "BehaviorError", "DisabledByStandbyHelm"} =>
                       z.posts.DESIRED = "zero"
                  /\ msg = "" => z.posts.DESIRED = "zero" \/ Tight(z, c)
                  /\ msg \in Undecided =>
                       \/ z.posts.DESIRED = "zero"
                       \/ /\ z.m_allstop_msg = "IncompleteOrEmptyDecision"
                          /\ z.m_no_decisions = 1 /\ c = 0
<1> DEFINE z == postAllStop(x, msg)
           n == IF msg \notin Undecided THEN 0
                ELSE IF x.m_no_decisions = 2 THEN 2 ELSE x.m_no_decisions + 1
           k == IF msg = "" THEN x.m_allstop_msg ELSE msg
<1>1. x \in Member
  BY DEF Fits
<1>2. /\ z \in Member /\ z.m_helm_status = x.m_helm_status
      /\ z.m_has_control = x.m_has_control
      /\ \/ z = x /\ (~Enabled(x) \/ msg = x.m_allstop_msg)
         \/ /\ Enabled(x) /\ msg # x.m_allstop_msg
            /\ \/ /\ k = "clear" /\ z.m_allstop_msg = k /\ z.m_no_decisions = n
                  /\ z.posts = x.posts
               \/ /\ k # "clear" /\ n = 1 /\ z.posts = x.posts
                  /\ z.m_allstop_msg = "IncompleteOrEmptyDecision"
                  /\ z.m_no_decisions = 1
               \/ /\ k # "clear" /\ n # 1 /\ z.m_allstop_msg = k
                  /\ z.m_no_decisions = n
                  /\ z.posts = [x.posts EXCEPT !.DESIRED = "zero"]
  <2> HIDE DEF z
  <2> QED BY <1>1, StopForms DEF z
<1>3. x.posts \in [DESIRED : {"none", "zero", "drive"}, IVPHELM_STATE : Statuses \cup {"none"}]
  BY <1>1 DEF Member
<1>4. /\ z.posts.IVPHELM_STATE = x.posts.IVPHELM_STATE
      /\ z.posts.DESIRED \in {x.posts.DESIRED, "zero"}
      /\ z.posts = [x.posts EXCEPT !.DESIRED = "zero"] => z.posts.DESIRED = "zero"
  <2> HIDE DEF z, n, k
  <2> QED BY <1>2, <1>3
<1>5. x.m_no_decisions \in 0 .. 2 /\ (x.m_allstop_msg = "clear" => x.m_no_decisions = 0)
  BY <1>1 DEF Fits, Member
<1>6. msg = "clear" => msg \notin Undecided
  BY DEF Undecided
<1>7. Fits(h, z)
  <2>1. z.m_allstop_msg = "clear" => z.m_no_decisions = 0
    <3> HIDE DEF z
    <3> QED BY <1>2, <1>5 DEF Undecided
  <2> HIDE DEF z, n, k
  <2> QED BY <1>2, <2>1 DEF Fits
<1>8. Enabled(x) /\ msg = "clear" => z.m_allstop_msg = "clear" /\ z.m_no_decisions = 0
  <2> HIDE DEF z
  <2> QED BY <1>2, <1>5, <1>6
<1>9. ASSUME Enabled(x), Tight(x, c),
             msg \in {"ManualOverride", "BehaviorError", "DisabledByStandbyHelm"}
      PROVE  z.posts.DESIRED = "zero"
  <2>1. msg \notin Undecided /\ msg # x.m_allstop_msg /\ k = msg /\ k # "clear" /\ n = 0
    BY <1>9 DEF Undecided, Tight
  <2> HIDE DEF z, n, k
  <2> QED BY <1>2, <1>4, <1>9, <2>1
<1>10. ASSUME Enabled(x), Tight(x, c), msg = ""
       PROVE  z.posts.DESIRED = "zero" \/ Tight(z, c)
  <2>1. msg \notin Undecided /\ k = x.m_allstop_msg /\ n = 0
    BY <1>10 DEF Undecided
  <2>2. CASE z = x
    BY <1>10, <2>2
  <2>3. CASE k = "clear" /\ z.m_allstop_msg = k /\ z.m_no_decisions = n
    <3> HIDE DEF z, k, n
    <3> QED BY <1>10, <2>1, <2>3 DEF Tight
  <2> HIDE DEF z, n, k
  <2> QED BY <1>2, <1>4, <2>1, <2>2, <2>3
<1>11. ASSUME Enabled(x), Tight(x, c), msg \in Undecided
       PROVE  \/ z.posts.DESIRED = "zero"
              \/ /\ z.m_allstop_msg = "IncompleteOrEmptyDecision"
                 /\ z.m_no_decisions = 1 /\ c = 0
  <2>0. \/ x.m_no_decisions = 0 /\ c = 0
        \/ x.m_no_decisions = 1
    BY <1>11 DEF Tight
  <2>1. msg # x.m_allstop_msg /\ k = msg /\ k # "clear"
    BY <1>11 DEF Undecided, Tight
  <2>2. n = 1 => c = 0
    BY <1>11, <2>0
  <2> HIDE DEF z, n, k
  <2> QED BY <1>2, <1>4, <1>11, <2>1, <2>2
<1> QED
  <2> HIDE DEF z, n, k
  <2> QED BY <1>2, <1>4, <1>7, <1>8, <1>9, <1>10, <1>11 DEF z

LEMMA UpdateHolds ==
  ASSUME NEW h \in Helms, NEW x, Fits(h, x), NEW status,
         status \in {"", "ENABLED", IF h = "pHelmIvP" THEN "DISABLED" ELSE "STANDBY"}
  PROVE  Fits(h, helmStatusUpdate(x, status))
<1> DEFINE y == helmStatusUpdate(x, status)
<1>1. x \in Member /\ status \in {"", "ENABLED", "DISABLED", "STANDBY"}
  BY DEF Fits
<1>2. /\ y \in Member /\ Alike(x, y)
      /\ status = "" => (Enabled(y) <=> Enabled(x)) /\ (~Enabled(x) => y = x)
      /\ status = "ENABLED" => Enabled(y)
      /\ status \in {"DISABLED", "STANDBY"} => y.m_helm_status = status
  <2>1. CASE status = ""
    BY <1>1, <2>1, UpdateFits
  <2>2. CASE status = "ENABLED"
    BY <1>1, <2>2, UpdateFits
  <2>3. CASE status \in {"DISABLED", "STANDBY"}
    BY <1>1, <2>3, UpdateFits
  <2> HIDE DEF y
  <2> QED BY <1>1, <2>1, <2>2, <2>3
<1>3. y.m_helm_status \in StatusesOf(h)
  <2> HIDE DEF y
  <2>1. Enabled(y) => y.m_helm_status \in StatusesOf(h)
    BY DEF Enabled, StatusesOf, Statuses
  <2>2. status \in {"DISABLED", "STANDBY"} => status \in StatusesOf(h)
    BY DEF StatusesOf, Statuses
  <2>3. x.m_helm_status \in StatusesOf(h)
    BY DEF Fits
  <2> QED BY <1>1, <1>2, <2>1, <2>2, <2>3
<1> QED
  <2> HIDE DEF y
  <2> QED BY <1>2, <1>3 DEF Fits, Alike, y

(* The settings of single members.                                         *)
LEMMA SetHolds ==
  ASSUME NEW h \in Helms, NEW x, Fits(h, x), NEW b \in BOOLEAN
  PROVE  /\ LET y == [x EXCEPT !.m_has_control = b]
            IN  Fits(h, y) /\ Alike(x, y) /\ y.m_helm_status = x.m_helm_status
         /\ LET y == [x EXCEPT !.m_standby_last_heartbeat = 0]
            IN  Fits(h, y) /\ Alike(x, y) /\ y.m_helm_status = x.m_helm_status
         /\ LET y == [x EXCEPT !.m_helm_status = "MALCONFIG", !.m_has_control = FALSE]
            IN  Fits(h, y) /\ Alike(x, y)
<1>1. 0 \in Never .. Threshold + 1
  BY HelmAssumption DEF Never
<1>2. "MALCONFIG" \in StatusesOf(h) /\ "MALCONFIG" \in Statuses
  BY DEF StatusesOf, Statuses
<1>3. x \in Member
  BY DEF Fits
<1>4. LET y == [x EXCEPT !.m_has_control = b]
      IN  Fits(h, y) /\ Alike(x, y) /\ y.m_helm_status = x.m_helm_status
  BY <1>3 DEF Fits, Member, Alike
<1>5. LET y == [x EXCEPT !.m_standby_last_heartbeat = 0]
      IN  Fits(h, y) /\ Alike(x, y) /\ y.m_helm_status = x.m_helm_status
  BY <1>1, <1>3 DEF Fits, Member, Alike
<1>6. LET y == [x EXCEPT !.m_helm_status = "MALCONFIG", !.m_has_control = FALSE]
      IN  Fits(h, y) /\ Alike(x, y)
  BY <1>2, <1>3 DEF Fits, Member, Alike
<1> QED BY <1>4, <1>5, <1>6

(* A new status or control that does not make the helm quit.               *)
LEMMA SameHolds ==
  ASSUME NEW h, NEW x, NEW y, NEW n, NEW driving, Holding(h, x, n, driving),
         Fits(h, y), Alike(x, y), Enabled(x) => Enabled(y)
  PROVE  Holding(h, y, n, driving)
BY DEF Holding, Alike, Tight

LEMMA ControlHolds ==
  ASSUME NEW h \in Helms, NEW x, NEW n, NEW driving, Holding(h, x, n, driving), NEW b \in BOOLEAN
  PROVE  Holding(h, helmStatusUpdate([x EXCEPT !.m_has_control = b], ""), n, driving)
<1> DEFINE y == [x EXCEPT !.m_has_control = b]
           z == helmStatusUpdate(y, "")
<1>1. Fits(h, x)
  BY DEF Holding
<1>2. Fits(h, y) /\ Alike(x, y) /\ y.m_helm_status = x.m_helm_status
  BY <1>1, SetHolds
<1>3. y \in Member
  BY <1>2 DEF Fits
<1>4. Fits(h, z) /\ Alike(y, z) /\ (Enabled(z) <=> Enabled(y))
  <2> HIDE DEF y
  <2> QED BY <1>2, <1>3, UpdateFits, UpdateHolds
<1>5. Holding(h, y, n, driving)
  <2> HIDE DEF y
  <2> QED BY <1>2, SameHolds DEF Enabled
<1> QED
  <2> HIDE DEF y, z
  <2> QED BY <1>4, <1>5, SameHolds DEF z, y

LEMMA YieldHolds ==
  ASSUME NEW h \in Helms, h = "pHelmIvP", NEW x, NEW n, NEW driving, Holding(h, x, n, driving)
  PROVE  Holding(h, Yield(x), n, driving)
<1> DEFINE z == postAllStop(x, "DisabledByStandbyHelm")
           y == helmStatusUpdate(z, "DISABLED")
<1>1. Fits(h, x)
  BY DEF Holding
<1>2. "DisabledByStandbyHelm" \in Stops
  BY DEF Stops
<1>3. /\ Fits(h, z) /\ z.posts.IVPHELM_STATE = x.posts.IVPHELM_STATE
      /\ z.posts.DESIRED \in {x.posts.DESIRED, "zero"}
      /\ Enabled(x) /\ Tight(x, n) => z.posts.DESIRED = "zero"
  <2> HIDE DEF z
  <2> QED BY <1>1, <1>2, StopHolds DEF z
<1>4. Fits(h, y) /\ Alike(z, y)
  <2> HIDE DEF z
  <2>1. z \in Member
    BY <1>3 DEF Fits
  <2> QED BY <1>3, <2>1, UpdateFits, UpdateHolds
<1> QED
  <2> HIDE DEF y, z
  <2> QED BY <1>3, <1>4 DEF Holding, Alike, Yield, y, z

LEMMA HandleStateHolds ==
  ASSUME NEW h \in Helms, NEW x, NEW n, NEW driving, Holding(h, x, n, driving), NEW m
  PROVE  Holding(h, HandleState(h, x, m), n, driving)
<1>1. CASE h = "pHelmIvP"
  BY <1>1, YieldHolds DEF HandleState
<1>2. CASE h # "pHelmIvP" /\ x.m_helm_status = "STANDBY"
  <2> DEFINE y == [x EXCEPT !.m_standby_last_heartbeat = 0]
  <2>1. Fits(h, y) /\ Alike(x, y) /\ y.m_helm_status = x.m_helm_status
    BY SetHolds DEF Holding
  <2>2. HandleState(h, x, m) = y
    BY <1>2 DEF HandleState
  <2> HIDE DEF y
  <2> QED BY <2>1, <2>2, SameHolds DEF Enabled
<1>3. CASE h # "pHelmIvP" /\ x.m_helm_status # "STANDBY"
  <2> DEFINE z == postAllStop(x, "")
  <2>1. /\ Fits(h, z) /\ z.posts.IVPHELM_STATE = x.posts.IVPHELM_STATE
        /\ z.m_helm_status = x.m_helm_status
        /\ z.posts.DESIRED \in {x.posts.DESIRED, "zero"}
        /\ Enabled(x) /\ Tight(x, n) => z.posts.DESIRED = "zero" \/ Tight(z, n)
    <3>1. "" \in Stops /\ Fits(h, x)
      BY DEF Stops, Holding
    <3> HIDE DEF z
    <3> QED BY <3>1, StopHolds DEF z
  <2>2. HandleState(h, x, m) = z
    BY <1>3 DEF HandleState
  <2> HIDE DEF z
  <2> QED BY <2>1, <2>2 DEF Holding, Enabled
<1> QED BY <1>1, <1>2, <1>3

LEMMA RestartHolds ==
  ASSUME NEW h \in Helms, NEW x, NEW n, NEW driving, Holding(h, x, n, driving), ~NoReturn
  PROVE  Holding(h, OnStartUp(h, x), n, driving)
<1>1. Fits(h, x)
  BY DEF Holding
<1>2. CASE BehaviorsInMission
  <2> DEFINE y == [x EXCEPT !.m_helm_status = "MALCONFIG", !.m_has_control = FALSE]
  <2>1. Fits(h, y) /\ Alike(x, y) /\ OnStartUp(h, x) = y
    BY <1>1, <1>2, SetHolds DEF OnStartUp
  <2> HIDE DEF y
  <2> QED BY <2>1 DEF Holding, Alike
<1> DEFINE b == x.m_has_control \/ h \in StartInDrive
           y == [x EXCEPT !.m_has_control = b]
<1>3. Fits(h, y) /\ Alike(x, y) /\ y.m_helm_status = x.m_helm_status
  <2>1. b \in BOOLEAN
    BY <1>1 DEF Fits, Member
  <2> HIDE DEF b
  <2> QED BY <1>1, <2>1, SetHolds
<1>4. CASE ~BehaviorsInMission
  <2>1. OnStartUp(h, x) = IF h = "pHelmIvP" THEN y ELSE helmStatusUpdate(y, "STANDBY")
    BY <1>4 DEF OnStartUp
  <2> HIDE DEF y
  <2>2. CASE h = "pHelmIvP"
    BY <1>3, <2>1, <2>2, SameHolds DEF Enabled
  <2>3. CASE h # "pHelmIvP"
    <3> DEFINE z == helmStatusUpdate(y, "STANDBY")
    <3>1. y \in Member
      BY <1>3 DEF Fits
    <3>2. Fits(h, z) /\ Alike(y, z)
      BY <1>3, <2>3, <3>1, UpdateFits, UpdateHolds
    <3>3. OnStartUp(h, x) = z
      BY <2>1, <2>3
    <3> HIDE DEF z
    <3> QED BY <1>3, <3>2, <3>3 DEF Holding, Alike
  <2> QED BY <2>2, <2>3
<1> QED BY <1>2, <1>4

LEMMA HandleMailHolds ==
  ASSUME NEW h \in Helms, NEW x, NEW n, NEW driving, Holding(h, x, n, driving), NEW m \in Message
  PROVE  Holding(h, HandleMail(h, x, m), n, driving)
<1>1. CASE m \in StateMessage
  <2>1. m.var = "IVPHELM_STATE"
    BY <1>1 DEF StateMessage, Post
  <2>2. HandleMail(h, x, m) = IF m.from = h THEN x ELSE HandleState(h, x, m)
    BY <2>1 DEF HandleMail
  <2> QED BY <2>2, HandleStateHolds
<1>2. CASE m \notin StateMessage
  <2>1. PICK c \in Commands : m = Post(c[1], c[2], Operator)
    BY <1>2 DEF Message
  <2>2. m.var = c[1] /\ m.val = c[2]
    BY <2>1 DEF Post
  <2>3. \/ c = <<"MOOS_MANUAL_OVERRIDE", "TRUE">> \/ c = <<"MOOS_MANUAL_OVERRIDE", "FALSE">>
        \/ c = <<"RESTART_HELM", "TRUE">>
    BY HelmAssumption
  <2>4. CASE c = <<"MOOS_MANUAL_OVERRIDE", "FALSE">>
    <3>1. HandleMail(h, x, m) = helmStatusUpdate([x EXCEPT !.m_has_control = TRUE], "")
      BY <2>2, <2>4 DEF HandleMail
    <3> QED BY <3>1, ControlHolds
  <2>5. CASE c = <<"MOOS_MANUAL_OVERRIDE", "TRUE">>
    <3>1. HandleMail(h, x, m) =
            IF AllowOverride THEN helmStatusUpdate([x EXCEPT !.m_has_control = FALSE], "") ELSE x
      BY <2>2, <2>5 DEF HandleMail
    <3> QED BY <3>1, ControlHolds
  <2>6. CASE c = <<"RESTART_HELM", "TRUE">>
    <3>1. HandleMail(h, x, m) = OnStartUp(h, x)
      BY <2>2, <2>6 DEF HandleMail
    <3>2. ~NoReturn
      BY <2>6 DEF NoReturn
    <3> QED BY <3>1, <3>2, RestartHolds
  <2> QED BY <2>3, <2>4, <2>5, <2>6
<1> QED BY <1>1, <1>2

(* Reading all of the mail.                                                *)
LEMMA AfterMailHolds ==
  ASSUME NEW h \in Helms, mail[h] \in Seq(Message), NEW n, NEW driving,
         Holding(h, helm[h], n, driving)
  PROVE  Holding(h, AfterMail(h), n, driving)
<1> DEFINE k == Len(mail[h])
           A == {x \in Member : Holding(h, x, n, driving)}
           Step(x, i) == HandleMail(h, x, mail[h][i])
           g == [p \in (1 .. k) \X A |-> Step(p[2], p[1])]
           Loop(r) == r = [i \in 0 .. k |-> IF i = 0 THEN helm[h] ELSE Step(r[i - 1], i)]
<1>1. k \in Nat /\ helm[h] \in A
  BY DEF Holding, Fits
<1>2. ASSUME NEW x \in A, NEW i \in 1 .. k PROVE Step(x, i) \in A
  <2>1. mail[h][i] \in Message
    BY ElementOfSeq, <1>1
  <2>2. Holding(h, Step(x, i), n, driving)
    BY <2>1, HandleMailHolds
  <2>3. Step(x, i) \in Member
    BY <2>2 DEF Holding, Fits
  <2> QED BY <2>2, <2>3
<1>3. g \in [(1 .. k) \X A -> A]
  <2> HIDE DEF A, Step, k
  <2> QED BY <1>2
<1>4. PICK r \in [0 .. k -> A] : Rounds(r, k, helm[h], g)
  <2> HIDE DEF A, g, k
  <2> QED BY <1>1, <1>3, LoopExists
<1>5. \A i \in 1 .. k : r[i] = Step(r[i - 1], i)
  <2> SUFFICES ASSUME NEW i \in 1 .. k PROVE r[i] = Step(r[i - 1], i)
    OBVIOUS
  <2> HIDE DEF A, Step, k
  <2>1. i - 1 \in 0 .. k
    BY <1>1
  <2>2. <<i, r[i - 1]>> \in (1 .. k) \X A
    BY <2>1
  <2> QED BY <1>4, <2>2 DEF g, Rounds
<1>6. Loop(r)
  <2> HIDE DEF A, Step, k
  <2> QED BY <1>1, <1>4, <1>5 DEF Rounds
<1> DEFINE f == CHOOSE q : Loop(q)
<1>7. Loop(f)
  <2> HIDE DEF Loop
  <2> QED BY <1>6
<1>8. f[0] = helm[h] /\ \A i \in 1 .. k : f[i] = Step(f[i - 1], i)
  <2> HIDE DEF A, Step, k, f
  <2>1. 0 \in 0 .. k /\ \A i \in 1 .. k : i \in 0 .. k /\ i # 0
    BY <1>1
  <2> QED BY <1>7, <2>1
<1>9. \A i \in 0 .. k : f[i] \in A
  <2> DEFINE S == {i \in 0 .. k : f[i] \in A}
  <2>1. 0 \in S
    <3> HIDE DEF A, Step, k, f
    <3> QED BY <1>1, <1>8
  <2>2. ASSUME NEW i \in 1 .. k, i - 1 \in S PROVE i \in S
    <3> HIDE DEF A, Step, k, f
    <3> QED BY <1>1, <1>2, <1>8, <2>2
  <2>3. \A i \in 0 .. k : i \in S
    <3> HIDE DEF S, k
    <3> QED BY <1>1, <2>1, <2>2, UpTo
  <2> QED BY <2>3
<1>10. AfterMail(h) = f[k]
  BY DEF AfterMail
<1>11. f[k] \in A
  <2> HIDE DEF A, k, f
  <2> QED BY <1>1, <1>9
<1> QED
  <2> HIDE DEF f
  <2> QED BY <1>10, <1>11

LEMMA TakeOverHolds ==
  ASSUME NEW h \in Helms, NEW x, NEW n, NEW driving, Holding(h, x, n, driving)
  PROVE  Holding(h, checkForTakeOver(x), n, driving)
<1> DEFINE y == helmStatusUpdate(x, "ENABLED")
<1>1. Fits(h, x) /\ x \in Member
  BY DEF Holding, Fits
<1>2. Alike(x, y) /\ Enabled(y)
  BY <1>1, UpdateFits
<1>3. Fits(h, y)
  BY <1>1, UpdateHolds
<1>4. Holding(h, y, n, driving)
  <2> HIDE DEF y
  <2> QED BY <1>2, <1>3, SameHolds
<1>5. checkForTakeOver(x) \in {x, y}
  BY DEF checkForTakeOver
<1> QED
  <2> HIDE DEF y
  <2> QED BY <1>4, <1>5

(* postHelmStatus: only what the helm posts of its status changes.         *)
LEMMA ReportFits ==
  ASSUME NEW h \in Helms, NEW x, Fits(h, x)
  PROVE  LET y == postHelmStatus(x)
         IN  /\ Fits(h, y) /\ y.m_helm_status = x.m_helm_status
             /\ y.m_allstop_msg = x.m_allstop_msg /\ y.m_no_decisions = x.m_no_decisions
             /\ y.posts.DESIRED = x.posts.DESIRED
<1> DEFINE p == [x.posts EXCEPT !.IVPHELM_STATE = x.m_helm_status]
           d == x.disabledPosted \/ x.m_helm_status = "DISABLED"
           y == [x EXCEPT !.posts = p]
           z == [y EXCEPT !.disabledPosted = d]
<1>1. x \in Member /\ x.m_helm_status \in Statuses
  BY DEF Fits, Member
<1>2. /\ p \in [DESIRED : {"none", "zero", "drive"}, IVPHELM_STATE : Statuses \cup {"none"}]
      /\ p.DESIRED = x.posts.DESIRED
  BY <1>1 DEF Member
<1>3. d \in BOOLEAN
  BY <1>1 DEF Member
<1>4. /\ y \in Member /\ y.m_helm_status = x.m_helm_status
      /\ y.m_allstop_msg = x.m_allstop_msg /\ y.m_no_decisions = x.m_no_decisions
      /\ y.posts = p /\ y.disabledPosted = x.disabledPosted
  <2> HIDE DEF p
  <2> QED BY <1>1, <1>2 DEF Member
<1>5. /\ z \in Member /\ z.m_helm_status = y.m_helm_status
      /\ z.m_allstop_msg = y.m_allstop_msg /\ z.m_no_decisions = y.m_no_decisions
      /\ z.posts = y.posts
  <2> HIDE DEF y, d
  <2> QED BY <1>3, <1>4 DEF Member
<1>6. postHelmStatus(x) \in {x, z}
  <2>1. Notify(x, "IVPHELM_STATE", x.m_helm_status) = y
    BY DEF Notify
  <2> HIDE DEF p
  <2> QED BY <1>4, <2>1 DEF postHelmStatus
<1> QED
  <2> HIDE DEF y, z, p, d
  <2> QED BY <1>1, <1>2, <1>4, <1>5, <1>6 DEF Fits

(* The end of Iterate: c and e are the iterations since the last decision, *)
(* before and after this one.                                              *)
LEMMA SteeredHolds ==
  ASSUME NEW h \in Helms, NEW x, Fits(h, x), x.posts.DESIRED = "none",
         NEW decision \in Decisions, NEW c \in 0 .. 2, NEW e,
         e = IF Enabled(x) /\ x.m_has_control /\ decision = "clear" THEN 0
             ELSE IF c = 2 THEN 2 ELSE c + 1
  PROVE  LET y == Steered(x, decision)
         IN  /\ Fits(h, y)
             /\ y.posts.DESIRED = "drive" => Enabled(y) /\ Tight(y, e)
             /\ y.posts.DESIRED = "none" /\ Enabled(x) /\ Tight(x, c) =>
                  Enabled(y) /\ Tight(y, e)
<1> DEFINE y == Steered(x, decision)
<1>1. CASE ~Enabled(x)
  <2>1. y = x
    BY <1>1 DEF Steered
  <2> HIDE DEF y
  <2> QED BY <1>1, <2>1 DEF y
<1>2. CASE Enabled(x) /\ ~x.m_has_control
  <2> DEFINE z == postAllStop(x, "ManualOverride")
  <2>1. y = z
    BY <1>2 DEF Steered
  <2>2. "ManualOverride" \in Stops
    BY DEF Stops
  <2>3. Fits(h, z) /\ z.posts.DESIRED \in {"none", "zero"}
        /\ (Tight(x, c) => z.posts.DESIRED = "zero")
    <3> HIDE DEF z
    <3> QED BY <1>2, <2>2, StopHolds DEF z
  <2> HIDE DEF y, z
  <2> QED BY <2>1, <2>3 DEF y
<1>3. CASE Enabled(x) /\ x.m_has_control /\ decision = "clear"
  <2> DEFINE z == postAllStop(x, "clear")
             p == [z.posts EXCEPT !.DESIRED = "drive"]
             w == [z EXCEPT !.posts = p]
  <2>1. y = w /\ e = 0
    BY <1>3 DEF Steered, Decide, Notify
  <2>2. "clear" \in Stops
    BY DEF Stops
  <2>3. /\ Fits(h, z) /\ z.m_helm_status = x.m_helm_status
        /\ z.m_allstop_msg = "clear" /\ z.m_no_decisions = 0
    <3> HIDE DEF z
    <3> QED BY <1>3, <2>2, StopHolds DEF z
  <2>4. /\ p \in [DESIRED : {"none", "zero", "drive"}, IVPHELM_STATE : Statuses \cup {"none"}]
        /\ p.DESIRED = "drive"
    <3> HIDE DEF z
    <3> QED BY <2>3 DEF Fits, Member
  <2>5. /\ w \in Member /\ w.m_helm_status = z.m_helm_status
        /\ w.m_allstop_msg = z.m_allstop_msg /\ w.m_no_decisions = z.m_no_decisions
        /\ w.posts = p
    <3> HIDE DEF z, p
    <3> QED BY <2>3, <2>4 DEF Fits, Member
  <2>6. Fits(h, w) /\ Enabled(w) /\ Tight(w, 0)
    <3> HIDE DEF w, z, p
    <3> QED BY <1>3, <2>3, <2>5 DEF Fits, Enabled, Tight
  <2> HIDE DEF y, w
  <2> QED BY <2>1, <2>6 DEF y
<1>4. CASE Enabled(x) /\ x.m_has_control /\ decision # "clear"
  <2> DEFINE z == postAllStop(x, decision)
             w == [z EXCEPT !.m_has_control = FALSE]
  <2>1. y \in {z, w}
    BY <1>4 DEF Steered, Decide
  <2>2. decision \in {"BehaviorError"} \cup Undecided /\ decision \in Stops
    BY <1>4, HelmAssumption DEF Stops, Undecided
  <2>3. /\ Fits(h, z) /\ z.m_helm_status = x.m_helm_status
        /\ z.posts.DESIRED \in {"none", "zero"}
        /\ Tight(x, c) => \/ z.posts.DESIRED = "zero"
                          \/ /\ z.m_allstop_msg = "IncompleteOrEmptyDecision"
                             /\ z.m_no_decisions = 1 /\ c = 0
    <3> HIDE DEF z
    <3>1. CASE decision = "BehaviorError"
      BY <1>4, <2>2, <3>1, StopHolds DEF z
    <3>2. CASE decision \in Undecided
      BY <1>4, <2>2, <3>2, StopHolds DEF z
    <3> QED BY <2>2, <3>1, <3>2
  <2>4. Fits(h, w) /\ Alike(z, w) /\ w.m_helm_status = z.m_helm_status
    <3> HIDE DEF z
    <3> QED BY <2>3, SetHolds
  <2>5. e <= 1 \/ c # 0
    BY <1>4
  <2> HIDE DEF y, z, w
  <2>6. /\ Fits(h, y) /\ y.m_helm_status = x.m_helm_status
        /\ y.posts.DESIRED \in {"none", "zero"}
        /\ Tight(x, c) => \/ y.posts.DESIRED = "zero"
                          \/ /\ y.m_allstop_msg = "IncompleteOrEmptyDecision"
                             /\ y.m_no_decisions = 1 /\ c = 0
    BY <2>1, <2>3, <2>4 DEF Alike
  <2> QED BY <1>4, <2>5, <2>6 DEF Tight, Enabled, y
<1> QED BY <1>1, <1>2, <1>3, <1>4

------------------------------------------------------------------------------
(* Mail, and what a helm that changes leaves of the invariant.             *)

LEMMA ReceivedSeq ==
  ASSUME NEW q \in Seq(Message), NEW m \in Message
  PROVE  Received(q, m) \in Seq(Message)
BY AppendProperties DEF Received

LEMMA MailedFits ==
  ASSUME mail \in [Helms -> Seq(Message)], NEW m \in Message
  PROVE  Mailed(m) \in [Helms -> Seq(Message)]
<1>1. ASSUME NEW h \in Helms
      PROVE  (IF alive[h] THEN Received(mail[h], m) ELSE mail[h]) \in Seq(Message)
  BY ReceivedSeq
<1> QED BY <1>1 DEF Mailed

LEMMA LaunchedFits ==
  ASSUME NEW h \in Helms
  PROVE  /\ Fits(h, Launched(h)) /\ Launched(h).posts = NoPosts
         /\ Tight(Launched(h), 0)
         /\ h = "pHelmIvP" => Enabled(Launched(h))
<1> DEFINE s == IF h = "pHelmIvP" THEN "PARK" ELSE "STANDBY"
           x == [m_helm_status |-> s, m_has_control |-> h \in StartInDrive, m_allstop_msg |-> "",
                 m_no_decisions |-> 0, m_standby_last_heartbeat |-> Never,
                 disabledPosted |-> FALSE, posts |-> NoPosts]
<1>1. Launched(h) = x
  BY DEF Launched
<1>2. s \in Statuses /\ s \in StatusesOf(h)
  BY DEF Statuses, StatusesOf
<1>3. Never \in Never .. Threshold + 1
  BY HelmAssumption DEF Never
<1>4. NoPosts \in [DESIRED : {"none", "zero", "drive"}, IVPHELM_STATE : Statuses \cup {"none"}]
  BY DEF NoPosts
<1>5. x \in Member
  <2> HIDE DEF s
  <2>1. "" \in Messages /\ 0 \in 0 .. 2 /\ (h \in StartInDrive) \in BOOLEAN
    BY DEF Messages
  <2> DEFINE control == h \in StartInDrive
  <2> HIDE DEF control
  <2>2. control \in BOOLEAN
    BY <2>1 DEF control
  <2>3. [m_helm_status |-> s, m_has_control |-> control, m_allstop_msg |-> "",
         m_no_decisions |-> 0, m_standby_last_heartbeat |-> Never,
         disabledPosted |-> FALSE, posts |-> NoPosts] \in Member
    BY <1>2, <1>3, <1>4, <2>1, <2>2 DEF Member
  <2> QED BY <2>3 DEF control
<1>6. Fits(h, x) /\ x.posts = NoPosts /\ Tight(x, 0)
  <2> HIDE DEF s
  <2> QED BY <1>2, <1>5 DEF Fits, Tight
<1>7. h = "pHelmIvP" => Enabled(x)
  BY DEF Enabled
<1> QED
  <2> HIDE DEF x
  <2> QED BY <1>1, <1>6, <1>7

(* What a helm h that has become x, with n iterations since its decision,  *)
(* does to the types of helm and desired and to Steering.                  *)
LEMMA BecomesHolds ==
  ASSUME IInv, NEW h \in Helms, NEW x, Fits(h, x), Becomes(h, x),
         NEW n \in 0 .. 2, coasting' = [coasting EXCEPT ![h] = n], alive' = alive, alive[h],
         x.posts.DESIRED = "drive" => Enabled(x) /\ Tight(x, n),
         NoReturn /\ Driving(h) /\ x.posts.DESIRED = "none" => Enabled(x) /\ Tight(x, n)
  PROVE  /\ helm' \in [Helms -> Member] /\ alive' \in [Helms -> BOOLEAN]
         /\ \A g \in Helms : Fits(g, helm'[g]) /\ helm'[g].posts = NoPosts
         /\ desired'.val \in {"none", "zero", "drive"}
         /\ coasting' \in [Helms -> 0 .. 2]
         /\ NoReturn => Steering' /\ StandbyLives'
<1> DEFINE y == [x EXCEPT !.posts = NoPosts]
<1>1. /\ helm \in [Helms -> Member] /\ alive \in [Helms -> BOOLEAN]
      /\ coasting \in [Helms -> 0 .. 2] /\ desired.val \in {"none", "zero", "drive"}
      /\ \A g \in Helms : Fits(g, helm[g]) /\ helm[g].posts = NoPosts
  BY DEF IInv, TypeInv
<1>2. x \in Member
  BY DEF Fits
<1>3. NoPosts \in [DESIRED : {"none", "zero", "drive"}, IVPHELM_STATE : Statuses \cup {"none"}]
  BY DEF NoPosts
<1>4. /\ Fits(h, y) /\ y \in Member /\ y.posts = NoPosts
      /\ Enabled(x) => Enabled(y)
      /\ \A k : Tight(x, k) => Tight(y, k)
  BY <1>2, <1>3 DEF Fits, Member, Enabled, Tight
<1>5. helm' = [helm EXCEPT ![h] = y]
  BY DEF Becomes
<1>6. helm'[h] = y /\ \A g \in Helms \ {h} : helm'[g] = helm[g]
  <2> HIDE DEF y
  <2> QED BY <1>1, <1>5
<1>7. helm' \in [Helms -> Member]
  <2> HIDE DEF y
  <2> QED BY <1>1, <1>4, <1>5
<1>8. \A g \in Helms : Fits(g, helm'[g]) /\ helm'[g].posts = NoPosts
  <2> HIDE DEF y
  <2> QED BY <1>1, <1>4, <1>6
<1>9. x.posts.DESIRED \in {"none", "zero", "drive"}
  BY <1>2 DEF Member
<1>10. /\ desired' = IF x.posts.DESIRED = "none" THEN desired
                     ELSE Post("DESIRED", x.posts.DESIRED, h)
  BY DEF Becomes
<1>11. desired'.val \in {"none", "zero", "drive"}
  BY <1>1, <1>9, <1>10 DEF Post
<1>12. coasting' \in [Helms -> 0 .. 2] /\ coasting'[h] = n
       /\ \A g \in Helms \ {h} : coasting'[g] = coasting[g]
  BY <1>1
<1>13. ASSUME NoReturn PROVE Steering'
  <2> SUFFICES ASSUME NEW g \in Helms, alive[g], Driving(g)'
               PROVE  Enabled(helm'[g]) /\ Tight(helm'[g], coasting'[g])
    BY DEF Steering, Enabled, Tight
  <2>1. CASE g # h
    <3>1. Driving(g)
      BY <1>10, <2>1 DEF Driving, Post
    <3>2. Enabled(helm[g]) /\ Tight(helm[g], coasting[g])
      BY <3>1, <1>13 DEF IInv, Steering
    <3> QED BY <1>6, <1>12, <2>1, <3>2
  <2>2. CASE g = h
    <3>0. desired'.val = "drive" /\ desired' = Post("DESIRED", "drive", h)
      BY <2>2 DEF Driving, Post
    <3>1. \/ x.posts.DESIRED = "drive"
          \/ x.posts.DESIRED = "none" /\ Driving(h)
      <4>1. CASE x.posts.DESIRED = "none"
        BY <1>10, <3>0, <4>1 DEF Driving
      <4>2. CASE x.posts.DESIRED # "none"
        <5>1. desired'.val = x.posts.DESIRED
          BY <1>10, <4>2 DEF Post
        <5> QED BY <3>0, <5>1
      <4> QED BY <4>1, <4>2
    <3>2. Enabled(x) /\ Tight(x, n)
      BY <1>13, <3>1
    <3>3. Enabled(y) /\ Tight(y, n)
      <4> HIDE DEF y
      <4> QED BY <1>4, <3>2
    <3> HIDE DEF y
    <3> QED BY <1>6, <1>12, <2>2, <3>3
  <2> QED BY <2>1, <2>2
<1>14. ASSUME NoReturn PROVE StandbyLives'
  BY <1>14 DEF IInv, StandbyLives
<1> QED BY <1>1, <1>7, <1>8, <1>11, <1>12, <1>13, <1>14

------------------------------------------------------------------------------
(* The invariant, action by action.                                        *)

LEMMA InitInvariant == Init => IInv
<1> SUFFICES ASSUME Init PROVE IInv
  OBVIOUS
<1>1. helm = [h \in Helms |-> Launched(h)] /\ alive = [h \in Helms |-> TRUE]
      /\ mail = [h \in Helms |-> <<>>] /\ coasting = [h \in Helms |-> 0]
      /\ desired = Post("DESIRED", "none", Operator)
      /\ state = Post("IVPHELM_STATE", "none", Operator) /\ commands = 0 /\ crashes = 0
  BY DEF Init
<1>2. \A h \in Helms : Fits(h, Launched(h)) /\ Launched(h).posts = NoPosts
  BY LaunchedFits
<1>3. \A h \in Helms : Fits(h, helm[h]) /\ helm[h].posts = NoPosts
  BY <1>1, <1>2
<1>4. helm \in [Helms -> Member]
  BY <1>1, <1>2 DEF Fits
<1>5. mail \in [Helms -> Seq(Message)] /\ \A h \in Helms : Len(mail[h]) <= MaxMail
  <2>1. <<>> \in Seq(Message) /\ Len(<<>>) = 0
    BY EmptySeq
  <2> QED BY <1>1, <2>1, HelmAssumption
<1>6. commands \in 0 .. MaxCommands /\ crashes \in 0 .. MaxCrashes
  BY <1>1, HelmAssumption
<1>7. desired.val = "none"
  BY <1>1 DEF Post
<1>8. TypeInv
  BY <1>1, <1>3, <1>4, <1>5, <1>6, <1>7 DEF TypeInv
<1>9. Steering
  BY <1>7 DEF Steering, Driving, Post
<1>10. StandbyLives
  BY <1>1 DEF StandbyLives
<1> QED BY <1>8, <1>9, <1>10 DEF IInv

LEMMA OnNewMailStep ==
  ASSUME IInv, NEW h \in Helms, OnNewMail(h)
  PROVE  IInv'
<1>1. /\ helm \in [Helms -> Member] /\ mail \in [Helms -> Seq(Message)]
      /\ Fits(h, helm[h]) /\ helm[h].posts = NoPosts
      /\ \A g \in Helms : Len(mail[g]) <= MaxMail
      /\ coasting \in [Helms -> 0 .. 2]
      /\ state \in StateMessage \cup {Post("IVPHELM_STATE", "none", Operator)}
      /\ commands \in 0 .. MaxCommands /\ crashes \in 0 .. MaxCrashes
  BY DEF IInv, TypeInv
<1>2. /\ alive[h] /\ mail' = [mail EXCEPT ![h] = <<>>]
      /\ alive' = alive /\ state' = state /\ commands' = commands /\ crashes' = crashes
      /\ coasting' = coasting
  BY DEF OnNewMail
<1>3. mail' \in [Helms -> Seq(Message)] /\ \A g \in Helms : Len(mail'[g]) <= MaxMail
  <2>1. <<>> \in Seq(Message) /\ Len(<<>>) = 0
    BY EmptySeq
  <2> QED BY <1>1, <1>2, <2>1, HelmAssumption
<1>4. state' \in StateMessage \cup {Post("IVPHELM_STATE", "none", Operator)}
      /\ commands' \in 0 .. MaxCommands /\ crashes' \in 0 .. MaxCrashes
  BY <1>1, <1>2
<1>5. CASE helm[h].m_helm_status = "DISABLED"
  <2>1. helm' = helm /\ desired' = desired
    BY <1>5 DEF OnNewMail
  <2>2. TypeInv'
    BY <1>2, <1>3, <1>4, <2>1 DEF IInv, TypeInv
  <2>3. NoReturn => Steering' /\ StandbyLives'
    BY <1>2, <2>1 DEF IInv, Steering, StandbyLives, Driving
  <2> QED BY <2>2, <2>3 DEF IInv
<1>6. CASE helm[h].m_helm_status # "DISABLED"
  <2> DEFINE x == checkForTakeOver(AfterMail(h))
  <2>1. Becomes(h, x)
    BY <1>6 DEF OnNewMail
  <2>2. Holding(h, helm[h], coasting[h], Driving(h))
    BY <1>1, <1>2 DEF IInv, Steering, Holding, NoPosts
  <2>3. Holding(h, AfterMail(h), coasting[h], Driving(h))
    BY <1>1, <2>2, AfterMailHolds
  <2>4. Holding(h, x, coasting[h], Driving(h))
    BY <2>3, TakeOverHolds
  <2>5. /\ Fits(h, x) /\ x.posts.DESIRED # "drive"
        /\ NoReturn /\ Driving(h) /\ x.posts.DESIRED = "none" =>
             Enabled(x) /\ Tight(x, coasting[h])
    <3> HIDE DEF x
    <3> QED BY <2>4 DEF Holding
  <2>6. coasting' = [coasting EXCEPT ![h] = coasting[h]] /\ coasting[h] \in 0 .. 2
    BY <1>1, <1>2
  <2>7. /\ helm' \in [Helms -> Member] /\ alive' \in [Helms -> BOOLEAN]
        /\ \A g \in Helms : Fits(g, helm'[g]) /\ helm'[g].posts = NoPosts
        /\ desired'.val \in {"none", "zero", "drive"}
        /\ coasting' \in [Helms -> 0 .. 2]
        /\ NoReturn => Steering' /\ StandbyLives'
    <3> HIDE DEF x
    <3> QED BY <1>2, <2>1, <2>5, <2>6, BecomesHolds
  <2>8. TypeInv'
    BY <1>3, <1>4, <2>7 DEF TypeInv, Fits
  <2> QED BY <2>7, <2>8 DEF IInv
<1> QED BY <1>5, <1>6

LEMMA IterateStep ==
  ASSUME IInv, NEW h \in Helms, NEW decision \in Decisions, Iterate(h, decision)
  PROVE  IInv'
<1> DEFINE u == helmStatusUpdate(helm[h], "")
           x == postHelmStatus(u)
           y == Steered(x, decision)
           c == coasting[h]
           n == IF Enabled(x) /\ x.m_has_control /\ decision = "clear" THEN 0
                ELSE IF c = 2 THEN 2 ELSE c + 1
<1>1. /\ Fits(h, helm[h]) /\ helm[h].posts = NoPosts
      /\ mail \in [Helms -> Seq(Message)] /\ \A g \in Helms : Len(mail[g]) <= MaxMail
      /\ coasting \in [Helms -> 0 .. 2]
      /\ state \in StateMessage \cup {Post("IVPHELM_STATE", "none", Operator)}
      /\ commands \in 0 .. MaxCommands /\ crashes \in 0 .. MaxCrashes
  BY DEF IInv, TypeInv
<1>2. /\ alive[h] /\ alive' = alive /\ commands' = commands /\ crashes' = crashes
      /\ Becomes(h, y) /\ Reports(h, x)
      /\ coasting' = [coasting EXCEPT ![h] = n]
  BY DEF Iterate
<1>3. helm[h] \in Member
  BY <1>1 DEF Fits
<1>4. Fits(h, u) /\ Alike(helm[h], u) /\ (Enabled(u) <=> Enabled(helm[h]))
  BY <1>1, <1>3, UpdateFits, UpdateHolds
<1>5. /\ Fits(h, x) /\ x.posts.DESIRED = "none"
      /\ Enabled(x) <=> Enabled(helm[h])
      /\ x.m_allstop_msg = helm[h].m_allstop_msg
      /\ x.m_no_decisions = helm[h].m_no_decisions
  <2>1. u.posts.DESIRED = "none"
    <3> HIDE DEF u
    <3> QED BY <1>1, <1>4 DEF Alike, NoPosts
  <2> HIDE DEF u
  <2> QED BY <1>4, <2>1, ReportFits DEF Alike, Enabled
<1> HIDE DEF u, x
<1>6. c \in 0 .. 2 /\ n \in 0 .. 2
  <2>1. c \in 0 .. 2
    BY <1>1
  <2> QED BY <2>1
<1>7. /\ Fits(h, y)
      /\ y.posts.DESIRED = "drive" => Enabled(y) /\ Tight(y, n)
      /\ y.posts.DESIRED = "none" /\ Enabled(x) /\ Tight(x, c) => Enabled(y) /\ Tight(y, n)
  <2> HIDE DEF y, c
  <2> QED BY <1>5, <1>6, SteeredHolds DEF y
<1>8. NoReturn /\ Driving(h) => Enabled(x) /\ Tight(x, c)
  <2>1. NoReturn /\ Driving(h) => Enabled(helm[h]) /\ Tight(helm[h], c)
    BY <1>2 DEF IInv, Steering
  <2> QED BY <1>5, <2>1 DEF Tight
<1>9. /\ helm' \in [Helms -> Member] /\ alive' \in [Helms -> BOOLEAN]
      /\ \A g \in Helms : Fits(g, helm'[g]) /\ helm'[g].posts = NoPosts
      /\ desired'.val \in {"none", "zero", "drive"}
      /\ coasting' \in [Helms -> 0 .. 2]
      /\ NoReturn => Steering' /\ StandbyLives'
  <2> HIDE DEF y, n, c
  <2> QED BY <1>2, <1>6, <1>7, <1>8, BecomesHolds
<1>10. x.posts.IVPHELM_STATE \in Statuses \cup {"none"}
  BY <1>5 DEF Fits, Member
<1>11. /\ state' \in StateMessage \cup {Post("IVPHELM_STATE", "none", Operator)}
       /\ mail' \in [Helms -> Seq(Message)]
       /\ \A g \in Helms : Len(mail'[g]) <= MaxMail
  <2>1. CASE x.posts.IVPHELM_STATE # "none"
    <3>1. /\ state' = Post("IVPHELM_STATE", x.posts.IVPHELM_STATE, h)
          /\ mail' = Mailed(state') /\ WithinMail
      BY <1>2, <2>1 DEF Reports
    <3>2. state' \in StateMessage
      BY <1>10, <2>1, <3>1 DEF StateMessage
    <3>3. state' \in Message
      BY <3>2 DEF Message
    <3> QED BY <1>1, <3>1, <3>2, <3>3, MailedFits DEF WithinMail
  <2>2. CASE x.posts.IVPHELM_STATE = "none"
    BY <1>1, <1>2, <2>2 DEF Reports
  <2> QED BY <2>1, <2>2
<1>12. commands' \in 0 .. MaxCommands /\ crashes' \in 0 .. MaxCrashes
  BY <1>1, <1>2
<1>13. TypeInv'
  BY <1>9, <1>11, <1>12 DEF TypeInv, Fits
<1> QED BY <1>9, <1>13 DEF IInv

LEMMA CommandStep ==
  ASSUME IInv, NEW c \in Commands, Command(c[1], c[2])
  PROVE  IInv'
<1> DEFINE m == Post(c[1], c[2], Operator)
<1>1. m \in Message
  BY DEF Message
<1>2. /\ mail' = Mailed(m) /\ WithinMail /\ commands' = commands + 1 /\ commands < MaxCommands
      /\ helm' = helm /\ alive' = alive /\ desired' = desired /\ state' = state
      /\ crashes' = crashes /\ coasting' = coasting
  BY DEF Command
<1>3. mail' \in [Helms -> Seq(Message)] /\ \A g \in Helms : Len(mail'[g]) <= MaxMail
  <2> HIDE DEF m
  <2>1. mail \in [Helms -> Seq(Message)]
    BY DEF IInv, TypeInv
  <2> QED BY <1>1, <1>2, <2>1, MailedFits DEF WithinMail
<1>4. commands' \in 0 .. MaxCommands
  <2>1. commands \in 0 .. MaxCommands /\ MaxCommands \in Nat
    BY HelmAssumption DEF IInv, TypeInv
  <2> QED BY <1>2, <2>1
<1>5. TypeInv'
  BY <1>2, <1>3, <1>4 DEF IInv, TypeInv, Fits
<1> QED BY <1>2, <1>5 DEF IInv, Steering, StandbyLives, Driving

LEMMA TickStep ==
  ASSUME IInv, Tick
  PROVE  IInv'
<1> DEFINE t(g) == IF helm[g].m_standby_last_heartbeat \in 0 .. Threshold
                     THEN helm[g].m_standby_last_heartbeat + 1
                     ELSE helm[g].m_standby_last_heartbeat
           y(g) == [helm[g] EXCEPT !.m_standby_last_heartbeat = t(g)]
<1>1. /\ helm' = [g \in Helms |-> y(g)]
      /\ alive' = alive /\ mail' = mail /\ desired' = desired /\ state' = state
      /\ commands' = commands /\ crashes' = crashes /\ coasting' = coasting
  BY DEF Tick
<1>2. ASSUME NEW g \in Helms
      PROVE  /\ Fits(g, y(g)) /\ y(g).posts = NoPosts
             /\ y(g).m_helm_status = helm[g].m_helm_status
             /\ y(g).m_allstop_msg = helm[g].m_allstop_msg
             /\ y(g).m_no_decisions = helm[g].m_no_decisions
  <2>1. Fits(g, helm[g]) /\ helm[g].posts = NoPosts
    BY DEF IInv, TypeInv
  <2>2. helm[g].m_standby_last_heartbeat \in Never .. Threshold + 1
    BY <2>1 DEF Fits, Member
  <2>3. t(g) \in Never .. Threshold + 1
    BY <2>2, HelmAssumption DEF Never
  <2> HIDE DEF t
  <2> QED BY <2>1, <2>3 DEF Fits, Member
<1>3. \A g \in Helms : helm'[g] = y(g)
  BY <1>1
<1> HIDE DEF y, t
<1>4. helm' \in [Helms -> Member] /\ \A g \in Helms : Fits(g, helm'[g]) /\ helm'[g].posts = NoPosts
  BY <1>1, <1>2, <1>3 DEF Fits
<1>5. TypeInv'
  BY <1>1, <1>4 DEF IInv, TypeInv, Fits
<1>6. ASSUME NoReturn PROVE Steering' /\ StandbyLives'
  <2> SUFFICES ASSUME NEW g \in Helms, alive[g], Driving(g)
               PROVE  Enabled(helm'[g]) /\ Tight(helm'[g], coasting[g])
    BY <1>1, <1>6 DEF IInv, Steering, StandbyLives, Driving, Enabled, Tight
  <2>1. Enabled(helm[g]) /\ Tight(helm[g], coasting[g])
    BY <1>6 DEF IInv, Steering
  <2> QED BY <1>2, <1>3, <2>1 DEF Enabled, Tight
<1> QED BY <1>5, <1>6 DEF IInv

LEMMA CrashStep ==
  ASSUME IInv, NEW h \in Helms, h \in Crashing, Crash(h)
  PROVE  IInv'
<1>1. /\ alive' = [alive EXCEPT ![h] = FALSE] /\ mail' = [mail EXCEPT ![h] = <<>>]
      /\ crashes < MaxCrashes /\ crashes' = crashes + 1
      /\ helm' = helm /\ desired' = desired /\ state' = state /\ commands' = commands
      /\ coasting' = coasting
  BY DEF Crash
<1>2. /\ mail \in [Helms -> Seq(Message)] /\ \A g \in Helms : Len(mail[g]) <= MaxMail
      /\ alive \in [Helms -> BOOLEAN] /\ crashes \in 0 .. MaxCrashes
  BY DEF IInv, TypeInv
<1>3. mail' \in [Helms -> Seq(Message)] /\ \A g \in Helms : Len(mail'[g]) <= MaxMail
  <2>1. <<>> \in Seq(Message) /\ Len(<<>>) = 0
    BY EmptySeq
  <2> QED BY <1>1, <1>2, <2>1, HelmAssumption
<1>4. alive' \in [Helms -> BOOLEAN] /\ crashes' \in 0 .. MaxCrashes
  BY <1>1, <1>2, HelmAssumption
<1>5. TypeInv'
  BY <1>1, <1>3, <1>4 DEF IInv, TypeInv, Fits
<1>6. ASSUME NoReturn PROVE Steering' /\ StandbyLives'
  <2>1. h = "pHelmIvP"
    BY <1>6 DEF NoReturn
  <2> QED BY <1>1, <1>2, <1>6, <2>1 DEF IInv, Steering, StandbyLives, Driving
<1> QED BY <1>5, <1>6 DEF IInv

LEMMA LaunchStep ==
  ASSUME IInv, NEW h \in Helms, Launch(h)
  PROVE  IInv'
<1>1. /\ ~alive[h] /\ alive' = [alive EXCEPT ![h] = TRUE]
      /\ helm' = [helm EXCEPT ![h] = Launched(h)]
      /\ mail' = [mail EXCEPT ![h] = IF state.val = "none" THEN <<>> ELSE <<state>>]
      /\ coasting' = [coasting EXCEPT ![h] = 0]
      /\ desired' = desired /\ state' = state /\ commands' = commands /\ crashes' = crashes
  BY DEF Launch
<1>2. /\ helm \in [Helms -> Member] /\ alive \in [Helms -> BOOLEAN]
      /\ \A g \in Helms : Fits(g, helm[g]) /\ helm[g].posts = NoPosts
      /\ mail \in [Helms -> Seq(Message)] /\ \A g \in Helms : Len(mail[g]) <= MaxMail
      /\ coasting \in [Helms -> 0 .. 2]
      /\ state \in StateMessage \cup {Post("IVPHELM_STATE", "none", Operator)}
  BY DEF IInv, TypeInv
<1>3. /\ Fits(h, Launched(h)) /\ Launched(h).posts = NoPosts /\ Launched(h) \in Member
      /\ Tight(Launched(h), 0) /\ (h = "pHelmIvP" => Enabled(Launched(h)))
  BY LaunchedFits DEF Fits
<1>4. helm'[h] = Launched(h) /\ \A g \in Helms \ {h} : helm'[g] = helm[g]
  BY <1>1, <1>2
<1>5. /\ helm' \in [Helms -> Member] /\ alive' \in [Helms -> BOOLEAN]
      /\ \A g \in Helms : Fits(g, helm'[g]) /\ helm'[g].posts = NoPosts
      /\ coasting' \in [Helms -> 0 .. 2]
  BY <1>1, <1>2, <1>3, <1>4
<1>6. mail' \in [Helms -> Seq(Message)] /\ \A g \in Helms : Len(mail'[g]) <= MaxMail
  <2> DEFINE q == IF state.val = "none" THEN <<>> ELSE <<state>>
  <2>1. q \in Seq(Message) /\ Len(q) <= MaxMail
    <3>1. CASE state.val = "none"
      <4>1. q = <<>>
        BY <3>1
      <4> HIDE DEF q
      <4> QED BY <4>1, EmptySeq, HelmAssumption
    <3>2. CASE state.val # "none"
      <4>1. state \in Message
        BY <1>2, <3>2 DEF Message, Post
      <4>2. q = <<state>>
        BY <3>2
      <4>3. <<state>> \in Seq(Message) /\ Len(<<state>>) = 1
        BY <4>1
      <4> HIDE DEF q
      <4> QED BY <4>2, <4>3, HelmAssumption
    <3> QED BY <3>1, <3>2
  <2> HIDE DEF q
  <2> QED BY <1>1, <1>2, <2>1 DEF q
<1>7. TypeInv'
  BY <1>1, <1>5, <1>6 DEF IInv, TypeInv, Fits
<1>8. ASSUME NoReturn PROVE Steering' /\ StandbyLives'
  <2>1. h = "pHelmIvP"
    BY <1>1, <1>8 DEF IInv, StandbyLives
  <2>2. StandbyLives'
    BY <1>1, <1>2, <1>8 DEF IInv, StandbyLives
  <2>3. ASSUME NEW g \in Helms, alive'[g], Driving(g)
        PROVE  Enabled(helm'[g]) /\ Tight(helm'[g], coasting'[g])
    <3>1. CASE g = h
      BY <1>1, <1>2, <1>3, <1>4, <2>1, <3>1
    <3>2. CASE g # h
      <4>1. alive[g] /\ helm'[g] = helm[g] /\ coasting'[g] = coasting[g]
        BY <1>1, <1>2, <1>4, <2>3, <3>2
      <4>2. Enabled(helm[g]) /\ Tight(helm[g], coasting[g])
        BY <1>8, <2>3, <4>1 DEF IInv, Steering
      <4> QED BY <4>1, <4>2
    <3> QED BY <3>1, <3>2
  <2>4. Steering'
    BY <1>1, <2>3 DEF Steering, Driving, Enabled, Tight
  <2> QED BY <2>2, <2>4
<1> QED BY <1>7, <1>8 DEF IInv

LEMMA NextInvariant == IInv /\ [Next]_vars => IInv'
<1> SUFFICES ASSUME IInv, [Next]_vars PROVE IInv'
  OBVIOUS
<1>1. ASSUME NEW h \in Helms, OnNewMail(h) PROVE IInv'
  BY <1>1, OnNewMailStep
<1>2. ASSUME NEW h \in Helms, Launch(h) PROVE IInv'
  BY <1>2, LaunchStep
<1>3. ASSUME NEW h \in Helms, h \in Crashing, Crash(h) PROVE IInv'
  BY <1>3, CrashStep
<1>4. ASSUME NEW h \in Helms, NEW decision \in Decisions, Iterate(h, decision) PROVE IInv'
  BY <1>4, IterateStep
<1>5. ASSUME NEW c \in Commands, Command(c[1], c[2]) PROVE IInv'
  BY <1>5, CommandStep
<1>6. CASE Tick
  BY <1>6, TickStep
<1>7. CASE UNCHANGED vars
  BY <1>7 DEF vars, IInv, TypeInv, Steering, StandbyLives, Driving, Fits, Enabled, Tight
<1> QED BY <1>1, <1>2, <1>3, <1>4, <1>5, <1>6, <1>7 DEF Next

LEMMA Invariant == Spec => []IInv
BY InitInvariant, NextInvariant, PTL DEF Spec

(* The members of each helm, its mail, DESIRED and IVPHELM_STATE have      *)
(* their types: a standby helm is never DISABLED and the primary never on  *)
(* STANDBY, whatever they are told.                                        *)
THEOREM TypeCorrect == Spec => []TypeOK
<1>1. IInv => TypeOK
  <2> SUFFICES ASSUME IInv PROVE TypeOK
    OBVIOUS
  <2>1. TypeInv
    BY DEF IInv
  <2>2. ASSUME NEW h \in Helms
        PROVE  /\ helm[h].m_helm_status \in
                    IF h = "pHelmIvP" THEN Statuses \ {"STANDBY"} ELSE Statuses \ {"DISABLED"}
               /\ helm[h].m_has_control \in BOOLEAN
               /\ helm[h].m_allstop_msg \in Messages
               /\ helm[h].m_no_decisions \in 0 .. 2
               /\ helm[h].m_standby_last_heartbeat \in Never .. Threshold + 1
               /\ helm[h].disabledPosted \in BOOLEAN
               /\ helm[h].posts = NoPosts
               /\ coasting[h] \in 0 .. 2 /\ alive[h] \in BOOLEAN
               /\ Len(mail[h]) <= MaxMail
    <3>1. helm[h] \in Member /\ helm[h].m_helm_status \in StatusesOf(h)
      BY <2>1 DEF TypeInv, Fits
    <3>2. /\ helm[h].posts = NoPosts /\ coasting[h] \in 0 .. 2 /\ alive[h] \in BOOLEAN
          /\ Len(mail[h]) <= MaxMail
      BY <2>1 DEF TypeInv
    <3> QED BY <3>1, <3>2 DEF Member, StatusesOf
  <2>3. state.val \in Statuses \cup {"none"}
    BY <2>1 DEF TypeInv, StateMessage, Post
  <2> QED BY <2>1, <2>2, <2>3 DEF TypeInv, TypeOK, Messages
<1> QED BY <1>1, Invariant, PTL

(* While nobody restarts a helm and only the primary crashes, the vehicle  *)
(* goes on as it was for at most one iteration after the helm's last       *)
(* decision: no order of overrides, empty decisions, errors and messages   *)
(* of the other helm makes postAllStop keep the zeros back any longer.     *)
THEOREM HoldsOffOnce ==
  ASSUME NoReturn
  PROVE  Spec => []NeverCoasts
<1>1. IInv => NeverCoasts
  <2> SUFFICES ASSUME IInv, NEW h \in Helms, alive[h], Driving(h)
               PROVE  coasting[h] <= 1
    BY DEF NeverCoasts
  <2>1. Tight(helm[h], coasting[h])
    BY DEF IInv, Steering
  <2>2. coasting[h] = 0 \/ coasting[h] <= 1
    BY <2>1 DEF Tight
  <2> QED BY <2>2
<1> QED BY <1>1, Invariant, PTL

(* And a helm that parks for good, yields or fails has posted zeros first. *)
THEOREM LeavesZeros ==
  ASSUME NoReturn
  PROVE  Spec => []StopsWhenItQuits
<1>1. IInv => StopsWhenItQuits
  BY DEF IInv, Steering, StopsWhenItQuits
<1> QED BY <1>1, Invariant, PTL
=============================================================================
