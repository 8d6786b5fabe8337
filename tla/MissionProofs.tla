---------------------------- MODULE MissionProofs ----------------------------
(***************************************************************************)
(* Theorems about Mission, for any commands of the operator to the         *)
(* mission's variables, any number of cycles of the survey and any bounds. *)
(*                                                                         *)
(* The inductive invariant relates the helm's info buffer to the MOOSDB by *)
(* the mail in between (Agreed), and the mode to what it was evaluated     *)
(* from (Decided).  Every post of an iteration keeps Agreed, so the        *)
(* endflags do, however many there are (PostFlagsSound, by induction over  *)
(* their list).                                                            *)
(***************************************************************************)
EXTENDS Mission, TLAPS, NaturalsInduction, WellFoundedInduction, SequenceTheorems

Variables == DOMAIN Initial
Buffer == [Variables -> Values]
Post == Registered \X Values

(* What a helm that has read its mail would have is what the MOOSDB has.   *)
Agreed == \A v \in Registered : ValueAfter(info, mail, v) = db[v]

(* After an iteration without endflags the mode is the one its variables   *)
(* call for, and the one last posted.                                      *)
Decided == fresh => info.MODE = mode_set /\ info.MODE = ModeOf(info)

IInv == TypeOK /\ Agreed /\ Decided

(* The same of the three parts that posting changes.                       *)
Sound(x) ==
  /\ x \in [info : Buffer, db : Buffer, mail : Seq(Post)]
  /\ \A v \in Registered : ValueAfter(x.info, x.mail, v) = x.db[v]

------------------------------------------------------------------------------
(* Induction up to a bound, as a property of sets of numbers.              *)
LEMMA UpTo ==
  ASSUME NEW n \in Nat, NEW S, 0 \in S, \A i \in 1 .. n : i - 1 \in S => i \in S
  PROVE  \A i \in 0 .. n : i \in S
<1> DEFINE before == {ss \in Nat \X Nat : ss[1] < ss[2]}
           missing == {i \in 0 .. n : i \notin S}
<1>1. IsWellFoundedOn(before, Nat)
  BY NatLessThanWellFounded DEF OpToRel
<1>2. SUFFICES ASSUME missing # {} PROVE FALSE
  OBVIOUS
<1>3. missing \subseteq Nat
  OBVIOUS
<1>4. PICK k \in missing : \A j \in missing : <<j, k>> \notin before
  <2> HIDE DEF missing, before
  <2> QED BY <1>1, <1>2, <1>3, WFMin
<1>5. k \in 1 .. n
  OBVIOUS
<1>6. k - 1 \in Nat /\ k \in Nat /\ k - 1 < k /\ k - 1 \in 0 .. n
  BY <1>5
<1>7. k - 1 \notin missing
  BY <1>4, <1>6
<1> QED BY <1>5, <1>6, <1>7

(* What a loop with step g has done after each of its n rounds.            *)
Rounds(r, n, a, g) == r[0] = a /\ \A i \in 1 .. n : r[i] = g[<<i, r[i - 1]>>]

(* A loop that takes every step in A stays in A, and is a function.        *)
LEMMA LoopExists ==
  ASSUME NEW n \in Nat, NEW A, NEW a \in A, NEW g \in [(1 .. n) \X A -> A]
  PROVE  \E r \in [0 .. n -> A] : Rounds(r, n, a, g)
<1> DEFINE Upto(m) == \E r \in [0 .. m -> A] :
                         r[0] = a /\ \A i \in 1 .. m : r[i] = g[<<i, r[i - 1]>>]
           S == {m \in 0 .. n : Upto(m)}
<1>1. 0 \in S
  <2> DEFINE f == [i \in 0 .. 0 |-> a]
  <2>1. f \in [0 .. 0 -> A] /\ f[0] = a
    OBVIOUS
  <2>2. \A i \in 1 .. 0 : f[i] = g[<<i, f[i - 1]>>]
    OBVIOUS
  <2>3. 0 \in 0 .. n
    OBVIOUS
  <2>4. Upto(0)
    <3> HIDE DEF f
    <3> QED BY <2>1, <2>2
  <2> QED BY <2>3, <2>4
<1>2. ASSUME NEW m \in 1 .. n, m - 1 \in S PROVE m \in S
  <2>1. PICK r \in [0 .. m - 1 -> A] :
          r[0] = a /\ \A i \in 1 .. m - 1 : r[i] = g[<<i, r[i - 1]>>]
    BY <1>2
  <2> DEFINE s == [i \in 0 .. m |-> IF i = m THEN g[<<m, r[m - 1]>>] ELSE r[i]]
  <2>2. r[m - 1] \in A /\ g[<<m, r[m - 1]>>] \in A
    OBVIOUS
  <2>3. s \in [0 .. m -> A]
    BY <2>2
  <2>4. s[0] = a
    BY <2>1
  <2>5. ASSUME NEW i \in 1 .. m PROVE s[i] = g[<<i, s[i - 1]>>]
    <3>1. i - 1 \in 0 .. m - 1 /\ s[i - 1] = r[i - 1]
      OBVIOUS
    <3>2. CASE i = m
      <4>1. s[m] = g[<<m, r[m - 1]>>] OBVIOUS
      <4> HIDE DEF s
      <4> QED BY <4>1, <3>1, <3>2
    <3>3. CASE i # m
      <4>1. i \in 1 .. m - 1 BY <3>3
      <4> QED BY <4>1, <3>1, <3>3, <2>1
    <3> QED BY <3>2, <3>3
  <2>6. Upto(m)
    <3> HIDE DEF s
    <3> QED BY <2>3, <2>4, <2>5
  <2> QED BY <2>6
<1>3. n \in S
  <2> HIDE DEF S
  <2> QED BY <1>1, <1>2, UpTo
<1> QED BY <1>3 DEF Rounds

(* A set of positions in a list has a last one.                            *)
LEMMA MaxIsLast ==
  ASSUME NEW n \in Nat, NEW S \in SUBSET (1 .. n), S # {}
  PROVE  Max(S) \in S /\ \A i \in S : Max(S) >= i
<1> DEFINE before == {ss \in Nat \X Nat : ss[1] < ss[2]}
           left == {n - i : i \in S}
<1>1. IsWellFoundedOn(before, Nat)
  BY NatLessThanWellFounded DEF OpToRel
<1>2. left \subseteq Nat /\ left # {}
  <2>1. PICK i \in S : TRUE
    OBVIOUS
  <2>2. n - i \in left
    OBVIOUS
  <2>3. \A j \in 1 .. n : n - j \in Nat
    OBVIOUS
  <2> QED BY <2>2, <2>3
<1>3. PICK k \in left : \A j \in left : <<j, k>> \notin before
  <2> HIDE DEF left, before
  <2> QED BY <1>1, <1>2, WFMin
<1>4. PICK m \in S : k = n - m
  BY k \in left
<1>5. ASSUME NEW i \in S PROVE m >= i
  <2>1. n - i \in left /\ n - i \in Nat /\ k \in Nat
    OBVIOUS
  <2>2. ~(n - i < k)
    BY <1>3, <2>1
  <2> QED BY <2>2, <1>4
<1> QED BY <1>4, <1>5 DEF Max

------------------------------------------------------------------------------
(* What one more post does to what is learnt from the mail.                *)
LEMMA AfterAppend ==
  ASSUME NEW x, NEW m \in Seq(Post), NEW var, NEW val, NEW v
  PROVE  ValueAfter(x, Append(m, <<var, val>>), v)
           = IF v = var THEN val ELSE ValueAfter(x, m, v)
<1> DEFINE n == Len(m)
           am == Append(m, <<var, val>>)
           old == {i \in DOMAIN m : m[i][1] = v}
           new == {i \in DOMAIN am : am[i][1] = v}
<1>1. n \in Nat /\ DOMAIN m = 1 .. n /\ DOMAIN am = 1 .. n + 1
  OBVIOUS
<1>2. am[n + 1] = <<var, val>> /\ \A i \in 1 .. n : am[i] = m[i]
  OBVIOUS
<1>3. CASE v = var
  <2>1. n + 1 \in new
    BY <1>1, <1>2, <1>3
  <2>2. new \in SUBSET (1 .. n + 1) /\ new # {} /\ n + 1 \in Nat
    BY <1>1, <2>1
  <2>3. Max(new) \in new /\ Max(new) >= n + 1
    <3> HIDE DEF new, n
    <3> QED BY <2>1, <2>2, MaxIsLast
  <2>4. Max(new) = n + 1
    <3>1. Max(new) \in 1 .. n + 1
      BY <2>2, <2>3
    <3> HIDE DEF new, n
    <3> QED BY <2>3, <3>1, <1>1
  <2>5. am[Max(new)][2] = val
    <3> HIDE DEF new, n, am
    <3>1. am[Max(new)] = <<var, val>>
      BY <2>4, <1>2
    <3> QED BY <3>1
  <2> QED BY <2>2, <2>5, <1>3 DEF ValueAfter
<1>4. CASE v # var
  <2>1. new = old
    BY <1>1, <1>2, <1>4
  <2>2. CASE old = {}
    BY <2>1, <2>2, <1>4 DEF ValueAfter
  <2>3. CASE old # {}
    <3>1. old \in SUBSET (1 .. n)
      BY <1>1
    <3>2. Max(old) \in 1 .. n
      <4> HIDE DEF old, n
      <4> QED BY <1>1, <2>3, <3>1, MaxIsLast
    <3>3. am[Max(new)] = m[Max(old)]
      BY <3>2, <2>1, <1>2
    <3> QED BY <3>3, <2>1, <2>3, <1>4 DEF ValueAfter
  <2> QED BY <2>2, <2>3
<1> QED BY <1>3, <1>4

(* Only what the buffer has of a variable matters for it.                  *)
LEMMA AfterOther ==
  ASSUME NEW x, NEW y, NEW m, NEW v, x[v] = y[v]
  PROVE  ValueAfter(x, m, v) = ValueAfter(y, m, v)
BY DEF ValueAfter

(* What is learnt is a value.                                              *)
LEMMA AfterValue ==
  ASSUME NEW x \in Buffer, NEW m \in Seq(Post), NEW v \in Variables
  PROVE  ValueAfter(x, m, v) \in Values
<1> DEFINE about == {i \in DOMAIN m : m[i][1] = v}
<1>1. CASE about = {}
  BY <1>1 DEF ValueAfter, Buffer
<1>2. CASE about # {}
  <2>1. Len(m) \in Nat /\ about \in SUBSET (1 .. Len(m))
    OBVIOUS
  <2>2. Max(about) \in 1 .. Len(m)
    <3> HIDE DEF about
    <3> QED BY <1>2, <2>1, MaxIsLast
  <2>3. m[Max(about)] \in Post
    BY <2>2, ElementOfSeq
  <2> QED BY <1>2, <2>3 DEF ValueAfter, Post
<1> QED BY <1>1, <1>2

------------------------------------------------------------------------------
(* The types of what the mission file gives.                               *)
LEMMA Strings ==
  /\ Variables = {"DEPLOY", "RETURN", "REGION", "MODE", "MISSION"}
  /\ Registered \subseteq Variables
BY DEF Variables, Initial, Registered

(* A field more.                                                           *)
LEMMA AppendField ==
  ASSUME NEW a, NEW b, NEW c
  PROVE  /\ Append(<<>>, a) = <<a>> /\ Append(<<a>>, b) = <<a, b>>
         /\ Append(<<a, b>>, c) = <<a, b, c>>
<1> DEFINE E == {a, b, c}
<1>1. <<>> \in Seq(E) /\ <<a>> \in Seq(E) /\ <<a, b>> \in Seq(E) /\ <<a, b, c>> \in Seq(E)
  OBVIOUS
<1>2. Append(<<>>, a) = <<a>>
  BY <1>1, SeqEqual
<1>3. Append(<<a>>, b) = <<a, b>>
  <2>1. Append(<<a>>, b) \in Seq(E) /\ Len(Append(<<a>>, b)) = 2
    OBVIOUS
  <2>2. Append(<<a>>, b)[1] = a /\ Append(<<a>>, b)[2] = b
    OBVIOUS
  <2>3. \A i \in 1 .. 2 : Append(<<a>>, b)[i] = <<a, b>>[i]
    BY <2>2
  <2> QED BY <1>1, <2>1, <2>3, SeqEqual
<1>4. Append(<<a, b>>, c) = <<a, b, c>>
  <2>1. Append(<<a, b>>, c) \in Seq(E) /\ Len(Append(<<a, b>>, c)) = 3
    OBVIOUS
  <2>2. Append(<<a, b>>, c)[1] = a /\ Append(<<a, b>>, c)[2] = b /\ Append(<<a, b>>, c)[3] = c
    OBVIOUS
  <2>3. \A i \in 1 .. 3 : Append(<<a, b>>, c)[i] = <<a, b, c>>[i]
    BY <2>2
  <2> QED BY <1>1, <2>1, <2>3, SeqEqual
<1> QED BY <1>2, <1>3, <1>4

(* A condition on one variable.                                            *)
LEMMA HoldsOne ==
  ASSUME NEW x, NEW v, NEW t
  PROVE  Holds(x, {<<v, t>>}) <=> x[v] = t
BY DEF Holds

(* The mode set takes the buffer to the leaf that its variables call for.  *)
LEMMA EvaluateIsModeOf ==
  ASSUME NEW x \in Buffer
  PROVE  evaluate(x) = [x EXCEPT !.MODE = ModeOf(x)]
<1> DEFINE m1 == IF x.DEPLOY = True THEN <<"ACTIVE">> ELSE <<"INACTIVE">>
           m2 == IF x.DEPLOY # True THEN m1
                 ELSE IF x.RETURN = False THEN <<"ACTIVE", "SURVEY">>
                      ELSE <<"ACTIVE", "RETURNING">>
           set(m) == [x EXCEPT !.MODE = m]
           y == set(m1)
           z == set(m2)
<1>1. /\ Modes[1].prefix = <<>> /\ Modes[1].conditions = {<<"DEPLOY", True>>}
      /\ Modes[1].val = "ACTIVE" /\ Modes[1].else = "INACTIVE"
  BY DEF Modes
<1>2. /\ Modes[2].prefix = <<"ACTIVE">> /\ Modes[2].conditions = {<<"RETURN", False>>}
      /\ Modes[2].val = "SURVEY" /\ Modes[2].else = "RETURNING"
  BY DEF Modes
<1>3. /\ Modes[3].prefix = <<"ACTIVE", "SURVEY">>
      /\ Modes[3].conditions = {<<"REGION", <<"REGIONA">> >>}
      /\ Modes[3].val = "SURVEYA" /\ Modes[3].else = "SURVEYB"
  BY DEF Modes
<1>4. /\ Append(<<>>, "ACTIVE") = <<"ACTIVE">> /\ Append(<<>>, "INACTIVE") = <<"INACTIVE">>
      /\ Append(<<"ACTIVE">>, "SURVEY") = <<"ACTIVE", "SURVEY">>
      /\ Append(<<"ACTIVE">>, "RETURNING") = <<"ACTIVE", "RETURNING">>
      /\ Append(<<"ACTIVE", "SURVEY">>, "SURVEYA") = <<"ACTIVE", "SURVEY", "SURVEYA">>
      /\ Append(<<"ACTIVE", "SURVEY">>, "SURVEYB") = <<"ACTIVE", "SURVEY", "SURVEYB">>
  BY AppendField
<1>5. ASSUME NEW m
      PROVE  /\ set(m).MODE = m
             /\ set(m).DEPLOY = x.DEPLOY /\ set(m).RETURN = x.RETURN
             /\ set(m).REGION = x.REGION
             /\ \A n : [set(m) EXCEPT !.MODE = n] = set(n)
  BY Strings DEF Buffer
<1>6. <<"INACTIVE">> # <<"ACTIVE">>
  OBVIOUS
<1>7. evaluateEntry(x, Modes[1]) = y
  <2>1. Holds(x, Modes[1].conditions) <=> x.DEPLOY = True
    <3>1. Holds(x, {<<"DEPLOY", True>>}) <=> x.DEPLOY = True
      BY HoldsOne
    <3> QED BY <1>1, <3>1
  <2>2. IsMode(x, Modes[1].prefix)
    BY <1>1 DEF IsMode
  <2> HIDE DEF Modes
  <2> QED BY <1>1, <1>4, <2>1, <2>2 DEF evaluateEntry
<1>8. evaluateEntry(y, Modes[2]) = z
  <2>1. Holds(y, Modes[2].conditions) <=> x.RETURN = False
    <3> HIDE DEF y
    <3>1. y.RETURN = x.RETURN BY <1>5 DEF y
    <3>2. Holds(y, {<<"RETURN", False>>}) <=> y.RETURN = False
      BY HoldsOne
    <3> QED BY <1>2, <3>1, <3>2
  <2>2. IsMode(y, Modes[2].prefix) <=> x.DEPLOY = True
    <3>1. y.MODE = m1 BY <1>5
    <3>2. Modes[2].prefix # <<>> BY <1>2
    <3> QED BY <1>2, <1>6, <3>1, <3>2 DEF IsMode
  <2>3. \A n : [y EXCEPT !.MODE = n] = set(n)
    BY <1>5
  <2>4. CASE x.DEPLOY # True
    BY <2>2, <2>4 DEF evaluateEntry
  <2>5. CASE x.DEPLOY = True
    <3> HIDE DEF set, y
    <3> QED BY <1>2, <1>4, <2>1, <2>2, <2>3, <2>5 DEF evaluateEntry
  <2> QED BY <2>4, <2>5
<1>9. evaluateEntry(z, Modes[3]) = set(ModeOf(x))
  <2>1. Holds(z, Modes[3].conditions) <=> x.REGION = <<"REGIONA">>
    <3>1. z.REGION = x.REGION BY <1>5
    <3> HIDE DEF z
    <3>2. Holds(z, {<<"REGION", <<"REGIONA">> >>}) <=> z.REGION = <<"REGIONA">>
      BY HoldsOne
    <3> QED BY <1>3, <3>1, <3>2
  <2>2. IsMode(z, Modes[3].prefix) <=> (x.DEPLOY = True /\ x.RETURN = False)
    <3>1. z.MODE = m2
      <4> HIDE DEF m2, set
      <4> QED BY <1>5
    <3>2. Modes[3].prefix # <<>> BY <1>3
    <3>3. /\ <<"ACTIVE", "RETURNING">> # <<"ACTIVE", "SURVEY">>
          /\ <<"ACTIVE">> # <<"ACTIVE", "SURVEY">> /\ <<"INACTIVE">> # <<"ACTIVE", "SURVEY">>
      OBVIOUS
    <3>4. m2 = <<"ACTIVE", "SURVEY">> <=> (x.DEPLOY = True /\ x.RETURN = False)
      BY <3>3
    <3> HIDE DEF z, m2
    <3> QED BY <1>3, <3>1, <3>2, <3>4 DEF IsMode
  <2>3. \A n : [z EXCEPT !.MODE = n] = set(n)
    BY <1>5
  <2>4. CASE ~(x.DEPLOY = True /\ x.RETURN = False)
    <3>1. ModeOf(x) = m2
      BY <2>4 DEF ModeOf
    <3> HIDE DEF m2
    <3> QED BY <2>2, <2>4, <3>1 DEF evaluateEntry
  <2>5. CASE x.DEPLOY = True /\ x.RETURN = False
    <3>1. ModeOf(x) = <<"ACTIVE", "SURVEY",
                        IF x.REGION = <<"REGIONA">> THEN "SURVEYA" ELSE "SURVEYB">>
      BY <2>5 DEF ModeOf
    <3> HIDE DEF z, set
    <3> QED BY <1>3, <1>4, <2>1, <2>2, <2>3, <2>5, <3>1 DEF evaluateEntry
  <2> QED BY <2>4, <2>5
<1> QED
  <2> HIDE DEF y, z
  <2> QED BY <1>7, <1>8, <1>9 DEF evaluate

------------------------------------------------------------------------------
(* Posting keeps the helm's buffer in line with the MOOSDB.                *)
Buffers == [info : Buffer, db : Buffer, mail : Seq(Post)]

LEMMA DeliverFields ==
  ASSUME NEW x \in Buffers, NEW var \in Variables, NEW val \in Values
  PROVE  /\ Deliver(x, var, val) \in Buffers
         /\ Deliver(x, var, val).info = x.info
         /\ Deliver(x, var, val).db = [x.db EXCEPT ![var] = val]
         /\ Deliver(x, var, val).mail = IF var \in Registered THEN Append(x.mail, <<var, val>>)
                                        ELSE x.mail
<1> DEFINE ml == IF var \in Registered THEN Append(x.mail, <<var, val>>) ELSE x.mail
           d == [x.db EXCEPT ![var] = val]
<1>1. x.info \in Buffer /\ x.db \in Buffer /\ x.mail \in Seq(Post)
  BY DEF Buffers
<1>2. d \in Buffer
  BY <1>1 DEF Buffer
<1>3. ml \in Seq(Post)
  BY <1>1 DEF Post
<1>4. Deliver(x, var, val) = [x EXCEPT !.db = d, !.mail = ml]
  BY DEF Deliver
<1>5. Deliver(x, var, val) = [info |-> x.info, db |-> d, mail |-> ml]
  <2> HIDE DEF d, ml
  <2> QED BY <1>4 DEF Buffers
<1> QED
  <2> HIDE DEF d, ml
  <2>1. [info |-> x.info, db |-> d, mail |-> ml] \in Buffers
    BY <1>1, <1>2, <1>3 DEF Buffers
  <2> QED BY <1>5, <2>1 DEF d, ml

LEMMA PostFlagSound ==
  ASSUME NEW x, Sound(x), NEW var \in Variables \ {"MODE"}, NEW val \in Values
  PROVE  /\ Sound(PostFlag(x, var, val))
         /\ PostFlag(x, var, val).info.MODE = x.info.MODE
         /\ PostFlag(x, var, val).db.MODE = x.db.MODE
<1> DEFINE y == Deliver(x, var, val)
           z == PostFlag(x, var, val)
           k == [x.info EXCEPT ![var] = val]
<1>1. x \in Buffers
  BY DEF Sound, Buffers
<1>2. /\ y \in Buffers /\ y.info = x.info /\ y.db = [x.db EXCEPT ![var] = val]
      /\ y.mail = IF var \in Registered THEN Append(x.mail, <<var, val>>) ELSE x.mail
  BY <1>1, DeliverFields
<1>3. x.info \in Buffer /\ x.db \in Buffer /\ x.mail \in Seq(Post)
  BY <1>1 DEF Buffers
<1>4. k \in Buffer /\ k[var] = val /\ \A v \in Variables \ {var} : k[v] = x.info[v]
  BY <1>3 DEF Buffer
<1>5. z = [y EXCEPT !.info = k]
  <2> HIDE DEF y
  <2> QED BY <1>2 DEF PostFlag, y
<1>6. z \in Buffers /\ z.info = k /\ z.db = y.db /\ z.mail = y.mail
  <2> HIDE DEF k, y, z
  <2> QED BY <1>2, <1>4, <1>5 DEF Buffers
<1>7. /\ z.db[var] = val /\ \A v \in Variables \ {var} : z.db[v] = x.db[v]
  <2> HIDE DEF k, y, z
  <2> QED BY <1>2, <1>3, <1>6 DEF Buffer
<1>8. ASSUME NEW v \in Registered PROVE ValueAfter(z.info, z.mail, v) = z.db[v]
  <2> HIDE DEF k, y, z
  <2>0. v \in Variables /\ ValueAfter(x.info, x.mail, v) = x.db[v]
    BY Strings DEF Sound
  <2>1. CASE v = var
    <3>1. z.mail = Append(x.mail, <<var, val>>)
      BY <1>2, <1>6, <2>1
    <3> QED BY <1>3, <1>7, <2>1, <3>1, AfterAppend
  <2>2. CASE v # var
    <3>1. ValueAfter(z.info, x.mail, v) = ValueAfter(x.info, x.mail, v)
      BY <1>4, <1>6, <2>0, <2>2, AfterOther
    <3>2. CASE var \in Registered
      <4>1. z.mail = Append(x.mail, <<var, val>>)
        BY <1>2, <1>6, <3>2
      <4> QED BY <1>3, <1>7, <2>0, <2>2, <3>1, <4>1, AfterAppend
    <3>3. CASE var \notin Registered
      BY <1>2, <1>6, <1>7, <2>0, <2>2, <3>1, <3>3
    <3> QED BY <3>2, <3>3
  <2> QED BY <2>1, <2>2
<1>9. "MODE" \in Variables \ {var}
  BY Strings
<1> QED
  <2> HIDE DEF k, y, z
  <2>1. z.info["MODE"] = x.info["MODE"] /\ z.db["MODE"] = x.db["MODE"]
    BY <1>4, <1>6, <1>7, <1>9
  <2>2. Sound(z)
    BY <1>6, <1>8 DEF Sound, Buffers
  <2> QED BY <2>1, <2>2 DEF z

(* And so does any list of endflags.                                       *)
LEMMA PostFlagsSound ==
  ASSUME NEW x, Sound(x), NEW flags \in Seq((Variables \ {"MODE"}) \X Values)
  PROVE  /\ Sound(PostFlags(x, flags))
         /\ PostFlags(x, flags).info.MODE = x.info.MODE
         /\ PostFlags(x, flags).db.MODE = x.db.MODE
         /\ flags = <<>> => PostFlags(x, flags) = x
<1> DEFINE n == Len(flags)
           A == {y \in Buffers : /\ Sound(y) /\ y.info.MODE = x.info.MODE
                                 /\ y.db.MODE = x.db.MODE}
           Step(y, i) == PostFlag(y, flags[i][1], flags[i][2])
           g == [p \in (1 .. n) \X A |-> Step(p[2], p[1])]
           Loop(r) == r = [i \in 0 .. n |-> IF i = 0 THEN x ELSE Step(r[i - 1], i)]
<1>1. n \in Nat /\ x \in A
  BY DEF Sound, Buffers
<1>2. ASSUME NEW y \in A, NEW i \in 1 .. n PROVE Step(y, i) \in A
  <2>1. flags[i] \in (Variables \ {"MODE"}) \X Values
    BY ElementOfSeq, <1>1
  <2>2. flags[i][1] \in Variables \ {"MODE"} /\ flags[i][2] \in Values
    BY <2>1
  <2>3. Sound(y) /\ y.info.MODE = x.info.MODE /\ y.db.MODE = x.db.MODE
    OBVIOUS
  <2>4. /\ Sound(Step(y, i)) /\ Step(y, i).info.MODE = y.info.MODE
        /\ Step(y, i).db.MODE = y.db.MODE
    BY <2>2, <2>3, PostFlagSound
  <2>5. Step(y, i) \in Buffers
    BY <2>4 DEF Sound, Buffers
  <2> QED BY <2>3, <2>4, <2>5
<1>3. g \in [(1 .. n) \X A -> A]
  <2> HIDE DEF A, Step, n
  <2> QED BY <1>2
<1>4. PICK r \in [0 .. n -> A] : Rounds(r, n, x, g)
  <2> HIDE DEF A, g, n
  <2> QED BY <1>1, <1>3, LoopExists
<1>5. \A i \in 1 .. n : r[i] = Step(r[i - 1], i)
  <2> SUFFICES ASSUME NEW i \in 1 .. n PROVE r[i] = Step(r[i - 1], i)
    OBVIOUS
  <2> HIDE DEF A, Step, n
  <2>1. i - 1 \in 0 .. n
    BY <1>1
  <2>2. <<i, r[i - 1]>> \in (1 .. n) \X A
    BY <2>1
  <2> QED BY <1>4, <2>2 DEF g, Rounds
<1>6. Loop(r)
  <2> HIDE DEF A, Step, n
  <2> QED BY <1>1, <1>4, <1>5 DEF Rounds
<1> DEFINE f == CHOOSE q : Loop(q)
<1>7. Loop(f)
  <2> HIDE DEF Loop
  <2> QED BY <1>6
<1>0. f[0] = x /\ \A i \in 1 .. n : f[i] = Step(f[i - 1], i)
  <2> HIDE DEF A, Step, n, f
  <2>1. 0 \in 0 .. n /\ \A i \in 1 .. n : i \in 0 .. n /\ i # 0
    BY <1>1
  <2> QED BY <1>7, <2>1
<1>8. \A i \in 0 .. n : f[i] \in A
  <2> DEFINE S == {i \in 0 .. n : f[i] \in A}
  <2>2. 0 \in S
    <3> HIDE DEF A, Step, n, f
    <3> QED BY <1>0, <1>1
  <2>3. ASSUME NEW i \in 1 .. n, i - 1 \in S PROVE i \in S
    <3> HIDE DEF A, Step, n, f
    <3> QED BY <1>0, <1>1, <1>2, <2>3
  <2>4. \A i \in 0 .. n : i \in S
    <3> HIDE DEF S, n
    <3> QED BY <1>1, <2>2, <2>3, UpTo
  <2> QED BY <2>4
<1>9. PostFlags(x, flags) = f[n]
  BY DEF PostFlags
<1>10. f[n] \in A
  <2> HIDE DEF A, n, f
  <2> QED BY <1>1, <1>8
<1>11. flags = <<>> => PostFlags(x, flags) = x
  <2> SUFFICES ASSUME flags = <<>> PROVE f[n] = x
    BY <1>9
  <2>1. n = 0
    OBVIOUS
  <2> HIDE DEF f, n
  <2> QED BY <1>0, <2>1
<1> QED
  <2> HIDE DEF f
  <2> QED BY <1>9, <1>10, <1>11

------------------------------------------------------------------------------
(* The endflags.                                                           *)

LEMMA FlattenSeqIsSeq ==
  ASSUME NEW F, NEW s \in Seq(Seq(F)), Len(s) > 0
  PROVE  FlattenSeq(s) \in Seq(F)
<1> DEFINE n == Len(s)
           A == Seq(F)
           g == [p \in (1 .. n - 1) \X A |-> p[2] \o s[p[1] + 1]]
           Loop(r) == r = [i \in 1 .. n |-> IF i = 1 THEN s[i] ELSE r[i - 1] \o s[i]]
<1>1. n \in Nat /\ n > 0 /\ n - 1 \in Nat /\ \A i \in 1 .. n : s[i] \in A
  BY ElementOfSeq
<1>2. g \in [(1 .. n - 1) \X A -> A]
  <2>1. ASSUME NEW i \in 1 .. n - 1, NEW y \in A PROVE y \o s[i + 1] \in A
    <3>1. s[i + 1] \in A
      <4> HIDE DEF A, n
      <4> QED BY <1>1
    <3> QED BY <3>1
  <2> HIDE DEF A, n
  <2> QED BY <2>1
<1>3. PICK r \in [0 .. n - 1 -> A] : Rounds(r, n - 1, s[1], g)
  <2>1. s[1] \in A
    <3> HIDE DEF A, n
    <3> QED BY <1>1
  <2> HIDE DEF A, g, n
  <2> QED BY <1>1, <1>2, <2>1, LoopExists
<1> DEFINE q == [i \in 1 .. n |-> r[i - 1]]
<1>4. Loop(q)
  <2>1. ASSUME NEW i \in 1 .. n PROVE q[i] = IF i = 1 THEN s[i] ELSE q[i - 1] \o s[i]
    <3> HIDE DEF n
    <3>1. CASE i = 1
      BY <1>1, <1>3, <3>1 DEF Rounds
    <3>2. CASE i # 1
      <4>1. i - 1 \in 1 .. n - 1 /\ i - 1 \in 1 .. n /\ i - 1 - 1 \in 0 .. n - 1
        BY <1>1, <3>2
      <4>2. r[i - 1] = g[<<i - 1, r[i - 1 - 1]>>]
        BY <1>3, <4>1 DEF Rounds
      <4>3. <<i - 1, r[i - 1 - 1]>> \in (1 .. n - 1) \X A
        <5> HIDE DEF A
        <5> QED BY <4>1
      <4>4. g[<<i - 1, r[i - 1 - 1]>>] = r[i - 1 - 1] \o s[i - 1 + 1]
        <5> HIDE DEF A
        <5> QED BY <4>3
      <4>5. q[i] = r[i - 1] /\ q[i - 1] = r[i - 1 - 1] /\ i - 1 + 1 = i
        BY <4>1
      <4> HIDE DEF q, g
      <4> QED BY <3>2, <4>2, <4>4, <4>5
    <3> QED BY <3>1, <3>2
  <2>2. q = [i \in 1 .. n |-> q[i]]
    OBVIOUS
  <2> HIDE DEF q, n
  <2> QED BY <2>1, <2>2
<1> DEFINE f == CHOOSE h : Loop(h)
<1>5. Loop(f)
  <2> HIDE DEF Loop
  <2> QED BY <1>4
<1>6. \A i \in 0 .. n - 1 : f[i + 1] \in A
  <2> DEFINE S == {i \in 0 .. n - 1 : f[i + 1] \in A}
  <2>1. f[1] = s[1] /\ \A i \in 1 .. n - 1 : f[i + 1] = f[i] \o s[i + 1]
    <3> HIDE DEF A, n, f
    <3>1. 1 \in 1 .. n /\ \A i \in 1 .. n - 1 : i + 1 \in 1 .. n /\ i + 1 # 1 /\ i + 1 - 1 = i
      BY <1>1
    <3>2. \A i \in 1 .. n : f[i] = IF i = 1 THEN s[i] ELSE f[i - 1] \o s[i]
      BY <1>5
    <3>3. ASSUME NEW i \in 1 .. n - 1 PROVE f[i + 1] = f[i] \o s[i + 1]
      <4> DEFINE j == i + 1
      <4>1. j \in 1 .. n /\ j # 1 /\ j - 1 = i
        BY <3>1
      <4> HIDE DEF j
      <4>2. f[j] = f[j - 1] \o s[j]
        BY <3>2, <4>1
      <4>3. f[j] = f[i] \o s[j]
        BY <4>1, <4>2
      <4> QED BY <4>3 DEF j
    <3> QED BY <3>1, <3>2, <3>3
  <2>2. 0 \in S
    <3> HIDE DEF A, n, f
    <3> QED BY <1>1, <2>1
  <2>3. ASSUME NEW i \in 1 .. n - 1, i - 1 \in S PROVE i \in S
    <3> HIDE DEF n, f
    <3>1. i + 1 \in 1 .. n /\ i - 1 + 1 = i /\ i \in 0 .. n - 1
      BY <1>1
    <3>0. f[i - 1 + 1] \in Seq(F)
      BY <2>3
    <3>2. f[i] \in Seq(F) /\ s[i + 1] \in Seq(F)
      BY <1>1, <3>0, <3>1
    <3>3. f[i] \o s[i + 1] \in Seq(F)
      BY <3>2
    <3>4. f[i + 1] \in A
      BY <2>1, <3>3
    <3> QED BY <3>1, <3>4
  <2>4. \A i \in 0 .. n - 1 : i \in S
    <3> HIDE DEF S, n
    <3> QED BY <1>1, <2>2, <2>3, UpTo
  <2> QED BY <2>4
<1>7. FlattenSeq(s) = f[n]
  BY <1>1 DEF FlattenSeq
<1>8. f[n] \in A
  <2> HIDE DEF A, n, f
  <2>1. n - 1 \in 0 .. n - 1 /\ n - 1 + 1 = n
    BY <1>1
  <2> QED BY <1>6, <2>1
<1> QED BY <1>7, <1>8

LEMMA EndflagsTyped ==
  /\ DOMAIN Behaviors = 1 .. 4
  /\ \A i \in 1 .. 4 : Behaviors[i].endflags \in Seq((Variables \ {"MODE"}) \X Values)
<1> DEFINE F == (Variables \ {"MODE"}) \X Values
<1>1. DOMAIN Behaviors = 1 .. 4
  BY DEF Behaviors
<1>2. /\ <<"RETURN", <<"TRUE">> >> \in F /\ <<"RETURN", False>> \in F
      /\ <<"DEPLOY", False>> \in F /\ <<"MISSION", <<"complete">> >> \in F
  BY Strings DEF Values
<1>3. /\ Behaviors[1].endflags = << <<"RETURN", <<"TRUE">> >> >>
      /\ Behaviors[2].endflags =
           << <<"RETURN", False>>, <<"DEPLOY", False>>, <<"MISSION", <<"complete">> >> >>
      /\ Behaviors[3].endflags = <<>> /\ Behaviors[4].endflags = <<>>
  BY DEF Behaviors
<1>4. \A i \in 1 .. 4 : Behaviors[i].endflags \in Seq(F)
  <2> HIDE DEF F
  <2> SUFFICES ASSUME NEW i \in 1 .. 4 PROVE Behaviors[i].endflags \in Seq(F)
    OBVIOUS
  <2>1. i = 1 \/ i = 2 \/ i = 3 \/ i = 4
    OBVIOUS
  <2>2. \A a, b, c : a \in F /\ b \in F /\ c \in F =>
          <<>> \in Seq(F) /\ <<a>> \in Seq(F) /\ <<a, b, c>> \in Seq(F)
    OBVIOUS
  <2> QED BY <1>2, <1>3, <2>1, <2>2
<1> QED BY <1>1, <1>4

LEMMA FlagsTyped ==
  ASSUME NEW completed
  PROVE  LET flags == FlattenSeq([i \in DOMAIN Behaviors |->
                         IF i \in completed THEN Behaviors[i].endflags ELSE <<>>])
         IN  /\ flags \in Seq((Variables \ {"MODE"}) \X Values)
             /\ completed = {} => flags = <<>>
<1> DEFINE F == (Variables \ {"MODE"}) \X Values
           s == [i \in 1 .. 4 |-> IF i \in completed THEN Behaviors[i].endflags ELSE <<>>]
<1>1. s = [i \in DOMAIN Behaviors |-> IF i \in completed THEN Behaviors[i].endflags ELSE <<>>]
  BY EndflagsTyped
<1>2. s \in Seq(Seq(F)) /\ Len(s) = 4
  <2>1. ASSUME NEW i \in 1 .. 4
        PROVE  (IF i \in completed THEN Behaviors[i].endflags ELSE <<>>) \in Seq(F)
    <3>1. Behaviors[i].endflags \in Seq(F) /\ <<>> \in Seq(F)
      BY EndflagsTyped
    <3> QED BY <3>1
  <2> HIDE DEF F
  <2> QED BY <2>1, IsASeq
<1>3. FlattenSeq(s) \in Seq(F)
  <2> HIDE DEF s, F
  <2> QED BY <1>2, FlattenSeqIsSeq
<1>4. completed = {} => FlattenSeq(s) = <<>>
  <2> SUFFICES ASSUME completed = {} PROVE FlattenSeq(s) = <<>>
    OBVIOUS
  <2>1. s \in Seq(Seq({}))
    <3>1. \A i \in 1 .. 4 : s[i] \in Seq({})
      OBVIOUS
    <3> QED BY <3>1, IsASeq
  <2>2. FlattenSeq(s) \in Seq({})
    <3> HIDE DEF s
    <3> QED BY <1>2, <2>1, FlattenSeqIsSeq
  <2> DEFINE t == FlattenSeq(s)
  <2>3. \A i \in 1 .. Len(t) : t[i] \in {}
    BY <2>2, ElementOfSeq
  <2>4. Len(t) \in Nat
    BY <2>2
  <2> HIDE DEF t
  <2>5. Len(t) = 0
    BY <2>3, <2>4
  <2> QED BY <2>2, <2>5 DEF t
<1> QED
  <2> HIDE DEF s, F
  <2> QED BY <1>1, <1>3, <1>4 DEF F

------------------------------------------------------------------------------
(* The steps.                                                              *)

(* The bounds are numbers.                                                 *)
LEMMA Bounds == Repeats \in Nat /\ MaxCommands \in Nat /\ MaxMail \in Nat
BY MissionAssumption

LEMMA ModeOfValue == \A x : ModeOf(x) \in Values /\ ModeOf(x) # Unknown
BY DEF ModeOf, Values, Unknown

(* Only the mode's own variables decide it.                                *)
LEMMA ModeOfSame ==
  ASSUME NEW x, NEW y, x.DEPLOY = y.DEPLOY, x.RETURN = y.RETURN, x.REGION = y.REGION
  PROVE  ModeOf(x) = ModeOf(y)
BY DEF ModeOf

LEMMA InitInvariant == Init => IInv
<1> SUFFICES ASSUME Init PROVE IInv
  OBVIOUS
<1>1. Initial \in [DOMAIN Initial -> Values]
  BY DEF Initial, Values
<1>2. <<>> \in Seq(Registered \X Values) /\ Len(<<>>) = 0
  OBVIOUS
<1>3. Initial.MODE = Unknown
  BY DEF Initial
<1>4. TypeOK
  <2>1. 0 \in 0 .. Repeats /\ 0 \in 0 .. 2 /\ 0 \in 0 .. MaxCommands /\ 0 <= MaxMail
    BY Bounds
  <2>2. mode_set = db.MODE
    BY <1>3 DEF Init
  <2> QED BY <1>1, <1>2, <2>1, <2>2 DEF Init, TypeOK
<1>5. Agreed
  BY DEF Init, Agreed, ValueAfter
<1> QED BY <1>4, <1>5 DEF IInv, Decided, Init

(* What is posted about the mode leaves the buffers in line.               *)
LEMMA ModePosted ==
  ASSUME IInv, NEW moded, moded = evaluate(info),
         NEW x, x = postModeMessages([info |-> moded, db |-> db, mail |-> mail])
  PROVE  /\ Sound(x) /\ x.info = moded /\ x.db.MODE = moded.MODE
         /\ moded.MODE = ModeOf(moded)
<1> DEFINE w == [info |-> moded, db |-> db, mail |-> mail]
           y == Deliver(w, "MODE", moded.MODE)
<1>0. info \in Buffer /\ db \in Buffer /\ mail \in Seq(Post) /\ mode_set = db.MODE
  BY DEF IInv, TypeOK, Buffer, Variables, Post
<1>1. moded = [info EXCEPT !.MODE = ModeOf(info)]
  BY <1>0, EvaluateIsModeOf
<1>2. /\ moded \in Buffer /\ moded.MODE = ModeOf(info)
      /\ \A v \in Variables \ {"MODE"} : moded[v] = info[v]
  BY <1>0, <1>1, ModeOfValue, Strings DEF Buffer
<1>3. moded.MODE = ModeOf(moded)
  <2>1. /\ moded["DEPLOY"] = info["DEPLOY"] /\ moded["RETURN"] = info["RETURN"]
        /\ moded["REGION"] = info["REGION"]
    BY <1>2, Strings
  <2>2. ModeOf(moded) = ModeOf(info)
    <3>1. moded.DEPLOY = info.DEPLOY /\ moded.RETURN = info.RETURN /\ moded.REGION = info.REGION
      BY <2>1
    <3> QED BY <3>1, ModeOfSame
  <2> QED BY <1>2, <2>2
<1>4. w \in Buffers /\ w.info = moded /\ w.db = db /\ w.mail = mail
  BY <1>0, <1>2 DEF Buffers
<1>5. ASSUME NEW v \in Registered \ {"MODE"} PROVE ValueAfter(moded, mail, v) = db[v]
  <2>1. moded[v] = info[v]
    BY <1>2, Strings
  <2>2. ValueAfter(info, mail, v) = db[v]
    BY DEF IInv, Agreed
  <2> QED BY <2>1, <2>2, AfterOther
<1>6. CASE moded.MODE = mode_set
  <2>1. x = w
    <3> HIDE DEF w
    <3> QED BY <1>4, <1>6 DEF postModeMessages, w
  <2>2. ASSUME NEW v \in Registered PROVE ValueAfter(moded, mail, v) = db[v]
    <3>1. CASE v = "MODE"
      <4>1. ValueAfter(info, mail, v) = db[v]
        BY DEF IInv, Agreed
      <4>2. CASE {i \in DOMAIN mail : mail[i][1] = v} = {}
        <5>1. moded["MODE"] = db["MODE"]
          BY <1>0, <1>6
        <5> QED BY <3>1, <4>2, <5>1 DEF ValueAfter
      <4>3. CASE {i \in DOMAIN mail : mail[i][1] = v} # {}
        BY <4>1, <4>3 DEF ValueAfter
      <4> QED BY <4>2, <4>3
    <3> QED BY <1>5, <3>1
  <2>3. Sound(x)
    <3> HIDE DEF w
    <3> QED BY <2>1, <2>2, <1>4 DEF Sound, Buffers
  <2>4. x.info = moded /\ x.db = db
    BY <2>1, <1>4
  <2> QED BY <2>3, <2>4, <1>0, <1>3, <1>6
<1>7. CASE moded.MODE # mode_set
  <2>1. x = y
    <3> HIDE DEF w
    <3> QED BY <1>4, <1>7 DEF postModeMessages, w
  <2>0. "MODE" \in Variables /\ "MODE" \in Registered
    BY Strings DEF Registered
  <2>2. /\ y \in Buffers /\ y.info = moded /\ y.db = [db EXCEPT !["MODE"] = moded.MODE]
        /\ y.mail = Append(mail, <<"MODE", moded.MODE>>)
    <3>1. moded.MODE \in Values
      BY <1>2, ModeOfValue
    <3> HIDE DEF w
    <3> QED BY <1>4, <2>0, <3>1, DeliverFields
  <2>3. y.db["MODE"] = moded.MODE /\ \A v \in Registered \ {"MODE"} : y.db[v] = db[v]
    <3> HIDE DEF y
    <3> QED BY <2>0, <2>2, <1>0, Strings DEF Buffer
  <2>4. ASSUME NEW v \in Registered PROVE ValueAfter(y.info, y.mail, v) = y.db[v]
    <3> HIDE DEF y
    <3>1. ValueAfter(y.info, y.mail, v) = IF v = "MODE" THEN moded.MODE
                                          ELSE ValueAfter(moded, mail, v)
      BY <1>0, <2>2, AfterAppend
    <3> QED BY <1>5, <2>3, <3>1
  <2> HIDE DEF y
  <2>5. Sound(y)
    BY <2>2, <2>4 DEF Sound, Buffers
  <2> QED BY <1>3, <2>1, <2>2, <2>3, <2>5
<1> QED BY <1>6, <1>7

(* What an iteration posts is whatever the behaviors that complete have as *)
(* endflags.                                                               *)
LEMMA IterateKeeps ==
  ASSUME IInv, Iterate
  PROVE  IInv'
<1> DEFINE names == {Behaviors[i].name : i \in DOMAIN Behaviors}
<1>1. PICK moded, running, completed, r :
        /\ moded = evaluate(info)
        /\ running = {i \in DOMAIN Behaviors : checkConditions(moded, Behaviors[i])}
        /\ completed = {i \in running : Completes(Behaviors[i])}
        /\ r = Iterated(moded, running, completed)
        /\ Len(r.x.mail) <= MaxMail
        /\ info' = r.x.info /\ db' = r.x.db /\ mail' = r.x.mail
        /\ mode_set' = moded.MODE
        /\ fresh' = (completed = {})
        /\ cycles' = IF ~r.cycled THEN cycles
                     ELSE IF cycles = Repeats THEN 0 ELSE cycles + 1
        /\ undecided' = r.undecided
        /\ steering' = Steer(r.active, r.undecided)
        /\ place' = IF r.cycled THEN "away" ELSE place
        /\ UNCHANGED commands
  BY DEF Iterate
<1> DEFINE px == postModeMessages([info |-> moded, db |-> db, mail |-> mail])
           flags == FlattenSeq([i \in DOMAIN Behaviors |->
                                  IF i \in completed THEN Behaviors[i].endflags ELSE <<>>])
<1>2. /\ Sound(px) /\ px.info = moded /\ px.db.MODE = moded.MODE
      /\ moded.MODE = ModeOf(moded)
  <2> HIDE DEF px
  <2>1. px = postModeMessages([info |-> moded, db |-> db, mail |-> mail])
    BY DEF px
  <2> QED BY <1>1, <2>1, ModePosted
<1>3. r.x = PostFlags(px, flags)
  BY <1>1 DEF Iterated, postBehaviorMessages
<1>4. flags \in Seq((Variables \ {"MODE"}) \X Values) /\ (completed = {} => flags = <<>>)
  BY FlagsTyped
<1>5. /\ Sound(r.x) /\ r.x.info.MODE = moded.MODE /\ r.x.db.MODE = moded.MODE
      /\ completed = {} => r.x = px
  <2> HIDE DEF px, flags
  <2> QED BY <1>2, <1>3, <1>4, PostFlagsSound
<1>6. Agreed'
  <2>1. \A v \in Registered : ValueAfter(r.x.info, r.x.mail, v) = r.x.db[v]
    BY <1>5 DEF Sound
  <2>2. ASSUME NEW v \in Registered PROVE ValueAfter(info, mail, v)' = db'[v]
    <3>1. ValueAfter(info, mail, v)' = ValueAfter(r.x.info, r.x.mail, v)
      BY <1>1 DEF ValueAfter
    <3> QED BY <1>1, <2>1, <3>1
  <2> QED BY <2>2 DEF Agreed
<1>7. Decided'
  <2> SUFFICES ASSUME fresh' PROVE info'.MODE = mode_set' /\ info'.MODE = ModeOf(info')
    BY DEF Decided, ModeOf
  <2>1. r.x = px
    BY <1>1, <1>5
  <2>2. info' = moded
    <3> HIDE DEF px
    <3> QED BY <1>1, <1>2, <2>1
  <2> QED BY <1>1, <1>2, <2>2
<1>8. r.x.info \in Buffer /\ r.x.db \in Buffer /\ r.x.mail \in Seq(Post)
  BY <1>5 DEF Sound
<1>9. r.undecided \in 0 .. 2 /\ r.active \subseteq names
  <2> DEFINE active == {Behaviors[i] : i \in running \ completed}
  <2>1. r.undecided = IF Domain \subseteq UNION {b.decides : b \in active} THEN 0
                     ELSE IF undecided = 2 THEN 2 ELSE undecided + 1
    BY <1>1 DEF Iterated
  <2>2. r.active = {b.name : b \in active}
    BY <1>1 DEF Iterated
  <2>3. undecided \in 0 .. 2
    BY DEF IInv, TypeOK
  <2>4. r.active \subseteq names
    <3> SUFFICES ASSUME NEW a \in r.active PROVE a \in names
      OBVIOUS
    <3>1. PICK i \in running \ completed : a = Behaviors[i].name
      BY <2>2
    <3>2. i \in DOMAIN Behaviors
      BY <1>1
    <3> QED BY <3>1, <3>2
  <2>5. r.undecided \in 0 .. 2
    <3> HIDE DEF active
    <3> QED BY <2>1, <2>3
  <2> QED BY <2>4, <2>5
<1>10. cycles' \in 0 .. Repeats
  BY <1>1, Bounds DEF IInv, TypeOK
<1>11. steering' \subseteq names /\ place' \in {"home", "away", "last"}
       /\ commands' \in 0 .. MaxCommands /\ fresh' \in BOOLEAN
  BY <1>1, <1>9 DEF IInv, TypeOK, Steer
<1>12. mode_set' = db'.MODE /\ Len(mail') <= MaxMail
  BY <1>1, <1>5
<1>13. TypeOK'
  BY <1>1, <1>8, <1>9, <1>10, <1>11, <1>12 DEF TypeOK, Buffer, Variables, Post
<1> QED BY <1>6, <1>7, <1>13 DEF IInv

(* Mail that is read leaves nothing to come.                               *)
LEMMA MailKeeps ==
  ASSUME IInv, OnNewMail
  PROVE  IInv'
<1>0. info \in Buffer /\ mail \in Seq(Post)
  BY DEF IInv, TypeOK, Buffer, Variables, Post
<1>1. info' = [v \in Variables |-> ValueAfter(info, mail, v)]
  BY <1>0 DEF OnNewMail, Buffer
<1>2. info' \in Buffer
  BY <1>0, <1>1, AfterValue DEF Buffer
<1>3. mail' = <<>> /\ Len(mail') = 0
  BY DEF OnNewMail
<1>4. TypeOK'
  <2>1. mail' \in Seq(Registered \X Values) /\ Len(mail') <= MaxMail
    BY <1>3, Bounds
  <2> QED BY <1>2, <2>1 DEF IInv, TypeOK, OnNewMail, Buffer, Variables
<1>5. ASSUME NEW v \in Registered PROVE ValueAfter(info, mail, v)' = db'[v]
  <2>1. ValueAfter(info, mail, v)' = info'[v]
    BY <1>3 DEF ValueAfter
  <2>2. info'[v] = ValueAfter(info, mail, v)
    BY <1>1, Strings
  <2> QED BY <2>1, <2>2 DEF IInv, Agreed, OnNewMail
<1>6. Agreed'
  BY <1>5 DEF Agreed
<1> QED BY <1>4, <1>6 DEF IInv, Decided, OnNewMail

(* A command is in the MOOSDB and at the end of the mail.                  *)
LEMMA CommandKeeps ==
  ASSUME IInv, Command
  PROVE  IInv'
<1>1. PICK c \in Commands : db' = [db EXCEPT ![c[1]] = c[2]] /\ mail' = Append(mail, c)
  BY DEF Command
<1>2. /\ c = <<c[1], c[2]>> /\ c[1] \in Registered /\ c[1] # "MODE" /\ c[2] \in Values
      /\ c[1] \in Variables /\ c \in Post
  <2>1. c \in (Registered \ {"MODE"}) \X Values
    BY CommandsAssumption
  <2>2. c = <<c[1], c[2]>> /\ c[1] \in Registered \ {"MODE"} /\ c[2] \in Values
    BY <2>1
  <2> QED BY <2>2, Strings DEF Post
<1>3. info \in Buffer /\ db \in Buffer /\ mail \in Seq(Post)
  BY DEF IInv, TypeOK, Buffer, Variables, Post
<1>4. db' \in Buffer /\ db'[c[1]] = c[2] /\ \A v \in Variables \ {c[1]} : db'[v] = db[v]
  BY <1>1, <1>2, <1>3 DEF Buffer
<1>5. mail' \in Seq(Post) /\ Len(mail') = Len(mail) + 1 /\ Len(mail) \in Nat
  BY <1>1, <1>2, <1>3
<1>6. mode_set' = db'["MODE"]
  <2>1. "MODE" \in Variables \ {c[1]} /\ mode_set = db["MODE"]
    BY <1>2, Strings DEF IInv, TypeOK
  <2> QED BY <1>4, <2>1 DEF Command
<1>7. TypeOK'
  <2>1. Len(mail') <= MaxMail /\ commands' \in 0 .. MaxCommands
    BY <1>5, Bounds DEF Command, IInv, TypeOK
  <2> QED BY <1>4, <1>5, <1>6, <2>1 DEF IInv, TypeOK, Command, Buffer, Variables, Post
<1>8. ASSUME NEW v \in Registered PROVE ValueAfter(info, mail, v)' = db'[v]
  <2>1. ValueAfter(info, mail', v) = IF v = c[1] THEN c[2] ELSE ValueAfter(info, mail, v)
    BY <1>1, <1>2, <1>3, AfterAppend
  <2>2. ValueAfter(info, mail, v)' = ValueAfter(info, mail', v)
    BY DEF ValueAfter, Command
  <2>3. ValueAfter(info, mail, v) = db[v] /\ v \in Variables
    BY Strings DEF IInv, Agreed
  <2> QED BY <1>4, <2>1, <2>2, <2>3
<1>9. Agreed'
  BY <1>8 DEF Agreed
<1>10. Decided'
  BY DEF IInv, Decided, Command, ModeOf
<1> QED BY <1>7, <1>9, <1>10 DEF IInv

LEMMA NextKeeps ==
  ASSUME IInv, [Next]_vars
  PROVE  IInv'
<1>1. CASE Iterate
  BY <1>1, IterateKeeps
<1>2. CASE OnNewMail
  BY <1>2, MailKeeps
<1>3. CASE Command
  BY <1>3, CommandKeeps
<1>4. CASE Move
  <2>1. place' \in {"home", "away", "last"}
    BY <1>4 DEF Move
  <2>2. Agreed' /\ Decided'
    BY <1>4 DEF IInv, Agreed, Decided, ValueAfter, ModeOf, Move
  <2> QED BY <1>4, <2>1, <2>2 DEF IInv, TypeOK, Move
<1>5. CASE UNCHANGED vars
  <2>1. Agreed' /\ Decided'
    BY <1>5 DEF IInv, Agreed, Decided, ValueAfter, ModeOf, vars
  <2> QED BY <1>5, <2>1 DEF IInv, TypeOK, vars
<1> QED BY <1>1, <1>2, <1>3, <1>4, <1>5 DEF Next

LEMMA Invariant == Spec => []IInv
BY InitInvariant, NextKeeps, PTL DEF Spec

------------------------------------------------------------------------------
(* Every variable keeps to its type, and what was last posted under        *)
(* mode_set is what the MOOSDB has as MODE (HelmIvP.cpp:620).              *)
THEOREM TypeCorrect == Spec => []TypeOK
<1>1. IInv => TypeOK
  BY DEF IInv
<1> QED BY <1>1, Invariant, PTL

(* A helm that has read its mail acts on what the MOOSDB has, whoever      *)
(* wrote last: itself, by an endflag or the mode, or the operator          *)
(* (HelmIvP.cpp:440, :904).                                                *)
THEOREM SameInfo == Spec => []InfoAgrees
<1>1. IInv => InfoAgrees
  <2> SUFFICES ASSUME IInv, mail = <<>>, NEW v \in Registered PROVE info[v] = db[v]
    BY DEF InfoAgrees
  <2>1. ValueAfter(info, mail, v) = info[v]
    BY DEF ValueAfter
  <2> QED BY <2>1 DEF IInv, Agreed
<1> QED BY <1>1, Invariant, PTL

(* The MODE that everybody sees is the one that the published variables    *)
(* call for, once the helm has read its mail and iterated without an       *)
(* endflag: posting it only when it changes does not leave an old one      *)
(* (HelmIvP.cpp:620, ModeSet.cpp:38).                                      *)
THEOREM ModeIsCurrent == Spec => []PublishedMode
<1>1. IInv => PublishedMode
  <2> SUFFICES ASSUME IInv, mail = <<>>, fresh PROVE db.MODE = ModeOf(db)
    BY DEF PublishedMode
  <2>1. ASSUME NEW v \in Registered PROVE info[v] = db[v]
    BY DEF IInv, Agreed, ValueAfter
  <2>2. info.DEPLOY = db.DEPLOY /\ info.RETURN = db.RETURN /\ info.REGION = db.REGION
    <3>1. "DEPLOY" \in Registered /\ "RETURN" \in Registered /\ "REGION" \in Registered
      BY DEF Registered
    <3>2. info["DEPLOY"] = db["DEPLOY"] /\ info["RETURN"] = db["RETURN"]
          /\ info["REGION"] = db["REGION"]
      BY <2>1, <3>1
    <3> QED BY <3>2
  <2>3. ModeOf(info) = ModeOf(db)
    BY <2>2, ModeOfSame
  <2> QED BY <2>3 DEF IInv, Decided, TypeOK
<1> QED BY <1>1, Invariant, PTL
=============================================================================
