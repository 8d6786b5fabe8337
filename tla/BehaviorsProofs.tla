--------------------------- MODULE BehaviorsProofs ---------------------------
(***************************************************************************)
(* Theorems about Behaviors, for any mission, updates and outcomes.        *)
(*                                                                         *)
(* The inductive invariant keeps, for every behavior there is, what its    *)
(* flags, its state and m_completed say of one another (Truth), and of     *)
(* every behavior that was removed that it had ended (Over).  In the       *)
(* middle of an iteration, with the spawned behaviors added, both still    *)
(* hold (Grown), and every name in m_bhv_names is that of a behavior.      *)
(*                                                                         *)
(* The loops of the code are recursive functions; what they keep is proved *)
(* by induction on their rounds.                                           *)
(***************************************************************************)
EXTENDS Behaviors, TLAPS, NaturalsInduction, WellFoundedInduction, SequenceTheorems

NamesOf(bhvs) == {bhvs[i].name : i \in DOMAIN bhvs}

(* A mission without filter behaviors, whose behaviors post no error and   *)
(* whose updates are good.  Updates with a name, which are never           *)
(* remembered, do not come together with updates that may be skipped.      *)
Careful ==
  /\ \A i \in DOMAIN Specs : Specs[i].level = 0
  /\ \A o \in Outcomes : o.does # "error"
  /\ \A u \in Updates : u.ok
  /\ \A u, v \in Updates : u.name = <<>> /\ v.name # <<>> => u.toggle

(* What flags, state and m_completed of a behavior say of one another.     *)
Truth(b) ==
  /\ b.state # "completed"
  /\ b.flags.run = CASE b.state = "" -> "" [] b.state = "idle" -> "idle" [] OTHER -> "running"
  /\ b.flags.active = "active" <=> b.state = "active"
  /\ b.completed => ~b.perpetual
  /\ ~b.perpetual => b.flags.ends <= 1 /\ (b.completed <=> b.flags.ends = 1)

(* A behavior that may be removed.                                         *)
Over(b) == ~b.perpetual /\ b.flags.ends = 1

IInv ==
  /\ TypeOK
  /\ m_bhv_names \subseteq NamesOf(m_bhv_entry)
  /\ \A i \in DOMAIN m_bhv_entry : Truth(m_bhv_entry[i])
  /\ \A b \in gone : Over(b)

(* The behaviors and their names as templates are spawned.                 *)
Grown(x) ==
  /\ x \in [bhvs : Seq(Behaviors), names : SUBSET Names]
  /\ x.names \subseteq NamesOf(x.bhvs)
  /\ \A i \in DOMAIN x.bhvs : Truth(x.bhvs[i])
  /\ \A i \in DOMAIN x.bhvs : x.bhvs[i] \in Live \/ x.bhvs[i].prev = {}

(* An update that asks for a behavior of template t finds one.             *)
Answered(x, t, u) ==
  u.name # <<>> /\ u.ok => {u.name, Name(Specs[t].prefix, u.name)} \cap NamesOf(x.bhvs) # {}

(* More behaviors than before: no name of one is lost.                     *)
More(x, y) == NamesOf(x.bhvs) \subseteq NamesOf(y.bhvs)

------------------------------------------------------------------------------
(* Induction up to a bound, as a property of sets of numbers.              *)
LEMMA UpTo ==
  ASSUME NEW n \in Nat, NEW S, 0 \in S, \A i \in 1 .. n : i - 1 \in S => i \in S
  PROVE  \A i \in 0 .. n : i \in S
<1> DEFINE before == {ss \in Nat \X Nat : ss[1] < ss[2]}
           missing == {i \in 0 .. n : i \notin S}
<1>1. IsWellFoundedOn(before, Nat)
  BY NatLessThanWellFounded DEF OpToRel
<1>2. SUFFICES ASSUME missing # {} PROVE FALSE
  OBVIOUS
<1>3. missing \subseteq Nat
  OBVIOUS
<1>4. PICK k \in missing : \A j \in missing : <<j, k>> \notin before
  <2> HIDE DEF missing, before
  <2> QED BY <1>1, <1>2, <1>3, WFMin
<1>5. k \in 1 .. n
  OBVIOUS
<1>6. k - 1 \in Nat /\ k \in Nat /\ k - 1 < k /\ k - 1 \in 0 .. n
  BY <1>5
<1>7. k - 1 \notin missing
  BY <1>4, <1>6
<1> QED BY <1>5, <1>6, <1>7

(* What a loop with step g has done after each of its n rounds.            *)
Rounds(r, n, a, g) == r[0] = a /\ \A i \in 1 .. n : r[i] = g[<<i, r[i - 1]>>]

(* A loop that takes every step in A stays in A, and is a function.        *)
LEMMA LoopExists ==
  ASSUME NEW n \in Nat, NEW A, NEW a \in A, NEW g \in [(1 .. n) \X A -> A]
  PROVE  \E r \in [0 .. n -> A] : Rounds(r, n, a, g)
<1> DEFINE Upto(m) == \E r \in [0 .. m -> A] :
                         r[0] = a /\ \A i \in 1 .. m : r[i] = g[<<i, r[i - 1]>>]
           S == {m \in 0 .. n : Upto(m)}
<1>1. 0 \in S
  <2> DEFINE f == [i \in 0 .. 0 |-> a]
  <2>1. f \in [0 .. 0 -> A] /\ f[0] = a
    OBVIOUS
  <2>2. \A i \in 1 .. 0 : f[i] = g[<<i, f[i - 1]>>]
    OBVIOUS
  <2>3. 0 \in 0 .. n
    OBVIOUS
  <2>4. Upto(0)
    <3> HIDE DEF f
    <3> QED BY <2>1, <2>2
  <2> QED BY <2>3, <2>4
<1>2. ASSUME NEW m \in 1 .. n, m - 1 \in S PROVE m \in S
  <2>1. PICK r \in [0 .. m - 1 -> A] :
          r[0] = a /\ \A i \in 1 .. m - 1 : r[i] = g[<<i, r[i - 1]>>]
    BY <1>2
  <2> DEFINE s == [i \in 0 .. m |-> IF i = m THEN g[<<m, r[m - 1]>>] ELSE r[i]]
  <2>2. r[m - 1] \in A /\ g[<<m, r[m - 1]>>] \in A
    OBVIOUS
  <2>3. s \in [0 .. m -> A]
    BY <2>2
  <2>4. s[0] = a
    BY <2>1
  <2>5. ASSUME NEW i \in 1 .. m PROVE s[i] = g[<<i, s[i - 1]>>]
    <3>1. i - 1 \in 0 .. m - 1 /\ s[i - 1] = r[i - 1]
      OBVIOUS
    <3>2. CASE i = m
      <4>1. s[m] = g[<<m, r[m - 1]>>] OBVIOUS
      <4> HIDE DEF s
      <4> QED BY <4>1, <3>1, <3>2
    <3>3. CASE i # m
      <4>1. i \in 1 .. m - 1 BY <3>3
      <4> QED BY <4>1, <3>1, <3>3, <2>1
    <3> QED BY <3>2, <3>3
  <2>6. Upto(m)
    <3> HIDE DEF s
    <3> QED BY <2>3, <2>4, <2>5
  <2> QED BY <2>6
<1>3. n \in S
  <2> HIDE DEF S
  <2> QED BY <1>1, <1>2, UpTo
<1> QED BY <1>3 DEF Rounds

(* A loop that is there, and takes every step in A.                        *)
LEMMA LoopStays ==
  ASSUME NEW n \in Nat, NEW A, NEW f, f[0] \in A,
         \A i \in 1 .. n : f[i - 1] \in A => f[i] \in A
  PROVE  f[n] \in A
<1> DEFINE S == {i \in 0 .. n : f[i] \in A}
<1>1. 0 \in S
  OBVIOUS
<1>2. \A i \in 1 .. n : i - 1 \in S => i \in S
  OBVIOUS
<1>3. n \in S
  <2> HIDE DEF S
  <2> QED BY <1>1, <1>2, UpTo
<1> QED BY <1>3

------------------------------------------------------------------------------
(* AtPlaces.                                                               *)

(* r has what s has at the places in ps, each once.                        *)
Picks(r, s, ps) ==
  \E at \in [1 .. Len(r) -> ps] :
    /\ \A p \in 1 .. Len(r) : r[p] = s[at[p]]
    /\ \A p, q \in 1 .. Len(r) : at[p] = at[q] => p = q
    /\ \A i \in ps : \E p \in 1 .. Len(r) : at[p] = i

LEMMA PickNone ==
  ASSUME NEW s PROVE Picks(<<>>, s, {})
<1> DEFINE at == [p \in 1 .. 0 |-> p]
<1>1. Len(<<>>) = 0 /\ 1 .. 0 = {}
  OBVIOUS
<1>2. at \in [1 .. 0 -> {}]
  OBVIOUS
<1> QED BY <1>1, <1>2 DEF Picks

LEMMA PickOneMore ==
  ASSUME NEW S, NEW r \in Seq(S), NEW s, NEW ps, NEW i, s[i] \in S, i \notin ps, Picks(r, s, ps)
  PROVE  Picks(Append(r, s[i]), s, ps \cup {i})
<1> DEFINE k == Len(r)
           t == Append(r, s[i])
<1>1. k \in Nat /\ Len(t) = k + 1 /\ t[k + 1] = s[i] /\ \A p \in 1 .. k : t[p] = r[p]
  BY AppendProperties
<1>2. PICK at \in [1 .. k -> ps] :
        /\ \A p \in 1 .. k : r[p] = s[at[p]]
        /\ \A p, q \in 1 .. k : at[p] = at[q] => p = q
        /\ \A j \in ps : \E p \in 1 .. k : at[p] = j
  BY DEF Picks
<1> HIDE DEF k, t
<1> DEFINE new == [p \in 1 .. k + 1 |-> IF p = k + 1 THEN i ELSE at[p]]
<1>3. \A p \in 1 .. k + 1 : p # k + 1 => p \in 1 .. k
  BY <1>1
<1>4. 1 .. k + 1 = 1 .. Len(t) /\ k + 1 \in 1 .. k + 1 /\ 1 .. k \subseteq 1 .. k + 1
  BY <1>1
<1>5. new[k + 1] = i /\ \A p \in 1 .. k : new[p] = at[p] /\ at[p] \in ps
  BY <1>1, <1>4
<1>6. new \in [1 .. k + 1 -> ps \cup {i}]
  BY <1>3, <1>5
<1> HIDE DEF new
<1>7. \A p \in 1 .. k + 1 : t[p] = s[new[p]]
  BY <1>1, <1>2, <1>3, <1>5
<1>8. \A p, q \in 1 .. k + 1 : new[p] = new[q] => p = q
  BY <1>2, <1>3, <1>5
<1>9. \A j \in ps \cup {i} : \E p \in 1 .. k + 1 : new[p] = j
  BY <1>2, <1>4, <1>5
<1>10. /\ new \in [1 .. Len(t) -> ps \cup {i}]
       /\ \A p \in 1 .. Len(t) : t[p] = s[new[p]]
       /\ \A p, q \in 1 .. Len(t) : new[p] = new[q] => p = q
       /\ \A j \in ps \cup {i} : \E p \in 1 .. Len(t) : new[p] = j
  <2> DEFINE D == 1 .. k + 1
  <2>1. /\ new \in [D -> ps \cup {i}]
        /\ \A p \in D : t[p] = s[new[p]]
        /\ \A p, q \in D : new[p] = new[q] => p = q
        /\ \A j \in ps \cup {i} : \E p \in D : new[p] = j
    BY <1>6, <1>7, <1>8, <1>9
  <2>2. D = 1 .. Len(t)
    BY <1>4
  <2> HIDE DEF D
  <2> QED BY <2>1, <2>2, Zenon
<1>11. Picks(t, s, ps \cup {i})
  BY <1>10, Zenon DEF Picks
<1> QED BY <1>11, Zenon DEF t

LEMMA AtPlacesPicks ==
  ASSUME NEW S, NEW s \in Seq(S), NEW ps \in SUBSET DOMAIN s
  PROVE  AtPlaces(s, ps) \in Seq(S) /\ Picks(AtPlaces(s, ps), s, ps)
<1> DEFINE n == Len(s)
           Step(r, i) == IF i \in ps THEN Append(r, s[i]) ELSE r
           g == [p \in (1 .. n) \X Seq(S) |-> Step(p[2], p[1])]
           Loop(q) == q = [i \in 0 .. n |-> IF i = 0 THEN <<>>
                             ELSE IF i \in ps THEN Append(q[i - 1], s[i]) ELSE q[i - 1]]
           f == CHOOSE q : Loop(q)
<1>1. n \in Nat /\ DOMAIN s = 1 .. n /\ \A i \in 1 .. n : s[i] \in S
  BY ElementOfSeq
<1>2. <<>> \in Seq(S)
  OBVIOUS
<1>3. \A i \in 1 .. n : \A r \in Seq(S) : Step(r, i) \in Seq(S)
  BY <1>1, AppendProperties
<1>4. g \in [(1 .. n) \X Seq(S) -> Seq(S)]
  <2> HIDE DEF Step, n
  <2> QED BY <1>3
<1>5. PICK r \in [0 .. n -> Seq(S)] : Rounds(r, n, <<>>, g)
  <2> HIDE DEF g, n
  <2> QED BY <1>1, <1>2, <1>4, LoopExists
<1>6. ASSUME NEW i \in 1 .. n PROVE r[i] = Step(r[i - 1], i)
  <2> HIDE DEF Step, n
  <2>1. i - 1 \in 0 .. n
    BY <1>1
  <2>2. <<i, r[i - 1]>> \in (1 .. n) \X Seq(S)
    BY <2>1
  <2> QED BY <1>5, <2>2 DEF g, Rounds
<1>7. Loop(r)
  <2> HIDE DEF n
  <2>1. r[0] = <<>> /\ \A i \in 0 .. n : i # 0 => i \in 1 .. n
    BY <1>1, <1>5 DEF Rounds
  <2> QED BY <1>1, <1>6, <2>1
<1>8. Loop(f)
  <2> HIDE DEF Loop
  <2> QED BY <1>7
<1>9. f[0] = <<>> /\ \A i \in 1 .. n : f[i] = Step(f[i - 1], i)
  <2> HIDE DEF n, f
  <2>1. 0 \in 0 .. n /\ \A i \in 1 .. n : i \in 0 .. n /\ i # 0
    BY <1>1
  <2> QED BY <1>8, <2>1
<1> HIDE DEF f
<1> DEFINE T == {i \in 0 .. n : f[i] \in Seq(S) /\ Picks(f[i], s, ps \cap 1 .. i)}
<1>10. 0 \in T
  <2>1. ps \cap 1 .. 0 = {}
    OBVIOUS
  <2>2. Picks(f[0], s, ps \cap 1 .. 0)
    <3>1. Picks(<<>>, s, {})
      BY PickNone, Zenon
    <3>2. f[0] = <<>>
      BY <1>9
    <3> QED BY <2>1, <3>1, <3>2, Zenon
  <2> HIDE DEF n
  <2>3. 0 \in 0 .. n
    BY <1>1
  <2>4. f[0] \in Seq(S)
    BY <1>2, <1>9
  <2> QED BY <2>2, <2>3, <2>4, Zenon
<1>11. ASSUME NEW i \in 1 .. n, i - 1 \in T PROVE i \in T
  <2> HIDE DEF n
  <2>1. f[i - 1] \in Seq(S) /\ Picks(f[i - 1], s, ps \cap 1 .. i - 1)
    BY <1>11
  <2>2. i \in 0 .. n /\ s[i] \in S /\ i \in Nat /\ f[i] = Step(f[i - 1], i)
    BY <1>1, <1>9
  <2>3. i \notin ps \cap 1 .. i - 1
    BY <2>2
  <2>4. CASE i \in ps
    <3>1. (ps \cap 1 .. i - 1) \cup {i} = ps \cap 1 .. i
      BY <2>2, <2>4
    <3>2. f[i] = Append(f[i - 1], s[i])
      BY <2>2, <2>4
    <3> DEFINE before == ps \cap 1 .. i - 1
    <3>3. Picks(f[i], s, before \cup {i})
      <4> HIDE DEF before
      <4>1. f[i - 1] \in Seq(S) /\ Picks(f[i - 1], s, before) /\ i \notin before
        BY <2>1, <2>3 DEF before
      <4>2. Picks(Append(f[i - 1], s[i]), s, before \cup {i})
        BY <2>2, <4>1, PickOneMore, Zenon
      <4> QED BY <3>2, <4>2, Zenon
    <3>4. f[i] \in Seq(S)
      BY <2>1, <2>2, <3>2, AppendProperties
    <3>5. Picks(f[i], s, ps \cap 1 .. i)
      BY <3>1, <3>3, Zenon
    <3> QED BY <2>2, <3>4, <3>5
  <2>5. CASE i \notin ps
    <3>1. ps \cap 1 .. i - 1 = ps \cap 1 .. i
      BY <2>2, <2>5
    <3>2. f[i] = f[i - 1]
      BY <2>2, <2>5
    <3> QED BY <2>1, <2>2, <3>1, <3>2
  <2> QED BY <2>4, <2>5
<1>12. n \in T
  <2> HIDE DEF T, n
  <2>1. \A i \in 0 .. n : i \in T
    BY <1>1, <1>10, <1>11, UpTo
  <2> QED BY <1>1, <2>1
<1>13. ps \cap 1 .. n = ps
  BY <1>1
<1>14. AtPlaces(s, ps) = f[n]
  BY DEF AtPlaces, f
<1> QED BY <1>12, <1>13, <1>14

------------------------------------------------------------------------------
(* One behavior.                                                           *)

(* Updates change the parameters only.                                     *)
Same(b, c) ==
  /\ c.name = b.name /\ c.perpetual = b.perpetual /\ c.level = b.level
  /\ c.state = b.state /\ c.completed = b.completed /\ c.flags = b.flags

LEMMA ApplyUpdateKeeps ==
  ASSUME NEW b \in Behaviors, NEW u \in Updates
  PROVE  ApplyUpdate(b, u) \in Behaviors /\ Same(b, ApplyUpdate(b, u))
<1>1. u.speed \in Speeds
  BY DEF Speeds
<1>2. {u} \in {{}} \cup {{v} : v \in Updates}
  OBVIOUS
<1> QED BY <1>1, <1>2 DEF ApplyUpdate, Behaviors, Same

(* f[i] is b after the first i updates.                                    *)
Updating(f, b) ==
  /\ f[0] = b /\ checkUpdates(b) = f[Len(deltas)]
  /\ \A i \in 1 .. Len(deltas) :
       f[i] = ApplyUpdate(f[i - 1], deltas[i]) /\ f[i] \in Behaviors /\ Same(b, f[i])

LEMMA UpdatesDone ==
  ASSUME deltas \in Seq(Updates), NEW b \in Behaviors
  PROVE  \E f : Updating(f, b)
<1> DEFINE n == Len(deltas)
           A == {c \in Behaviors : Same(b, c)}
           Step(c, i) == ApplyUpdate(c, deltas[i])
           g == [p \in (1 .. n) \X A |-> Step(p[2], p[1])]
           Loop(q) == q = [i \in 0 .. n |-> IF i = 0 THEN b ELSE Step(q[i - 1], i)]
           f == CHOOSE q : Loop(q)
<1>1. n \in Nat /\ b \in A
  BY DEF Same
<1>2. ASSUME NEW i \in 1 .. n, NEW c \in A PROVE Step(c, i) \in A
  <2>1. deltas[i] \in Updates /\ c \in Behaviors /\ Same(b, c)
    BY ElementOfSeq
  <2>2. Step(c, i) \in Behaviors /\ Same(c, Step(c, i))
    BY <2>1, ApplyUpdateKeeps
  <2> HIDE DEF Step
  <2> QED BY <2>1, <2>2 DEF Same
<1>3. g \in [(1 .. n) \X A -> A]
  <2> HIDE DEF A, Step, n
  <2> QED BY <1>2
<1>4. PICK r \in [0 .. n -> A] : Rounds(r, n, b, g)
  <2> HIDE DEF A, g, n
  <2> QED BY <1>1, <1>3, LoopExists
<1>5. ASSUME NEW i \in 1 .. n PROVE r[i] = Step(r[i - 1], i)
  <2> HIDE DEF A, Step, n
  <2>1. i - 1 \in 0 .. n
    BY <1>1
  <2>2. <<i, r[i - 1]>> \in (1 .. n) \X A
    BY <2>1
  <2> QED BY <1>4, <2>2 DEF g, Rounds
<1>6. Loop(r)
  <2> HIDE DEF A, Step, n
  <2> QED BY <1>1, <1>4, <1>5 DEF Rounds
<1>7. Loop(f)
  <2> HIDE DEF Loop
  <2> QED BY <1>6
<1>8. f[0] = b /\ \A i \in 1 .. n : f[i] = Step(f[i - 1], i)
  <2> HIDE DEF A, Step, n, f
  <2>1. 0 \in 0 .. n /\ \A i \in 1 .. n : i \in 0 .. n /\ i # 0
    BY <1>1
  <2> QED BY <1>7, <2>1
<1>9. \A i \in 0 .. n : f[i] \in A
  <2> DEFINE T == {i \in 0 .. n : f[i] \in A}
  <2>1. 0 \in T
    <3> HIDE DEF A, Step, n, f
    <3> QED BY <1>1, <1>8
  <2>2. \A i \in 1 .. n : i - 1 \in T => i \in T
    <3> HIDE DEF A, Step, n, f
    <3> QED BY <1>1, <1>2, <1>8
  <2>3. \A i \in 0 .. n : i \in T
    <3> HIDE DEF T, n
    <3> QED BY <1>1, <2>1, <2>2, UpTo
  <2> QED BY <2>3
<1>10. checkUpdates(b) = f[n]
  BY DEF checkUpdates
<1>11. \A i \in 1 .. n : f[i] = Step(f[i - 1], i) /\ f[i] \in A
  <2> HIDE DEF A, Step, f
  <2> QED BY <1>1, <1>8, <1>9
<1>12. Updating(f, b)
  <2> HIDE DEF f
  <2> QED BY <1>8, <1>10, <1>11 DEF Updating
<1> QED BY <1>12

LEMMA UpdatesKeep ==
  ASSUME deltas \in Seq(Updates), NEW b \in Behaviors
  PROVE  checkUpdates(b) \in Behaviors /\ Same(b, checkUpdates(b))
<1>1. PICK f : Updating(f, b)
  BY UpdatesDone
<1>2. Len(deltas) \in Nat
  OBVIOUS
<1>3. CASE Len(deltas) = 0
  BY <1>1, <1>3 DEF Updating, Same
<1>4. CASE Len(deltas) # 0
  <2>1. Len(deltas) \in 1 .. Len(deltas)
    BY <1>2, <1>4
  <2> QED BY <1>1, <2>1 DEF Updating
<1> QED BY <1>3, <1>4

(* The last update that was good and applied is in force, or is never      *)
(* skipped.                                                                *)
Remembered(b) == \A u \in b.prev : u.name = <<>> /\ (u.toggle \/ b.speed = u.speed)

(* While all updates are good, the last one for a behavior is in force     *)
(* after checkUpdates, be it applied or skipped as a repetition.           *)
LEMMA LastApplied ==
  ASSUME deltas \in Seq(Updates), \A u \in Updates : u.ok,
         \A u, v \in Updates : u.name = <<>> /\ v.name # <<>> => u.toggle,
         NEW b \in Behaviors, Remembered(b)
  PROVE  /\ Remembered(checkUpdates(b))
         /\ \A j \in DOMAIN deltas :
              /\ Addressed(b, deltas[j])
              /\ \A k \in j + 1 .. Len(deltas) : ~Addressed(b, deltas[k])
              => checkUpdates(b).speed = deltas[j].speed
<1> DEFINE n == Len(deltas)
           Last(i, j) == Addressed(b, deltas[j]) /\ \A k \in j + 1 .. i : ~Addressed(b, deltas[k])
<1>1. n \in Nat /\ DOMAIN deltas = 1 .. n /\ \A i \in 1 .. n : deltas[i] \in Updates
  BY ElementOfSeq
<1>2. PICK f : Updating(f, b)
  BY UpdatesDone
<1>3. ASSUME NEW i \in 0 .. n PROVE f[i] \in Behaviors /\ Same(b, f[i])
  <2>1. CASE i = 0
    BY <1>2, <2>1 DEF Updating, Same
  <2>2. CASE i # 0
    <3>1. i \in 1 .. n
      BY <1>1, <2>2
    <3> HIDE DEF n
    <3> QED BY <1>2, <3>1 DEF Updating, n
  <2> QED BY <2>1, <2>2
<1>4. f[0] = b /\ checkUpdates(b) = f[n] /\ \A i \in 1 .. n : f[i] = ApplyUpdate(f[i - 1], deltas[i])
  BY <1>2 DEF Updating
<1> HIDE DEF n
<1> DEFINE InForce(i) == /\ Remembered(f[i])
                         /\ \A j \in 1 .. i : Last(i, j) => f[i].speed = deltas[j].speed
           T == {i \in 0 .. n : InForce(i)}
<1>5. 0 \in T
  <2> HIDE DEF Last
  <2> QED BY <1>1, <1>4
<1>6. ASSUME NEW i \in 1 .. n, i - 1 \in T PROVE i \in T
  <2> DEFINE c == f[i - 1]
             u == deltas[i]
  <2>1. InForce(i - 1)
    BY <1>6
  <2>2. /\ i \in 0 .. n /\ i - 1 \in 0 .. n /\ i \in 1 .. i
        /\ \A j \in 1 .. i : j = i \/ (j \in 1 .. i - 1 /\ i \in j + 1 .. i)
        /\ \A j \in 1 .. i - 1 : \A k \in j + 1 .. i - 1 : k \in j + 1 .. i
    BY <1>1
  <2>3. u \in Updates /\ u.ok /\ c \in Behaviors /\ Same(b, c) /\ f[i] = ApplyUpdate(c, u)
    BY <1>1, <1>3, <1>4, <2>2
  <2>4. Addressed(c, u) <=> Addressed(b, u)
    BY <2>3 DEF Addressed, Same
  <2> HIDE DEF c, u
  <2>5. CASE ~Addressed(b, u)
    <3>1. f[i] = c
      BY <2>3, <2>4, <2>5 DEF ApplyUpdate
    <3>2. Remembered(f[i])
      BY <2>1, <3>1 DEF c
    <3>3. ASSUME NEW j \in 1 .. i, Last(i, j) PROVE f[i].speed = deltas[j].speed
      <4>1. j # i
        BY <2>5, <3>3 DEF u
      <4>2. j \in 1 .. i - 1 /\ Last(i - 1, j)
        BY <2>2, <3>3, <4>1
      <4> QED BY <2>1, <3>1, <4>2 DEF c
    <3> HIDE DEF Last
    <3> QED BY <2>2, <3>2, <3>3
  <2>6. CASE Addressed(b, u)
    <3>1. f[i].speed = u.speed /\ Remembered(f[i])
      <4>1. CASE {u} = c.prev /\ ~u.toggle
        <5>1. f[i] = c
          BY <2>3, <4>1 DEF ApplyUpdate
        <5>2. Remembered(c) /\ u \in c.prev
          BY <2>1, <4>1 DEF c
        <5> QED BY <4>1, <5>1, <5>2 DEF Remembered
      <4>2. CASE ~({u} = c.prev /\ ~u.toggle)
        <5>1. f[i] = [c EXCEPT !.speed = u.speed, !.prev = IF u.name = <<>> THEN {u} ELSE @]
          BY <2>3, <2>4, <2>6, <4>2 DEF ApplyUpdate
        <5>2. f[i].speed = u.speed /\ f[i].prev = IF u.name = <<>> THEN {u} ELSE c.prev
          BY <2>3, <5>1 DEF Behaviors
        <5>3. CASE u.name = <<>>
          BY <5>2, <5>3 DEF Remembered
        <5>4. CASE u.name # <<>>
          <6>1. \A v \in c.prev : v \in Updates
            BY <2>3 DEF Behaviors
          <6>2. \A v \in c.prev : v.name = <<>>
            BY <2>1 DEF c, Remembered
          <6>3. \A v \in c.prev : v.toggle
            BY <2>3, <5>4, <6>1, <6>2
          <6> QED BY <5>2, <5>4, <6>2, <6>3 DEF Remembered
        <5> QED BY <5>3, <5>4
      <4> QED BY <4>1, <4>2
    <3>2. ASSUME NEW j \in 1 .. i, Last(i, j) PROVE j = i
      BY <2>2, <2>6, <3>2 DEF u
    <3> HIDE DEF Last
    <3> QED BY <2>2, <3>1, <3>2 DEF u
  <2> QED BY <2>5, <2>6
<1>7. n \in T
  <2> HIDE DEF T
  <2>1. \A i \in 0 .. n : i \in T
    BY <1>1, <1>5, <1>6, UpTo
  <2> QED BY <1>1, <2>1
<1>8. Remembered(f[n]) /\ \A j \in 1 .. n : Last(n, j) => f[n].speed = deltas[j].speed
  <2> HIDE DEF Last
  <2> QED BY <1>7
<1> QED BY <1>1, <1>4, <1>8 DEF n

LEMMA NewStates ==
  ASSUME NEW b \in Behaviors, NEW o \in Outcomes
  PROVE  /\ isRunnable(b, o) \in {"idle", "running", "expired", "completed"}
         /\ NewState(b, o) \in {"idle", "running", "active", "completed"}
         /\ Ends(b, o) \in 0 .. 2
<1>1. o \in [does : {"unmet", "starved", "ipf", "none", "complete", "error"}, expired : BOOLEAN]
  BY BehaviorsAssumption
<1>2. isRunnable(b, o) \in {"idle", "running", "expired", "completed"}
  BY <1>1 DEF isRunnable, Behaviors
<1>3. NewState(b, o) \in {"idle", "running", "active", "completed"}
  BY <1>2 DEF NewState
<1>4. Ends(b, o) \in 0 .. 2
  BY DEF Ends
<1> QED BY <1>2, <1>3, <1>4

LEMMA FlagsTyped ==
  ASSUME NEW r \in Flags, NEW old, NEW new, NEW ends \in 0 .. 2
  PROVE  PostFlags(r, old, new, ends) \in Flags
<1>1. r.ends \in 0 .. 2
  BY DEF Flags
<1>2. (IF r.ends + ends > 2 THEN 2 ELSE r.ends + ends) \in 0 .. 2
  BY <1>1
<1> QED BY <1>2 DEF Flags, PostFlags

(* Asking a behavior whose flags tell the truth: they still do, or it is   *)
(* completed and has ended once.                                           *)
LEMMA AskingTells ==
  ASSUME deltas \in Seq(Updates), NEW b \in Behaviors, NEW o \in Outcomes, Truth(b)
  PROVE  LET c == produceOF(b, o)
         IN  /\ c.name = b.name /\ c \in Behaviors
             /\ c.state = "completed" => Over(c)
             /\ c.state # "completed" => Truth(c)
<1> DEFINE u == checkUpdates(b)
           r == b.flags
           new == NewState(b, o)
           ends == Ends(b, o)
           c == produceOF(b, o)
           q == PostFlags(r, b.state, new, ends)
           run == isRunnable(b, o)
<1>1. u \in Behaviors /\ Same(b, u)
  BY UpdatesKeep
<1>2. /\ run \in {"idle", "running", "expired", "completed"}
      /\ new \in {"idle", "running", "active", "completed"} /\ ends \in 0 .. 2
  BY NewStates
<1>3. o \in [does : {"unmet", "starved", "ipf", "none", "complete", "error"}, expired : BOOLEAN]
  BY BehaviorsAssumption
<1>4. c = [u EXCEPT !.state = new, !.completed = b.completed \/ (ends > 0 /\ ~b.perpetual),
                    !.flags = q]
  <2>1. u.completed = b.completed /\ u.flags = b.flags
    BY <1>1 DEF Same
  <2> QED BY <1>1, <2>1 DEF produceOF, Completes, Behaviors
<1>5. /\ c.name = b.name /\ c.perpetual = b.perpetual /\ c.state = new /\ c.flags = q
      /\ c.completed = (b.completed \/ (ends > 0 /\ ~b.perpetual))
  <2> HIDE DEF u, new, ends, c, q
  <2> QED BY <1>1, <1>4 DEF Behaviors, Same
<1>6. c \in Behaviors
  <2>1. b.completed \in BOOLEAN /\ b.perpetual \in BOOLEAN /\ r \in Flags
    BY DEF Behaviors
  <2>2. q \in Flags
    <3> HIDE DEF r, new, ends
    <3> QED BY <1>2, <2>1, FlagsTyped
  <2> HIDE DEF u, new, ends, c, q
  <2> QED BY <1>1, <1>2, <1>4, <2>1, <2>2 DEF Behaviors
<1>7. /\ new = "completed" => run \in {"completed", "expired"}
      /\ new # "completed" => run \in {"idle", "running"}
      /\ run = "completed" => b.completed /\ ends = 0
      /\ run # "completed" => ~b.completed
      /\ run = "expired" => ~b.perpetual /\ ends = 1
      /\ run \in {"idle", "running"} => b.perpetual \/ ends <= 1
  <2>1. b.completed \in BOOLEAN /\ b.perpetual \in BOOLEAN /\ o.expired \in BOOLEAN
    BY <1>3 DEF Behaviors
  <2>2. /\ new = "completed" => run \in {"completed", "expired"}
        /\ new # "completed" => run \in {"idle", "running"}
    <3>1. new = IF run = "running" /\ o.does = "ipf" THEN "active"
                ELSE IF run = "expired" THEN "completed" ELSE run
      BY Zenon DEF NewState
    <3> HIDE DEF run, new
    <3> QED BY <1>2, <3>1
  <2>3. /\ run = "completed" => b.completed
        /\ run # "completed" => ~b.completed
        /\ run = "expired" => ~b.perpetual /\ o.expired /\ o.does # "unmet"
        /\ run \in {"idle", "running"} => o.does = "unmet" \/ ~o.expired \/ b.perpetual
    <3>1. CASE b.completed
      <4>1. run = "completed"
        BY <3>1 DEF isRunnable
      <4> HIDE DEF run
      <4> QED BY <3>1, <4>1
    <3>2. CASE ~b.completed /\ o.does = "unmet"
      <4>1. run = "idle"
        BY <3>2 DEF isRunnable
      <4> HIDE DEF run
      <4> QED BY <3>2, <4>1
    <3>3. CASE ~b.completed /\ o.does # "unmet" /\ o.expired /\ ~b.perpetual
      <4>1. run = "expired"
        BY <3>3 DEF isRunnable
      <4> HIDE DEF run
      <4> QED BY <3>3, <4>1
    <3>4. CASE ~b.completed /\ o.does # "unmet" /\ (~o.expired \/ b.perpetual)
      <4>1. run \in {"idle", "running"}
        BY <3>4 DEF isRunnable
      <4> HIDE DEF run
      <4> QED BY <3>4, <4>1
    <3> HIDE DEF run
    <3> QED BY <3>1, <3>2, <3>3, <3>4, Zenon
  <2>4. ends = IF run = "completed" \/ o.does = "unmet" THEN 0
               ELSE (IF o.expired THEN 1 ELSE 0)
                      + (IF run = "running" /\ o.does = "complete" THEN 1 ELSE 0)
    BY DEF Ends
  <2> HIDE DEF run, ends, new
  <2>5. /\ run = "completed" => ends = 0
        /\ run = "expired" => ends = 1
    BY <2>3, <2>4
  <2>6. run \in {"idle", "running"} => b.perpetual \/ ends <= 1
    BY <2>1, <2>3, <2>4
  <2> QED BY <2>2, <2>3, <2>5, <2>6
<1>8. q.ends = (IF r.ends + ends > 2 THEN 2 ELSE r.ends + ends) /\ r.ends \in 0 .. 2
  <2>1. r \in Flags
    BY DEF Behaviors
  <2> HIDE DEF new, ends, r
  <2> QED BY <2>1 DEF PostFlags, Flags
<1>9. ASSUME new = "completed" PROVE Over(c)
  <2>1. ~b.perpetual
    BY <1>7, <1>9 DEF Truth
  <2>2. r.ends <= 1 /\ (b.completed <=> r.ends = 1)
    BY <2>1 DEF Truth
  <2>3. q.ends = 1
    <3> HIDE DEF q, new, ends, run, r
    <3> QED BY <1>2, <1>7, <1>8, <1>9, <2>2
  <2> HIDE DEF c, q, new
  <2> QED BY <1>5, <2>1, <2>3 DEF Over
<1>10. ASSUME new # "completed" PROVE Truth(c)
  <2>1. /\ q.run = CASE new = "" -> "" [] new = "idle" -> "idle" [] OTHER -> "running"
        /\ q.active = "active" <=> new = "active"
    <3>1. /\ r.run = CASE b.state = "" -> "" [] b.state = "idle" -> "idle" [] OTHER -> "running"
          /\ r.active = "active" <=> b.state = "active"
      BY DEF Truth
    <3>2. b.state \in {"", "idle", "running", "active"}
      BY DEF Behaviors, Truth
    <3> HIDE DEF new, ends, r
    <3> QED BY <1>2, <1>10, <3>1, <3>2 DEF PostFlags
  <2>2. c.completed => ~c.perpetual
    <3> HIDE DEF c, new, ends
    <3> QED BY <1>5 DEF Truth
  <2>3. ASSUME ~c.perpetual PROVE q.ends <= 1 /\ (c.completed <=> q.ends = 1)
    <3>1. r.ends <= 1 /\ (b.completed <=> r.ends = 1)
      BY <1>5, <2>3 DEF Truth
    <3> HIDE DEF c, q, new, ends, run, r
    <3>2. ~b.completed /\ ends \in {0, 1}
      BY <1>2, <1>5, <1>7, <1>10, <2>3
    <3>3. r.ends = 0
      BY <1>8, <3>1, <3>2
    <3>4. q.ends = ends
      <4>1. r.ends + ends = ends /\ ~(r.ends + ends > 2)
        BY <3>2, <3>3
      <4> QED BY <1>8, <4>1
    <3>5. c.completed <=> ends > 0
      BY <1>5, <2>3, <3>2, Zenon
    <3>6. ends <= 1 /\ (ends > 0 <=> ends = 1)
      BY <3>2
    <3> QED BY <3>4, <3>5, <3>6, Zenon
  <2> HIDE DEF c, q, new, ends, run
  <2> QED BY <1>5, <1>10, <2>1, <2>2, <2>3 DEF Truth
<1> QED
  <2> HIDE DEF q, new, ends, run, c
  <2>1. c.name = b.name /\ c \in Behaviors
    BY <1>5, <1>6
  <2>2. (c.state = "completed" => Over(c)) /\ (c.state # "completed" => Truth(c))
    BY <1>5, <1>9, <1>10
  <2> QED BY <2>1, <2>2 DEF c

------------------------------------------------------------------------------
(* Spawning.                                                               *)

Blocks == [prefix : STRING, templating : {"", "clone", "spawn"}, perpetual : BOOLEAN, level : 0 .. 1]

LEMMA SpecsTyped == Specs \in Seq(Blocks)
BY BehaviorsAssumption, Zenon DEF Blocks

LEMMA SpecTyped ==
  ASSUME NEW i \in DOMAIN Specs PROVE Specs[i] \in Blocks
<1>1. DOMAIN Specs = 1 .. Len(Specs)
  BY SpecsTyped
<1> QED BY <1>1, SpecsTyped, ElementOfSeq

LEMMA NewBehavior ==
  ASSUME NEW i \in DOMAIN Specs, NEW aug \in {<<>>} \cup {u.name : u \in Updates},
         NEW speed \in Speeds
  PROVE  LET b == Behavior(Specs[i], aug, speed)
         IN  b \in Behaviors /\ b.name = Name(Specs[i].prefix, aug) /\ b.prev = {} /\ Truth(b)
<1> DEFINE b == Behavior(Specs[i], aug, speed)
<1>1. Name(Specs[i].prefix, aug) \in Names
  BY DEF Names
<1>2. Specs[i].perpetual \in BOOLEAN /\ Specs[i].level \in Levels
  BY SpecTyped DEF Blocks, Levels
<1>3. {} \in {{}} \cup {{u} : u \in Updates}
  OBVIOUS
<1>4. Unposted \in Flags
  BY DEF Unposted, Flags
<1>5. b \in Behaviors /\ b.name = Name(Specs[i].prefix, aug) /\ b.prev = {}
  BY <1>1, <1>2, <1>3, <1>4 DEF Behavior, Behaviors
<1>6. b.state = "" /\ b.completed = FALSE /\ b.flags = Unposted
  BY DEF Behavior
<1>7. Truth(b)
  <2> HIDE DEF b
  <2>1. Unposted.run = "" /\ Unposted.active = "" /\ Unposted.ends = 0
    BY DEF Unposted
  <2>2. b.flags.ends <= 1 /\ b.flags.ends # 1
    <3>1. Unposted.ends <= 1 /\ Unposted.ends # 1
      BY DEF Unposted
    <3> QED BY <1>6, <3>1, Zenon
  <2>3. /\ b.flags.run = CASE b.state = "" -> "" [] b.state = "idle" -> "idle"
                             [] OTHER -> "running"
        /\ b.flags.active = "active" <=> b.state = "active"
    BY <1>6, <2>1
  <2> QED BY <1>6, <2>2, <2>3, Zenon DEF Truth
<1> QED BY <1>5, <1>7

LEMMA SpawnGrows ==
  ASSUME NEW t \in Templates, NEW u \in Updates, NEW x, Grown(x)
  PROVE  LET y == Spawn(Specs[t], x, u) IN Grown(y) /\ More(x, y) /\ Answered(y, t, u)
<1> DEFINE b == Behavior(Specs[t], u.name, u.speed)
           k == Len(x.bhvs)
           bhvs == Append(x.bhvs, b)
           names == x.names \cup {b.name}
           y == [bhvs |-> bhvs, names |-> names]
<1>1. t \in DOMAIN Specs /\ u.speed \in Speeds /\ u.name \in {<<>>} \cup {v.name : v \in Updates}
  BY DEF Templates, Speeds
<1>2. b \in Behaviors /\ b.name = Name(Specs[t].prefix, u.name) /\ b.prev = {} /\ Truth(b)
  BY <1>1, NewBehavior
<1>3. Spawn(Specs[t], x, u) = IF u.name # <<>> /\ u.name \notin x.names /\ u.ok THEN y ELSE x
  BY <1>2, Zenon DEF Spawn, IsNew
<1>4. /\ x.bhvs \in Seq(Behaviors) /\ x.names \in SUBSET Names
      /\ x.names \subseteq NamesOf(x.bhvs)
  BY DEF Grown
<1>5. Grown(x) /\ More(x, x) /\ (u.name \in x.names => Answered(x, t, u))
  BY <1>4 DEF More, Answered
<1> HIDE DEF b
<1>6. k \in Nat /\ DOMAIN x.bhvs = 1 .. k
  BY <1>4
<1>7. /\ bhvs \in Seq(Behaviors) /\ Len(bhvs) = k + 1 /\ bhvs[k + 1] = b
      /\ \A j \in 1 .. k : bhvs[j] = x.bhvs[j]
  BY <1>2, <1>4, AppendProperties
<1>8. DOMAIN bhvs = 1 .. k + 1 /\ k + 1 \in DOMAIN bhvs
  BY <1>6, <1>7
<1> HIDE DEF bhvs, k
<1>9. /\ \A j \in DOMAIN bhvs : j = k + 1 \/ j \in DOMAIN x.bhvs
      /\ DOMAIN x.bhvs \subseteq DOMAIN bhvs
  BY <1>6, <1>8
<1>10. NamesOf(bhvs) = NamesOf(x.bhvs) \cup {b.name}
  BY <1>6, <1>7, <1>8, <1>9 DEF NamesOf
<1>11. \A j \in DOMAIN bhvs : Truth(bhvs[j]) /\ (bhvs[j] \in Live \/ bhvs[j].prev = {})
  <2> SUFFICES ASSUME NEW j \in DOMAIN bhvs
               PROVE  Truth(bhvs[j]) /\ (bhvs[j] \in Live \/ bhvs[j].prev = {})
    OBVIOUS
  <2>1. CASE j = k + 1
    BY <1>2, <1>7, <2>1
  <2>2. CASE j \in DOMAIN x.bhvs
    <3>1. bhvs[j] = x.bhvs[j]
      BY <1>6, <1>7, <2>2
    <3> QED BY <2>2, <3>1 DEF Grown
  <2> QED BY <1>9, <2>1, <2>2
<1>12. /\ y.bhvs = bhvs /\ y.names = names /\ names \subseteq NamesOf(bhvs)
       /\ y \in [bhvs : Seq(Behaviors), names : SUBSET Names]
  <2>1. names \in SUBSET Names
    BY <1>2, <1>4 DEF Behaviors
  <2>2. names \subseteq NamesOf(bhvs)
    BY <1>4, <1>10
  <2> HIDE DEF names
  <2> QED BY <1>7, <2>1, <2>2
<1> HIDE DEF y, names
<1>13. Grown(y) /\ More(x, y) /\ Answered(y, t, u)
  BY <1>2, <1>10, <1>11, <1>12 DEF Grown, More, Answered
<1>14. CASE u.name # <<>> /\ u.name \notin x.names /\ u.ok
  BY <1>3, <1>13, <1>14
<1>15. CASE ~(u.name # <<>> /\ u.name \notin x.names /\ u.ok)
  <2>1. Answered(x, t, u)
    BY <1>5, <1>15 DEF Answered
  <2> QED BY <1>3, <1>5, <1>15, <2>1
<1> QED BY <1>14, <1>15

(* What was answered stays so as more behaviors are added.                 *)
LEMMA MoreAnswers ==
  ASSUME NEW x, NEW y, NEW z, More(x, y), More(y, z)
  PROVE  More(x, z) /\ \A t, u : Answered(y, t, u) => Answered(z, t, u)
BY DEF More, Answered

(* A loop of steps that grow: f is what it has after each of them.         *)
LEMMA GrowingLoop ==
  ASSUME NEW n \in Nat, NEW f, NEW Done, Grown(f[0]),
         \A i \in 1 .. n : Grown(f[i - 1]) =>
           /\ Grown(f[i]) /\ More(f[i - 1], f[i])
           /\ \A p \in Done : p[1] = i => Answered(f[i], p[2], p[3]),
         \A p \in Done : p[1] \in 1 .. n
  PROVE  Grown(f[n]) /\ More(f[0], f[n]) /\ \A p \in Done : Answered(f[n], p[2], p[3])
<1> DEFINE So(i) == /\ Grown(f[i]) /\ More(f[0], f[i])
                    /\ \A p \in Done : p[1] <= i => Answered(f[i], p[2], p[3])
           T == {i \in 0 .. n : So(i)}
<1>1. 0 \in T
  <2>1. \A p \in Done : ~(p[1] <= 0)
    OBVIOUS
  <2>2. More(f[0], f[0])
    BY DEF More
  <2> QED BY <2>1, <2>2
<1>2. ASSUME NEW i \in 1 .. n, i - 1 \in T PROVE i \in T
  <2>1. i \in 0 .. n /\ \A p \in Done : p[1] <= i => p[1] = i \/ p[1] <= i - 1
    OBVIOUS
  <2>2. So(i - 1)
    BY <1>2
  <2>3. /\ Grown(f[i]) /\ More(f[i - 1], f[i])
        /\ \A p \in Done : p[1] = i => Answered(f[i], p[2], p[3])
    BY <2>2
  <2>4. More(f[0], f[i]) /\ \A t, u : Answered(f[i - 1], t, u) => Answered(f[i], t, u)
    BY <2>2, <2>3, MoreAnswers
  <2>5. \A p \in Done : p[1] <= i => Answered(f[i], p[2], p[3])
    BY <2>1, <2>2, <2>3, <2>4
  <2> QED BY <2>1, <2>3, <2>4, <2>5
<1>3. So(n)
  <2>1. \A i \in 0 .. n : i \in T
    <3> HIDE DEF T
    <3> QED BY <1>1, <1>2, UpTo
  <2> QED BY <2>1
<1>4. \A p \in Done : p[1] <= n
  OBVIOUS
<1> QED BY <1>3, <1>4

LEMMA SpawnAllGrows ==
  ASSUME deltas \in Seq(Updates), NEW t \in Templates, NEW x, Grown(x)
  PROVE  LET y == SpawnAll(Specs[t], x)
         IN  Grown(y) /\ More(x, y) /\ \A j \in DOMAIN deltas : Answered(y, t, deltas[j])
<1> DEFINE n == Len(deltas)
           A == {y \in [bhvs : Seq(Behaviors), names : SUBSET Names] : Grown(y)}
           Step(y, i) == Spawn(Specs[t], y, deltas[i])
           g == [p \in (1 .. n) \X A |-> Step(p[2], p[1])]
           Loop(q) == q = [i \in 0 .. n |-> IF i = 0 THEN x ELSE Step(q[i - 1], i)]
           f == CHOOSE q : Loop(q)
           Done == {<<j, t, deltas[j]>> : j \in 1 .. n}
<1>1. n \in Nat /\ x \in A /\ DOMAIN deltas = 1 .. n
  BY DEF Grown
<1>2. ASSUME NEW i \in 1 .. n, NEW y, Grown(y)
      PROVE  /\ Grown(Step(y, i)) /\ More(y, Step(y, i))
             /\ Answered(Step(y, i), t, deltas[i])
  <2>1. deltas[i] \in Updates
    BY ElementOfSeq
  <2> QED BY <1>2, <2>1, SpawnGrows
<1>3. g \in [(1 .. n) \X A -> A]
  <2> HIDE DEF Step, n
  <2>1. \A i \in 1 .. n, y \in A : Step(y, i) \in A
    BY <1>2 DEF Grown
  <2> HIDE DEF A
  <2> QED BY <2>1
<1>4. PICK r \in [0 .. n -> A] : Rounds(r, n, x, g)
  <2> HIDE DEF A, g, n
  <2> QED BY <1>1, <1>3, LoopExists
<1>5. ASSUME NEW i \in 1 .. n PROVE r[i] = Step(r[i - 1], i)
  <2> HIDE DEF A, Step, n
  <2>1. i - 1 \in 0 .. n
    BY <1>1
  <2>2. <<i, r[i - 1]>> \in (1 .. n) \X A
    BY <2>1
  <2> QED BY <1>4, <2>2 DEF g, Rounds
<1>6. Loop(r)
  <2> HIDE DEF A, Step, n
  <2> QED BY <1>1, <1>4, <1>5 DEF Rounds
<1>7. Loop(f)
  <2> HIDE DEF Loop
  <2> QED BY <1>6
<1>8. f[0] = x /\ \A i \in 1 .. n : f[i] = Step(f[i - 1], i)
  <2> HIDE DEF A, Step, n, f
  <2>1. 0 \in 0 .. n /\ \A i \in 1 .. n : i \in 0 .. n /\ i # 0
    BY <1>1
  <2> QED BY <1>7, <2>1
<1>9. /\ Grown(f[n]) /\ More(f[0], f[n])
      /\ \A p \in Done : Answered(f[n], p[2], p[3])
  <2> HIDE DEF Step, n, f
  <2>1. \A p \in Done : p[1] \in 1 .. n /\ p[2] = t /\ p[3] = deltas[p[1]]
    OBVIOUS
  <2>2. \A i \in 1 .. n : Grown(f[i - 1]) =>
          /\ Grown(f[i]) /\ More(f[i - 1], f[i])
          /\ \A p \in Done : p[1] = i => Answered(f[i], p[2], p[3])
    <3> HIDE DEF Done
    <3> QED BY <1>2, <1>8, <2>1
  <2> HIDE DEF Done
  <2> QED BY <1>1, <1>8, <2>1, <2>2, GrowingLoop
<1>10. SpawnAll(Specs[t], x) = f[n]
  BY DEF SpawnAll
<1>11. \A j \in 1 .. n : Answered(f[n], t, deltas[j])
  <2> HIDE DEF f, n
  <2> SUFFICES ASSUME NEW j \in 1 .. n PROVE Answered(f[n], t, deltas[j])
    OBVIOUS
  <2>1. <<j, t, deltas[j]>> \in Done
    OBVIOUS
  <2> HIDE DEF Done
  <2> QED BY <1>9, <2>1
<1> QED
  <2> HIDE DEF f, n
  <2> QED BY <1>1, <1>8, <1>9, <1>10, <1>11

LEMMA SpawningsGrow ==
  ASSUME deltas \in Seq(Updates), NEW x, Grown(x)
  PROVE  LET y == handlePossibleSpawnings(x)
         IN  /\ Grown(y)
             /\ \A t \in Templates, j \in DOMAIN deltas : Answered(y, t, deltas[j])
<1> DEFINE n == Len(Specs)
           A == {y \in [bhvs : Seq(Behaviors), names : SUBSET Names] : Grown(y)}
           Step(y, i) == IF Specs[i].templating = "" THEN y ELSE SpawnAll(Specs[i], y)
           g == [p \in (1 .. n) \X A |-> Step(p[2], p[1])]
           Loop(q) == q = [i \in 0 .. n |->
                             IF i = 0 THEN x
                             ELSE IF Specs[i].templating = "" THEN q[i - 1]
                             ELSE SpawnAll(Specs[i], q[i - 1])]
           f == CHOOSE q : Loop(q)
           Done == {<<t, t, deltas[j]>> : t \in Templates, j \in DOMAIN deltas}
<1>1. n \in Nat /\ x \in A /\ DOMAIN Specs = 1 .. n
  BY SpecsTyped DEF Grown
<1>2. ASSUME NEW i \in 1 .. n, NEW y, Grown(y)
      PROVE  /\ Grown(Step(y, i)) /\ More(y, Step(y, i))
             /\ i \in Templates => \A j \in DOMAIN deltas : Answered(Step(y, i), i, deltas[j])
  <2>1. CASE Specs[i].templating = ""
    BY <1>2, <2>1 DEF More, Templates
  <2>2. CASE Specs[i].templating # ""
    <3>1. i \in Templates
      BY <1>1, <2>2 DEF Templates
    <3>2. Step(y, i) = SpawnAll(Specs[i], y)
      BY <2>2
    <3> HIDE DEF Step
    <3> QED BY <1>2, <3>1, <3>2, SpawnAllGrows
  <2> QED BY <2>1, <2>2
<1>3. g \in [(1 .. n) \X A -> A]
  <2> HIDE DEF Step, n
  <2>1. \A i \in 1 .. n, y \in A : Step(y, i) \in A
    BY <1>2 DEF Grown
  <2> HIDE DEF A
  <2> QED BY <2>1
<1>4. PICK r \in [0 .. n -> A] : Rounds(r, n, x, g)
  <2> HIDE DEF A, g, n
  <2> QED BY <1>1, <1>3, LoopExists
<1>5. ASSUME NEW i \in 1 .. n PROVE r[i] = Step(r[i - 1], i)
  <2> HIDE DEF A, Step, n
  <2>1. i - 1 \in 0 .. n
    BY <1>1
  <2>2. <<i, r[i - 1]>> \in (1 .. n) \X A
    BY <2>1
  <2> QED BY <1>4, <2>2 DEF g, Rounds
<1>6. Loop(r)
  <2> HIDE DEF A, g, n
  <2>1. r[0] = x /\ \A i \in 0 .. n : i # 0 => i \in 1 .. n
    BY <1>1, <1>4 DEF Rounds
  <2>2. ASSUME NEW i \in 0 .. n
        PROVE  r[i] = IF i = 0 THEN x
                      ELSE IF Specs[i].templating = "" THEN r[i - 1]
                      ELSE SpawnAll(Specs[i], r[i - 1])
    <3>1. i # 0 => r[i] = Step(r[i - 1], i)
      <4> HIDE DEF Step
      <4> QED BY <1>5, <2>1
    <3> QED BY <2>1, <3>1
  <2> QED BY <2>2
<1>7. Loop(f)
  <2> HIDE DEF Loop
  <2> QED BY <1>6
<1>8. f[0] = x /\ \A i \in 1 .. n : f[i] = Step(f[i - 1], i)
  <2> HIDE DEF A, n, f
  <2>1. 0 \in 0 .. n /\ \A i \in 1 .. n : i \in 0 .. n /\ i # 0
    BY <1>1
  <2> QED BY <1>7, <2>1
<1>9. Grown(f[n]) /\ \A p \in Done : Answered(f[n], p[2], p[3])
  <2>1. \A p \in Done : /\ p[1] \in 1 .. n /\ p[1] \in Templates /\ p[2] = p[1]
                        /\ \E j \in DOMAIN deltas : p[3] = deltas[j]
    <3>1. \A t \in Templates : t \in 1 .. n
      BY <1>1 DEF Templates
    <3> HIDE DEF n
    <3> QED BY <3>1
  <2> HIDE DEF Step, n, f, Done
  <2>2. \A i \in 1 .. n : Grown(f[i - 1]) =>
          /\ Grown(f[i]) /\ More(f[i - 1], f[i])
          /\ \A p \in Done : p[1] = i => Answered(f[i], p[2], p[3])
    BY <1>2, <1>8, <2>1
  <2> QED BY <1>1, <1>8, <2>1, <2>2, GrowingLoop
<1>10. handlePossibleSpawnings(x) = f[n]
  BY DEF handlePossibleSpawnings
<1>11. ASSUME NEW t \in Templates, NEW j \in DOMAIN deltas PROVE Answered(f[n], t, deltas[j])
  <2> HIDE DEF f, n
  <2>1. <<t, t, deltas[j]>> \in Done
    OBVIOUS
  <2> HIDE DEF Done
  <2> QED BY <1>9, <2>1
<1> QED
  <2> HIDE DEF f, n
  <2> QED BY <1>9, <1>10, <1>11

------------------------------------------------------------------------------
(* The invariant.                                                          *)

LEMMA NoDeltas == MaxDeltas \in Nat /\ <<>> \in Seq(Updates) /\ Len(<<>>) <= MaxDeltas
<1>1. {MaxDeltas, MaxBehaviors} \subseteq Nat
  BY BehaviorsAssumption, Zenon
<1> QED BY <1>1

LEMMA InitHolds == Init => IInv
<1> SUFFICES ASSUME Init PROVE IInv
  OBVIOUS
<1> DEFINE ps == {i \in DOMAIN Specs : Specs[i].templating # "spawn"}
           n == Len(Launched)
<1>1. Launched \in Seq(Blocks) /\ Picks(Launched, Specs, ps)
  BY SpecsTyped, AtPlacesPicks DEF Launched
<1>2. n \in Nat /\ DOMAIN Launched = 1 .. n
  BY <1>1
<1>3. PICK at \in [1 .. n -> ps] : \A p \in 1 .. n : Launched[p] = Specs[at[p]]
  BY <1>1 DEF Picks
<1> DEFINE B(p) == Behavior(Specs[at[p]], <<>>, 0)
           nm(p) == Name(Specs[at[p]].prefix, <<>>)
<1>4. m_bhv_entry = [p \in 1 .. n |-> B(p)] /\ m_bhv_names = {nm(p) : p \in 1 .. n}
  <2> HIDE DEF n
  <2> QED BY <1>2, <1>3 DEF Init
<1>5. ASSUME NEW p \in 1 .. n
      PROVE  B(p) \in Behaviors /\ B(p).name = nm(p) /\ Truth(B(p))
  <2>1. at[p] \in DOMAIN Specs /\ 0 \in Speeds
    BY DEF Speeds
  <2> QED BY <2>1, NewBehavior
<1> HIDE DEF n, B, nm, ps
<1>6. /\ m_bhv_entry \in Seq(Behaviors) /\ DOMAIN m_bhv_entry = 1 .. n
      /\ \A p \in 1 .. n : m_bhv_entry[p] = B(p)
  BY <1>2, <1>4, <1>5
<1>7. m_bhv_names \subseteq NamesOf(m_bhv_entry) /\ m_bhv_names \subseteq Names
  <2>1. \A p \in 1 .. n : nm(p) = m_bhv_entry[p].name /\ nm(p) \in Names
    BY <1>5, <1>6 DEF Behaviors
  <2> QED BY <1>4, <1>6, <2>1 DEF NamesOf
<1>8. deltas \in Seq(Updates) /\ Len(deltas) <= MaxDeltas /\ gone = {}
  <2>1. deltas = <<>> /\ gone = {}
    BY DEF Init
  <2> QED BY <2>1, NoDeltas
<1>9. TypeOK
  BY <1>6, <1>7, <1>8 DEF TypeOK
<1>10. \A i \in DOMAIN m_bhv_entry : Truth(m_bhv_entry[i])
  BY <1>5, <1>6
<1> QED BY <1>7, <1>8, <1>9, <1>10 DEF IInv

LEMMA GrownAtFirst ==
  ASSUME IInv PROVE Grown([bhvs |-> m_bhv_entry, names |-> m_bhv_names])
<1> DEFINE x == [bhvs |-> m_bhv_entry, names |-> m_bhv_names]
<1>1. x.bhvs = m_bhv_entry /\ x.names = m_bhv_names
  OBVIOUS
<1>2. x \in [bhvs : Seq(Behaviors), names : SUBSET Names]
  BY DEF IInv, TypeOK
<1> HIDE DEF x
<1>3. Grown(x)
  BY <1>1, <1>2 DEF Grown, IInv, Live
<1> QED BY <1>3 DEF x

(* An iteration as its parts: s is what spawning leaves, bhvs what asking  *)
(* makes of it, of which over is removed.                                  *)
Round(s, choice, asked, bhvs, over) ==
  /\ Grown(s) /\ \A t \in Templates, j \in DOMAIN deltas : Answered(s, t, deltas[j])
  /\ choice \in [DOMAIN s.bhvs -> Outcomes]
  /\ asked = Asked(s.bhvs, HasFilters(m_bhv_entry), choice)
  /\ bhvs \in Seq(Behaviors) /\ Len(bhvs) = Len(s.bhvs)
  /\ \A i \in 1 .. Len(bhvs) :
       bhvs[i] = IF i \in asked THEN produceOF(s.bhvs[i], choice[i]) ELSE s.bhvs[i]
  /\ over = {i \in 1 .. Len(bhvs) : bhvs[i].state = "completed"}
  /\ m_bhv_entry' \in Seq(Behaviors)
  /\ Picks(m_bhv_entry', bhvs, (1 .. Len(bhvs)) \ over)
  /\ gone' = {bhvs[i] : i \in over}
  /\ m_bhv_names' = s.names \ {bhvs[i].name : i \in over}

LEMMA IterateRound ==
  ASSUME IInv, Iterate
  PROVE  \E s, choice, asked, bhvs, over : Round(s, choice, asked, bhvs, over)
<1> DEFINE s == handlePossibleSpawnings([bhvs |-> m_bhv_entry, names |-> m_bhv_names])
           n == Len(s.bhvs)
<1>1. deltas \in Seq(Updates)
  BY DEF IInv, TypeOK
<1>2. Grown(s) /\ \A t \in Templates, j \in DOMAIN deltas : Answered(s, t, deltas[j])
  BY <1>1, GrownAtFirst, SpawningsGrow
<1>3. PICK choice \in [DOMAIN s.bhvs -> Outcomes] :
        LET asked == Asked(s.bhvs, HasFilters(m_bhv_entry), choice)
            bhvs  == [i \in DOMAIN s.bhvs |->
                        IF i \in asked THEN produceOF(s.bhvs[i], choice[i]) ELSE s.bhvs[i]]
            over  == {i \in DOMAIN bhvs : bhvs[i].state = "completed"}
        IN  /\ m_bhv_entry' = AtPlaces(bhvs, DOMAIN bhvs \ over)
            /\ gone' = {bhvs[i] : i \in over}
            /\ m_bhv_names' = Removed(s.names, gone')
  BY Zenon DEF Iterate
<1> DEFINE asked == Asked(s.bhvs, HasFilters(m_bhv_entry), choice)
           bhvs == [i \in DOMAIN s.bhvs |->
                      IF i \in asked THEN produceOF(s.bhvs[i], choice[i]) ELSE s.bhvs[i]]
           over == {i \in DOMAIN bhvs : bhvs[i].state = "completed"}
<1>4. /\ m_bhv_entry' = AtPlaces(bhvs, DOMAIN bhvs \ over)
      /\ gone' = {bhvs[i] : i \in over}
      /\ m_bhv_names' = Removed(s.names, gone')
  BY <1>3, Zenon
<1> HIDE DEF s, asked
<1>5. s.bhvs \in Seq(Behaviors) /\ n \in Nat /\ DOMAIN s.bhvs = 1 .. n
  BY <1>2 DEF Grown
<1>6. ASSUME NEW i \in 1 .. n
      PROVE  (IF i \in asked THEN produceOF(s.bhvs[i], choice[i]) ELSE s.bhvs[i]) \in Behaviors
  <2>1. s.bhvs[i] \in Behaviors /\ Truth(s.bhvs[i]) /\ choice[i] \in Outcomes
    BY <1>2, <1>5, ElementOfSeq DEF Grown
  <2>2. produceOF(s.bhvs[i], choice[i]) \in Behaviors
    BY <1>1, <2>1, AskingTells
  <2> QED BY <2>1, <2>2
<1>7. bhvs \in Seq(Behaviors) /\ Len(bhvs) = n /\ DOMAIN bhvs = 1 .. n
  <2>1. bhvs \in [1 .. n -> Behaviors]
    <3> HIDE DEF n
    <3> QED BY <1>5, <1>6
  <2> HIDE DEF bhvs, n
  <2> QED BY <1>5, <2>1
<1>8. \A i \in 1 .. n :
        bhvs[i] = IF i \in asked THEN produceOF(s.bhvs[i], choice[i]) ELSE s.bhvs[i]
  <2> HIDE DEF n
  <2> QED BY <1>5, Zenon
<1> HIDE DEF bhvs, n
<1>9. over = {i \in 1 .. n : bhvs[i].state = "completed"} /\ DOMAIN bhvs \ over \in SUBSET DOMAIN bhvs
  BY <1>7
<1> HIDE DEF over
<1>10. m_bhv_entry' \in Seq(Behaviors) /\ Picks(m_bhv_entry', bhvs, (1 .. n) \ over)
  BY <1>4, <1>7, <1>9, AtPlacesPicks
<1>11. m_bhv_names' = s.names \ {bhvs[i].name : i \in over}
  BY <1>4 DEF Removed
<1>12. Round(s, choice, asked, bhvs, over)
  BY <1>2, <1>4, <1>5, <1>7, <1>8, <1>9, <1>10, <1>11 DEF Round, n, asked
<1> QED BY <1>12

(* What is asked has told the truth or ended.                              *)
LEMMA RoundTells ==
  ASSUME IInv, NEW s, NEW choice, NEW asked, NEW bhvs, NEW over,
         Round(s, choice, asked, bhvs, over), NEW i \in 1 .. Len(bhvs)
  PROVE  /\ bhvs[i] \in Behaviors /\ bhvs[i].name = s.bhvs[i].name
         /\ i \in over => Over(bhvs[i])
         /\ i \notin over => Truth(bhvs[i])
<1>1. /\ Grown(s) /\ choice \in [DOMAIN s.bhvs -> Outcomes]
      /\ bhvs \in Seq(Behaviors) /\ Len(bhvs) = Len(s.bhvs)
      /\ bhvs[i] = IF i \in asked THEN produceOF(s.bhvs[i], choice[i]) ELSE s.bhvs[i]
      /\ i \in over <=> bhvs[i].state = "completed"
  BY DEF Round
<1>2. i \in DOMAIN s.bhvs /\ s.bhvs[i] \in Behaviors /\ Truth(s.bhvs[i])
  BY <1>1, ElementOfSeq DEF Grown
<1>3. choice[i] \in Outcomes /\ deltas \in Seq(Updates)
  BY <1>1, <1>2 DEF IInv, TypeOK
<1>4. CASE i \in asked
  <2>1. bhvs[i] = produceOF(s.bhvs[i], choice[i])
    BY <1>1, <1>4
  <2> QED BY <1>1, <1>2, <1>3, <2>1, AskingTells
<1>5. CASE i \notin asked
  <2>1. bhvs[i] = s.bhvs[i]
    BY <1>1, <1>5
  <2> QED BY <1>1, <1>2, <2>1 DEF Truth
<1> QED BY <1>4, <1>5

LEMMA IterateHolds ==
  ASSUME IInv, Iterate PROVE IInv'
<1>1. PICK s, choice, asked, bhvs, over : Round(s, choice, asked, bhvs, over)
  BY IterateRound
<1> DEFINE n == Len(bhvs)
           left == m_bhv_entry'
           k == Len(left)
<1>2. /\ Grown(s) /\ bhvs \in Seq(Behaviors) /\ n = Len(s.bhvs) /\ over \subseteq 1 .. n
      /\ left \in Seq(Behaviors) /\ Picks(left, bhvs, (1 .. n) \ over)
      /\ gone' = {bhvs[i] : i \in over}
      /\ m_bhv_names' = s.names \ {bhvs[i].name : i \in over}
  BY <1>1 DEF Round
<1>3. /\ n \in Nat /\ k \in Nat /\ DOMAIN left = 1 .. k
      /\ s.bhvs \in Seq(Behaviors) /\ DOMAIN s.bhvs = 1 .. n
  BY <1>2 DEF Grown
<1>4. \A i \in 1 .. n : /\ bhvs[i] \in Behaviors /\ bhvs[i].name = s.bhvs[i].name
                        /\ i \in over => Over(bhvs[i])
                        /\ i \notin over => Truth(bhvs[i])
  BY <1>1, RoundTells
<1> HIDE DEF n, k, left
<1>5. PICK at \in [1 .. k -> (1 .. n) \ over] :
        /\ \A p \in 1 .. k : left[p] = bhvs[at[p]]
        /\ \A i \in (1 .. n) \ over : \E p \in 1 .. k : at[p] = i
  BY <1>2 DEF Picks, k
<1>6. \A p \in 1 .. k : at[p] \in 1 .. n /\ at[p] \notin over
  BY <1>5
<1>7. \A p \in DOMAIN left : Truth(left[p])
  BY <1>3, <1>4, <1>5, <1>6
<1>8. gone' \subseteq Behaviors /\ \A b \in gone' : Over(b)
  BY <1>2, <1>4
<1>9. m_bhv_names' \subseteq NamesOf(left)
  <2> SUFFICES ASSUME NEW m \in m_bhv_names' PROVE \E p \in 1 .. k : m = left[p].name
    BY <1>3 DEF NamesOf
  <2>1. m \in NamesOf(s.bhvs) /\ m \notin {bhvs[i].name : i \in over}
    BY <1>2 DEF Grown
  <2>2. PICK i \in 1 .. n : m = s.bhvs[i].name
    BY <1>3, <2>1 DEF NamesOf
  <2>3. m = bhvs[i].name /\ i \notin over
    BY <1>4, <2>1, <2>2
  <2>4. PICK p \in 1 .. k : at[p] = i
    BY <1>5, <2>2, <2>3
  <2> QED BY <1>5, <2>3, <2>4
<1>10. m_bhv_names' \subseteq Names
  BY <1>2 DEF Grown
<1>11. deltas' \in Seq(Updates) /\ Len(deltas') <= MaxDeltas
  BY NoDeltas DEF Iterate
<1>12. TypeOK'
  BY <1>2, <1>8, <1>10, <1>11 DEF TypeOK, left
<1> QED BY <1>7, <1>8, <1>9, <1>12 DEF IInv, left

LEMMA NextHolds == IInv /\ [Next]_vars => IInv'
<1> SUFFICES ASSUME IInv, [Next]_vars PROVE IInv'
  OBVIOUS
<1>1. CASE Iterate
  BY <1>1, IterateHolds
<1>2. ASSUME NEW u \in Updates, Update(u) PROVE IInv'
  <2>1. /\ deltas' = Append(deltas, u) /\ Len(deltas) < MaxDeltas
        /\ m_bhv_entry' = m_bhv_entry /\ m_bhv_names' = m_bhv_names /\ gone' = gone
    BY <1>2 DEF Update
  <2>2. deltas \in Seq(Updates)
    BY DEF IInv, TypeOK
  <2>3. deltas' \in Seq(Updates) /\ Len(deltas') <= MaxDeltas
    BY <2>1, <2>2, NoDeltas
  <2> QED BY <2>1, <2>3 DEF IInv, TypeOK
<1>3. CASE UNCHANGED vars
  BY <1>3 DEF vars, IInv, TypeOK
<1> QED BY <1>1, <1>2, <1>3 DEF Next

(* The invariant, of every mission.                                        *)
THEOREM Invariant == Spec => []IInv
<1>1. Init => IInv
  BY InitHolds
<1>2. IInv /\ [Next]_vars => IInv'
  BY NextHolds
<1> QED BY <1>1, <1>2, PTL DEF Spec

(* The states, names, parameters and flags stay in their types: what       *)
(* checkUpdates and produceOF leave is a behavior of the mission.          *)
THEOREM TypeCorrect == Spec => []TypeOK
<1>1. IInv => TypeOK
  BY DEF IInv
<1> QED BY <1>1, Invariant, PTL

(* A good update with a name, the second of two alerts for one contact or  *)
(* one that uses the full name, leaves an iteration with a behavior of the *)
(* name it gives or of the one a template makes of it: no name stays taken *)
(* by a behavior that is no more.                                          *)
THEOREM EachAlert == Spec => AlertsAnswered
<1> DEFINE Answers == deltas' = <<>> =>
             \A j \in DOMAIN deltas, t \in Templates :
               deltas[j].name # <<>> /\ deltas[j].ok =>
                 \E b \in Live' \cup gone' :
                   b.name \in {deltas[j].name, Name(Specs[t].prefix, deltas[j].name)}
<1>1. IInv /\ [Next]_vars => [Answers]_vars
  <2> SUFFICES ASSUME IInv, Next PROVE Answers
    OBVIOUS
  <2>1. CASE Iterate
    <3> SUFFICES ASSUME NEW j \in DOMAIN deltas, NEW t \in Templates,
                        deltas[j].name # <<>>, deltas[j].ok
                 PROVE  \E b \in Live' \cup gone' :
                          b.name \in {deltas[j].name, Name(Specs[t].prefix, deltas[j].name)}
      OBVIOUS
    <3>1. PICK s, choice, asked, bhvs, over : Round(s, choice, asked, bhvs, over)
      BY <2>1, IterateRound
    <3> DEFINE n == Len(bhvs)
               k == Len(m_bhv_entry')
    <3>2. /\ Grown(s) /\ Answered(s, t, deltas[j]) /\ n = Len(s.bhvs)
          /\ m_bhv_entry' \in Seq(Behaviors) /\ Picks(m_bhv_entry', bhvs, (1 .. n) \ over)
          /\ gone' = {bhvs[i] : i \in over}
      BY <3>1 DEF Round
    <3>3. DOMAIN s.bhvs = 1 .. n /\ DOMAIN m_bhv_entry' = 1 .. k
      BY <3>2 DEF Grown
    <3>4. PICK m \in {deltas[j].name, Name(Specs[t].prefix, deltas[j].name)} : m \in NamesOf(s.bhvs)
      BY <3>2 DEF Answered
    <3>5. PICK i \in 1 .. n : m = s.bhvs[i].name
      BY <3>3, <3>4 DEF NamesOf
    <3>6. bhvs[i].name = m
      BY <3>1, <3>5, RoundTells
    <3>7. CASE i \in over
      <4>1. bhvs[i] \in gone'
        BY <3>2, <3>7
      <4> QED BY <3>4, <3>6, <4>1
    <3>8. CASE i \notin over
      <4> HIDE DEF n
      <4>1. PICK p \in 1 .. k : m_bhv_entry'[p] = bhvs[i]
        BY <3>2, <3>8 DEF Picks
      <4>2. bhvs[i] \in Live'
        BY <3>3, <4>1 DEF Live
      <4> QED BY <3>4, <3>6, <4>2
    <3> QED BY <3>7, <3>8
  <2>2. ASSUME NEW u \in Updates, Update(u) PROVE deltas' # <<>>
    <3>1. deltas \in Seq(Updates) /\ deltas' = Append(deltas, u)
      BY <2>2 DEF IInv, TypeOK, Update
    <3> QED BY <3>1
  <2> QED BY <2>1, <2>2 DEF Next
<1>2. Spec => [][Answers]_vars
  <2> HIDE DEF Answers
  <2> QED BY <1>1, Invariant, PTL DEF Spec
<1> QED BY <1>2, Zenon DEF AlertsAnswered

(* runflags, idleflags, activeflags and inactiveflags tell the state of a  *)
(* behavior in the helm, in whatever order errors, completions of others   *)
(* and its own states come, and when others have its name.                 *)
THEOREM TrueFlags == Spec => []FlagsTruthful
<1>1. IInv => FlagsTruthful
  <2> SUFFICES ASSUME IInv, NEW b \in Live
               PROVE  /\ b.flags.run = CASE b.state = "" -> "" [] b.state = "idle" -> "idle"
                                          [] OTHER -> "running"
                      /\ b.flags.active = "active" <=> b.state = "active"
    BY Zenon DEF FlagsTruthful
  <2>1. Truth(b)
    BY DEF IInv, Live
  <2> QED BY <2>1, Zenon DEF Truth
<1> QED BY <1>1, Invariant, PTL

(* A behavior that is not perpetual posts its endflags once, and only one  *)
(* that has posted them is removed.                                        *)
THEOREM OneEnd == Spec => []EndsOnce
<1>1. IInv => EndsOnce
  <2> SUFFICES ASSUME IInv PROVE EndsOnce
    OBVIOUS
  <2>1. \A b \in Live : Truth(b)
    BY DEF IInv, Live
  <2>2. \A b \in gone : Over(b)
    BY DEF IInv
  <2> QED BY <2>1, <2>2, Zenon DEF EndsOnce, Truth, Over
<1> QED BY <1>1, Invariant, PTL

------------------------------------------------------------------------------
(* Updates.                                                                *)

(* Where nothing goes wrong, every behavior is asked in every iteration.   *)
LEMMA EachAsked ==
  ASSUME Careful, IInv, Iterate, NEW p \in DOMAIN m_bhv_entry'
  PROVE  \E b \in Behaviors : \E o \in Outcomes :
           (b \in Live \/ b.prev = {}) /\ m_bhv_entry'[p] = produceOF(b, o)
<1>1. PICK s, choice, asked, bhvs, over : Round(s, choice, asked, bhvs, over)
  BY IterateRound
<1> DEFINE n == Len(bhvs)
           k == Len(m_bhv_entry')
<1>2. /\ Grown(s) /\ choice \in [DOMAIN s.bhvs -> Outcomes] /\ n = Len(s.bhvs)
      /\ asked = Asked(s.bhvs, HasFilters(m_bhv_entry), choice) /\ bhvs \in Seq(Behaviors)
      /\ \A i \in 1 .. n :
           bhvs[i] = IF i \in asked THEN produceOF(s.bhvs[i], choice[i]) ELSE s.bhvs[i]
      /\ m_bhv_entry' \in Seq(Behaviors) /\ Picks(m_bhv_entry', bhvs, (1 .. n) \ over)
  BY <1>1 DEF Round
<1>3. /\ n \in Nat /\ DOMAIN s.bhvs = 1 .. n /\ DOMAIN m_bhv_entry' = 1 .. k
      /\ \A i \in 1 .. n : /\ s.bhvs[i] \in Behaviors
                           /\ (s.bhvs[i] \in Live \/ s.bhvs[i].prev = {})
  BY <1>2, ElementOfSeq DEF Grown
<1> HIDE DEF n
<1>4. ASSUME NEW i \in 1 .. n PROVE s.bhvs[i].level = 0 /\ StateOK(s.bhvs[i], choice[i])
  <2>1. s.bhvs[i].level \in Levels
    BY <1>3 DEF Behaviors
  <2>2. choice[i] \in Outcomes
    BY <1>2, <1>3
  <2> QED BY <2>1, <2>2 DEF Careful, Levels, StateOK
<1>5. \A i \in 1 .. n : i \in asked
  <2> SUFFICES ASSUME NEW i \in 1 .. n PROVE i \in AskedAt(s.bhvs, 0, choice)
    BY <1>2 DEF Asked
  <2>1. \A j \in 1 .. i - 1 : j \in 1 .. n
    BY <1>3
  <2> QED BY <1>3, <1>4, <2>1 DEF AskedAt
<1>6. PICK i \in 1 .. n : m_bhv_entry'[p] = bhvs[i]
  <2>1. p \in 1 .. k
    BY <1>3
  <2> QED BY <1>2, <2>1 DEF Picks
<1>7. choice[i] \in Outcomes /\ bhvs[i] = produceOF(s.bhvs[i], choice[i])
  BY <1>2, <1>3, <1>5
<1> QED BY <1>3, <1>6, <1>7

(* Every behavior knows what its last good update was.                     *)
Remembering == \A b \in Live : Remembered(b)

LEMMA IterateRemembers ==
  ASSUME Careful, IInv, Remembering, Iterate, NEW p \in DOMAIN m_bhv_entry'
  PROVE  /\ Remembered(m_bhv_entry'[p])
         /\ \A j \in DOMAIN deltas :
              /\ Addressed(m_bhv_entry'[p], deltas[j])
              /\ \A k \in j + 1 .. Len(deltas) : ~Addressed(m_bhv_entry'[p], deltas[k])
              => m_bhv_entry'[p].speed = deltas[j].speed
<1>1. PICK b \in Behaviors, o \in Outcomes :
        (b \in Live \/ b.prev = {}) /\ m_bhv_entry'[p] = produceOF(b, o)
  BY EachAsked
<1> DEFINE c == checkUpdates(b)
           d == produceOF(b, o)
<1>2. /\ deltas \in Seq(Updates) /\ \A u \in Updates : u.ok
      /\ \A u, v \in Updates : u.name = <<>> /\ v.name # <<>> => u.toggle
  BY DEF IInv, TypeOK, Careful
<1>3. Remembered(b)
  BY <1>1 DEF Remembering, Remembered
<1>4. c \in Behaviors /\ Same(b, c)
  BY <1>2, UpdatesKeep
<1>5. /\ Remembered(c)
      /\ \A j \in DOMAIN deltas :
           /\ Addressed(b, deltas[j])
           /\ \A k \in j + 1 .. Len(deltas) : ~Addressed(b, deltas[k])
           => c.speed = deltas[j].speed
  BY <1>2, <1>3, LastApplied
<1>6. d = [c EXCEPT !.state = NewState(b, o), !.completed = @ \/ Completes(b, Ends(b, o)),
                    !.flags = PostFlags(@, b.state, NewState(b, o), Ends(b, o))]
  BY DEF produceOF
<1> HIDE DEF c, d
<1>7. d.name = b.name /\ d.speed = c.speed /\ d.prev = c.prev
  BY <1>4, <1>6 DEF Behaviors, Same
<1>8. Remembered(d) /\ \A u : Addressed(d, u) <=> Addressed(b, u)
  BY <1>5, <1>7 DEF Remembered, Addressed
<1> QED BY <1>1, <1>5, <1>7, <1>8 DEF d

(* In a careful mission the last update for a behavior is in force after   *)
(* the iteration that read it, also one skipped as a repetition: checked   *)
(* on small instances, each of the conditions is needed.                   *)
THEOREM UpdatesInForce ==
  ASSUME Careful PROVE Spec => LastUpdateInForce
<1> DEFINE Kept == IInv /\ Remembering
           Lasting == deltas' = <<>> =>
             \A i \in DOMAIN m_bhv_entry', j \in DOMAIN deltas :
               LET b == m_bhv_entry'[i]
               IN  /\ Addressed(b, deltas[j]) /\ deltas[j].ok
                   /\ \A k \in j + 1 .. Len(deltas) : ~Addressed(b, deltas[k])
                   => b.speed = deltas[j].speed
<1>1. Init => Kept
  <2> SUFFICES ASSUME Init PROVE Remembering
    BY InitHolds
  <2>1. ASSUME NEW i \in DOMAIN m_bhv_entry PROVE m_bhv_entry[i].prev = {}
    <3>1. m_bhv_entry = [k \in DOMAIN Launched |-> Behavior(Launched[k], <<>>, 0)]
      BY DEF Init
    <3>2. m_bhv_entry[i] = Behavior(Launched[i], <<>>, 0)
      BY <3>1
    <3>3. Behavior(Launched[i], <<>>, 0).prev = {}
      BY DEF Behavior
    <3> QED BY <3>2, <3>3, Zenon
  <2> QED BY <2>1 DEF Remembering, Remembered, Live
<1>2. Kept /\ [Next]_vars => Kept'
  <2> SUFFICES ASSUME Kept, [Next]_vars PROVE Remembering'
    BY NextHolds
  <2>1. CASE Iterate
    <3> SUFFICES ASSUME NEW p \in DOMAIN m_bhv_entry' PROVE Remembered(m_bhv_entry'[p])
      BY DEF Remembering, Live
    <3> QED BY <2>1, IterateRemembers
  <2>2. CASE m_bhv_entry' = m_bhv_entry
    BY <2>2 DEF Remembering, Live
  <2> QED BY <2>1, <2>2 DEF Next, Update, vars
<1>3. Kept /\ [Next]_vars => [Lasting]_vars
  <2> SUFFICES ASSUME Kept, Next PROVE Lasting
    OBVIOUS
  <2>1. CASE Iterate
    <3> HIDE DEF Lasting
    <3> SUFFICES ASSUME NEW i \in DOMAIN m_bhv_entry', NEW j \in DOMAIN deltas,
                        /\ Addressed(m_bhv_entry'[i], deltas[j]) /\ deltas[j].ok
                        /\ \A k \in j + 1 .. Len(deltas) : ~Addressed(m_bhv_entry'[i], deltas[k])
                 PROVE  m_bhv_entry'[i].speed = deltas[j].speed
      BY Zenon DEF Lasting
    <3> QED BY <2>1, IterateRemembers
  <2>2. ASSUME NEW u \in Updates, Update(u) PROVE deltas' # <<>>
    <3>1. deltas \in Seq(Updates) /\ deltas' = Append(deltas, u)
      BY <2>2 DEF IInv, TypeOK, Update
    <3> QED BY <3>1
  <2> QED BY <2>1, <2>2 DEF Next
<1>4. Spec => [][Lasting]_vars
  <2> HIDE DEF Kept, Lasting
  <2> QED BY <1>1, <1>2, <1>3, PTL DEF Spec
<1> QED BY <1>4, Zenon DEF LastUpdateInForce
=============================================================================
