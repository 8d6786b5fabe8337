---------------------------- MODULE MOOSDBProofs ----------------------------
(***************************************************************************)
(* What the MOOSDB promises its clients, for any clients, variables and    *)
(* wildcards: who registered for every change of a variable will know the  *)
(* latest one, a wildcard covers what it matches, nothing is kept for a    *)
(* client that has gone, and mail never comes out of order.                *)
(***************************************************************************)
EXTENDS MOOSDB, FiniteSetTheorems, SequenceTheorems, TLAPS

------------------------------------------------------------------------------
(* Boxes.                                                                  *)

(* If a box says anything of a variable, one message is the last to.       *)
HasLatest(box) ==
  \A v \in Vars, k \in DOMAIN box :
    box[k].key = v => \E i \in DOMAIN box :
                        /\ box[i].key = v
                        /\ \A j \in DOMAIN box : box[j].key = v => i >= j

(* A box that does not mention a variable teaches nothing of it.           *)
LEMMA LearnNothing ==
  ASSUME NEW c, NEW box, NEW v \in Vars,
         \A i \in DOMAIN box : box[i].key # v
  PROVE  Learn(c, box)[v] = seen[c][v]
BY DEF Learn

(* The last message about a variable is what its reader comes to know.     *)
LEMMA LearnLast ==
  ASSUME NEW c, NEW box \in Seq(Message), NEW v \in Vars,
         NEW i \in DOMAIN box, box[i].key = v,
         \A j \in DOMAIN box : box[j].key = v => i >= j
  PROVE  Learn(c, box)[v] = box[i].stamp
<1> DEFINE about == {j \in DOMAIN box : box[j].key = v}
<1>1. i \in about /\ \A j \in about : i >= j
  OBVIOUS
<1>2. about \subseteq Nat
  OBVIOUS
<1>3. \A x \in about : (\A j \in about : x >= j) => x = i
  BY <1>1, <1>2
<1>4. Max(about) = i
  <2> HIDE DEF about
  <2>1. \E x \in about : \A j \in about : x >= j BY <1>1
  <2>2. Max(about) \in about /\ \A j \in about : Max(about) >= j
    BY <2>1 DEF Max
  <2>3. QED BY <2>2, <1>3
<1>5. about # {} BY <1>1
<1>6. Learn(c, box)[v] = IF about = {} THEN seen[c][v] ELSE box[Max(about)].stamp
  BY DEF Learn
<1>7. QED BY <1>4, <1>5, <1>6

(* What a client knows when it has read a box is a stamp for each variable.*)
LEMMA LearnType ==
  ASSUME NEW c \in Clients, NEW box \in Seq(Message), HasLatest(box),
         seen \in [Clients -> [Vars -> Nat]]
  PROVE  Learn(c, box) \in [Vars -> Nat]
<1> DEFINE known(v) == LET about == {i \in DOMAIN box : box[i].key = v} IN
                       IF about = {} THEN seen[c][v] ELSE box[Max(about)].stamp
<1>1. Learn(c, box) = [v \in Vars |-> known(v)] BY DEF Learn
<1> HIDE DEF known
<1>2. ASSUME NEW v \in Vars PROVE known(v) \in Nat
  <2>1. Learn(c, box)[v] = known(v) BY <1>1
  <2>2. CASE \A i \in DOMAIN box : box[i].key # v
    BY <2>1, <2>2, LearnNothing
  <2>3. CASE \E k \in DOMAIN box : box[k].key = v
    <3>1. PICK i \in DOMAIN box :
            box[i].key = v /\ \A j \in DOMAIN box : box[j].key = v => i >= j
      BY <2>3 DEF HasLatest
    <3>2. Learn(c, box)[v] = box[i].stamp BY <3>1, LearnLast
    <3>3. box[i] \in Message OBVIOUS
    <3>4. QED BY <2>1, <3>2, <3>3 DEF Message
  <2>4. QED BY <2>2, <2>3
<1>3. QED BY <1>1, <1>2

(* An empty box teaches nothing.                                           *)
LEMMA LearnEmpty ==
  ASSUME NEW c \in Clients, seen \in [Clients -> [Vars -> Nat]]
  PROVE  Learn(c, <<>>) = seen[c] /\ HasLatest(<<>>)
BY DEF Learn, HasLatest

(* One more message is what its reader knows of its variable.              *)
LEMMA LearnAppend ==
  ASSUME NEW c \in Clients, NEW box \in Seq(Message), HasLatest(box), NEW m \in Message
  PROVE  /\ Append(box, m) \in Seq(Message) /\ HasLatest(Append(box, m))
         /\ Learn(c, Append(box, m))[m.key] = m.stamp
         /\ \A v \in Vars \ {m.key} : Learn(c, Append(box, m))[v] = Learn(c, box)[v]
<1> DEFINE more == Append(box, m)
<1>1. /\ more \in Seq(Message) /\ Len(more) = Len(box) + 1
      /\ \A i \in 1 .. Len(box) : more[i] = box[i]
      /\ more[Len(box) + 1] = m
      /\ DOMAIN more = 1 .. Len(box) + 1 /\ DOMAIN box = 1 .. Len(box) /\ Len(box) \in Nat
  BY AppendProperties, LenProperties
<1> HIDE DEF more
<1>2. m.key \in Vars BY DEF Message
<1>3. Learn(c, more)[m.key] = m.stamp
  BY <1>1, <1>2, LearnLast
<1>4. ASSUME NEW v \in Vars \ {m.key}
      PROVE  /\ Learn(c, more)[v] = Learn(c, box)[v]
             /\ \A k \in DOMAIN more : more[k].key = v =>
                  \E i \in DOMAIN more : /\ more[i].key = v
                                         /\ \A j \in DOMAIN more : more[j].key = v => i >= j
  <2>1. \A j \in DOMAIN more : more[j].key = v => j \in DOMAIN box /\ box[j].key = v
    BY <1>1
  <2>2. CASE \A i \in DOMAIN box : box[i].key # v
    <3>1. \A i \in DOMAIN more : more[i].key # v BY <2>1, <2>2
    <3>2. QED BY <3>1, <2>2, LearnNothing
  <2>3. CASE \E k \in DOMAIN box : box[k].key = v
    <3>1. PICK i \in DOMAIN box :
            box[i].key = v /\ \A j \in DOMAIN box : box[j].key = v => i >= j
      BY <2>3 DEF HasLatest
    <3>2. i \in DOMAIN more /\ more[i] = box[i] BY <1>1
    <3>3. \A j \in DOMAIN more : more[j].key = v => i >= j BY <2>1, <3>1
    <3>4. Learn(c, box)[v] = box[i].stamp BY <3>1, LearnLast
    <3>5. Learn(c, more)[v] = more[i].stamp BY <1>1, <3>1, <3>2, <3>3, LearnLast
    <3>6. QED BY <3>1, <3>2, <3>3, <3>4, <3>5
  <2>4. QED BY <2>2, <2>3
<1>5. HasLatest(more)
  <2> SUFFICES ASSUME NEW v \in Vars, NEW k \in DOMAIN more, more[k].key = v
               PROVE  \E i \in DOMAIN more : /\ more[i].key = v
                                             /\ \A j \in DOMAIN more : more[j].key = v => i >= j
    BY DEF HasLatest
  <2>1. CASE v = m.key BY <2>1, <1>1
  <2>2. CASE v # m.key BY <2>2, <1>4
  <2>3. QED BY <2>1, <2>2
<1>6. QED BY <1>1, <1>3, <1>4, <1>5 DEF more

(* The order in which a wildcard greets is a list of each variable once.   *)
LEMMA EachOnce ==
  ASSUME NEW S \in SUBSET Vars
  PROVE  /\ SetToSeq(S) \in [1 .. Cardinality(S) -> S] /\ Cardinality(S) \in Nat
         /\ \A i, j \in DOMAIN SetToSeq(S) : SetToSeq(S)[i] = SetToSeq(S)[j] => i = j
         /\ \A v \in S : \E i \in DOMAIN SetToSeq(S) : SetToSeq(S)[i] = v
<1>1. IsFiniteSet(S) BY MOOSDBAssumption, FS_Subset
<1>2. Cardinality(S) \in Nat /\ ExistsBijection(1 .. Cardinality(S), S)
  BY <1>1, FS_CardinalityType
<1>3. PICK f : f \in Bijection(1 .. Cardinality(S), S)
  BY <1>2 DEF ExistsBijection
<1>4. f \in [1 .. Cardinality(S) -> S] /\ IsInjective(f)
  BY <1>3 DEF Bijection, Injection, IsInjective
<1> DEFINE n == Cardinality(S)
           g == SetToSeq(S)
<1>5. g \in [1 .. n -> S] /\ IsInjective(g)
  BY <1>4 DEF SetToSeq
<1> HIDE DEF g
<1>6. g \in Injection(1 .. n, S) BY <1>5 DEF Injection, IsInjective
<1>7. IsFiniteSet(1 .. n) /\ Cardinality(1 .. n) = n
  <2>1. /\ IsFiniteSet(1 .. n)
        /\ Cardinality(1 .. n) = IF 1 > n THEN 0 ELSE n - 1 + 1
    BY <1>2, FS_Interval
  <2>2. QED BY <2>1, <1>2
<1>8. g \in Surjection(1 .. n, S) BY <1>1, <1>6, <1>7, FS_Injection
<1>9. \A v \in S : \E i \in 1 .. n : g[i] = v BY <1>8 DEF Surjection
<1>10. QED BY <1>2, <1>5, <1>9 DEF IsInjective, g

(* Messages about different variables added to a box are each the latest   *)
(* of theirs.                                                              *)
LEMMA LearnConcat ==
  ASSUME NEW c \in Clients, NEW box \in Seq(Message), HasLatest(box),
         NEW n \in Nat, NEW new \in [1 .. n -> Message],
         \A i, j \in 1 .. n : new[i].key = new[j].key => i = j
  PROVE  /\ box \o new \in Seq(Message) /\ HasLatest(box \o new)
         /\ \A i \in 1 .. n : Learn(c, box \o new)[new[i].key] = new[i].stamp
         /\ \A v \in Vars : (\A i \in 1 .. n : new[i].key # v) =>
              Learn(c, box \o new)[v] = Learn(c, box)[v]
<1> DEFINE more == box \o new
           m == Len(box)
<1>1. m \in Nat /\ DOMAIN box = 1 .. m BY LenProperties
<1>2. new \in Seq(Message) /\ Len(new) = n /\ DOMAIN new = 1 .. n
  BY SeqDef, LenProperties
<1>3. /\ more \in Seq(Message) /\ Len(more) = m + n /\ DOMAIN more = 1 .. m + n
      /\ \A i \in 1 .. m : more[i] = box[i]
      /\ \A i \in 1 .. n : more[m + i] = new[i]
  <2>1. /\ more \in Seq(Message) /\ Len(more) = Len(box) + Len(new)
        /\ \A i \in 1 .. Len(box) + Len(new) :
             more[i] = IF i <= Len(box) THEN box[i] ELSE new[i - Len(box)]
    <3>1. box \in Seq(Message) /\ new \in Seq(Message) BY <1>2
    <3>2. /\ box \o new \in Seq(Message) /\ Len(box \o new) = Len(box) + Len(new)
          /\ \A i \in 1 .. Len(box) + Len(new) :
               (box \o new)[i] = IF i <= Len(box) THEN box[i] ELSE new[i - Len(box)]
      <4> HIDE <1>2
      <4>1. QED BY <3>1, ConcatProperties
    <3>3. QED BY <3>2
  <2>2. DOMAIN more = 1 .. Len(more) BY <2>1, LenProperties
  <2> HIDE DEF more
  <2>3. \A i \in 1 .. m : more[i] = box[i] BY <1>1, <1>2, <2>1
  <2>4. ASSUME NEW i \in 1 .. n PROVE more[m + i] = new[i]
    <3>1. m + i \in 1 .. m + n /\ ~(m + i <= m) /\ (m + i) - m = i BY <1>1
    <3>2. more[m + i] = new[(m + i) - m] BY <1>2, <2>1, <3>1
    <3>3. QED BY <3>1, <3>2
  <2>5. QED BY <1>1, <1>2, <2>1, <2>2, <2>3, <2>4
<1> HIDE DEF more, m
<1>10. more \in Seq(Message) BY <1>3
<1>4. \A j \in DOMAIN more : \/ j \in 1 .. m /\ more[j] = box[j]
                            \/ \E i \in 1 .. n : j = m + i /\ more[j] = new[i]
  <2> SUFFICES ASSUME NEW j \in DOMAIN more, j \notin 1 .. m
               PROVE  \E i \in 1 .. n : j = m + i /\ more[j] = new[i]
    BY <1>3
  <2>1. j - m \in 1 .. n /\ j = m + (j - m) BY <1>1, <1>3
  <2>2. QED BY <2>1, <1>3
<1>5. ASSUME NEW i \in 1 .. n
      PROVE  /\ m + i \in DOMAIN more /\ more[m + i].key = new[i].key
             /\ \A j \in DOMAIN more : more[j].key = new[i].key => m + i >= j
  <2>1. m + i \in DOMAIN more /\ more[m + i] = new[i] BY <1>1, <1>3
  <2>2. ASSUME NEW j \in DOMAIN more, more[j].key = new[i].key PROVE m + i >= j
    <3>1. CASE j \in 1 .. m BY <3>1, <1>1
    <3>2. CASE \E k \in 1 .. n : j = m + k /\ more[j] = new[k]
      <4>1. PICK k \in 1 .. n : j = m + k /\ more[j] = new[k] BY <3>2
      <4>2. k = i BY <4>1, <2>2
      <4>3. QED BY <4>1, <4>2, <1>1
    <3>3. QED BY <3>1, <3>2, <1>4
  <2>3. QED BY <2>1, <2>2
<1>6. ASSUME NEW i \in 1 .. n PROVE Learn(c, more)[new[i].key] = new[i].stamp
  <2>1. new[i].key \in Vars BY DEF Message
  <2>2. Learn(c, more)[new[i].key] = more[m + i].stamp
    <3>1. /\ m + i \in DOMAIN more /\ more[m + i].key = new[i].key
          /\ \A j \in DOMAIN more : more[j].key = new[i].key => m + i >= j
      BY <1>5
    <3>2. PICK k, w : k = m + i /\ w = new[i].key OBVIOUS
    <3>3. Learn(c, more)[w] = more[k].stamp
      <4>1. /\ w \in Vars /\ k \in DOMAIN more /\ more[k].key = w
            /\ \A j \in DOMAIN more : more[j].key = w => k >= j
        BY <2>1, <3>1, <3>2
      <4>2. QED BY <1>10, <4>1, LearnLast
    <3>4. QED BY <3>2, <3>3
  <2>3. QED BY <2>2, <1>3
<1>7. ASSUME NEW v \in Vars, \A i \in 1 .. n : new[i].key # v
      PROVE  /\ Learn(c, more)[v] = Learn(c, box)[v]
             /\ \A k \in DOMAIN more : more[k].key = v =>
                  \E i \in DOMAIN more : /\ more[i].key = v
                                         /\ \A j \in DOMAIN more : more[j].key = v => i >= j
  <2>1. \A j \in DOMAIN more : more[j].key = v => j \in DOMAIN box /\ box[j].key = v
    BY <1>1, <1>4, <1>7
  <2>2. CASE \A i \in DOMAIN box : box[i].key # v
    <3>1. \A i \in DOMAIN more : more[i].key # v BY <2>1, <2>2
    <3>2. QED BY <3>1, <2>2, LearnNothing
  <2>3. CASE \E k \in DOMAIN box : box[k].key = v
    <3>1. PICK i \in DOMAIN box :
            box[i].key = v /\ \A j \in DOMAIN box : box[j].key = v => i >= j
      BY <2>3 DEF HasLatest
    <3>2. i \in DOMAIN more /\ more[i] = box[i] BY <1>1, <1>3
    <3>3. \A j \in DOMAIN more : more[j].key = v => i >= j BY <2>1, <3>1
    <3>4. Learn(c, box)[v] = box[i].stamp BY <3>1, LearnLast
    <3>5. Learn(c, more)[v] = more[i].stamp
      <4>1. i \in DOMAIN more /\ more[i].key = v BY <3>1, <3>2
      <4>2. QED BY <1>10, <3>3, <4>1, LearnLast
    <3>6. QED BY <3>1, <3>2, <3>3, <3>4, <3>5
  <2>4. QED BY <2>2, <2>3
<1>8. HasLatest(more)
  <2> SUFFICES ASSUME NEW v \in Vars, NEW k \in DOMAIN more, more[k].key = v
               PROVE  \E i \in DOMAIN more : /\ more[i].key = v
                                             /\ \A j \in DOMAIN more : more[j].key = v => i >= j
    BY DEF HasLatest
  <2>1. CASE \E i \in 1 .. n : new[i].key = v BY <2>1, <1>5
  <2>2. CASE \A i \in 1 .. n : new[i].key # v BY <2>2, <1>7
  <2>3. QED BY <2>1, <2>2
<1>9. QED BY <1>3, <1>6, <1>7, <1>8 DEF more

------------------------------------------------------------------------------
(* A write: OnNotify.                                                      *)

BoxesOK == \A c \in Clients : HasLatest(m_HeldMailMap[c])

(* Whom a write finds subscribed.                                          *)
LEMMA WhoSubscribes ==
  ASSUME TypeOK, NEW v \in Vars, NEW src
  PROVE  /\ Subscribers(v, src) \in [Clients -> Periods \cup {"no"}]
         /\ \A c \in Clients :
              /\ (m_VarMap[v].subs[c] # "no" \/ m_VarMap[v].written \/ m_ClientFilters[c] = {})
                   => Subscribers(v, src)[c] = m_VarMap[v].subs[c]
              /\ (~m_VarMap[v].written /\
                  \E F \in m_ClientFilters[c] : F.app = Anyone /\ v \in F.vars)
                   => Subscribers(v, src)[c] # "no"
<1> DEFINE mine(c) == {F \in m_ClientFilters[c] : Matches(F, src, v)}
           takes(c) == ~m_VarMap[v].written /\ m_VarMap[v].subs[c] = "no" /\ mine(c) # {}
           new(c) == (CHOOSE F \in mine(c) : TRUE).period
<1>1. Subscribers(v, src) =
        [c \in Clients |-> IF takes(c) THEN new(c) ELSE m_VarMap[v].subs[c]]
  BY DEF Subscribers
<1>2. ASSUME NEW c \in Clients, takes(c) PROVE new(c) \in Periods
  <2>1. mine(c) \subseteq Filters BY DEF TypeOK
  <2>2. (CHOOSE F \in mine(c) : TRUE) \in mine(c) BY <1>2
  <2> HIDE DEF mine
  <2>3. QED BY <2>1, <2>2, MOOSDBAssumption
<1>3. \A c \in Clients : m_VarMap[v].subs[c] \in Periods \cup {"no"}
  BY DEF TypeOK, Var
<1>4. ASSUME NEW c \in Clients,
             m_VarMap[v].subs[c] # "no" \/ m_VarMap[v].written \/ m_ClientFilters[c] = {}
      PROVE  ~takes(c)
  BY <1>4
<1>5. ASSUME NEW c \in Clients, ~m_VarMap[v].written, m_VarMap[v].subs[c] = "no",
             \E F \in m_ClientFilters[c] : F.app = Anyone /\ v \in F.vars
      PROVE  takes(c)
  BY <1>5 DEF Matches
<1>6. "no" \notin Periods BY DEF Periods
<1> HIDE DEF takes, new
<1>7. ASSUME NEW c \in Clients
      PROVE  /\ takes(c) => Subscribers(v, src)[c] = new(c)
             /\ ~takes(c) => Subscribers(v, src)[c] = m_VarMap[v].subs[c]
  BY <1>1
<1>8. Subscribers(v, src) \in [Clients -> Periods \cup {"no"}]
  <2>1. ASSUME NEW c \in Clients
        PROVE (IF takes(c) THEN new(c) ELSE m_VarMap[v].subs[c]) \in Periods \cup {"no"}
    BY <1>2, <1>3
  <2>2. QED BY <1>1, <2>1
<1>9. QED BY <1>2, <1>4, <1>5, <1>6, <1>7, <1>8

(* What a write does to the variables.                                     *)
LEMMA WriteVars ==
  ASSUME TypeOK, NEW v \in Vars, NEW type \in Types,
         NEW src \in Clients \cup {DBName, Fault}
  PROVE  LET W == Written(v, type, src) IN
         /\ W \in [Vars -> Var]
         /\ \A w \in Vars \ {v} : W[w] = m_VarMap[w]
         /\ ~Accepts(v, type) => W[v] = m_VarMap[v]
         /\ Accepts(v, type) => /\ W[v].exists /\ W[v].written /\ W[v].stamp = stamp + 1
                                /\ W[v].subs = Subscribers(v, src)
<1> DEFINE W == Written(v, type, src)
           new == [m_VarMap[v] EXCEPT !.exists = TRUE, !.written = TRUE, !.type = type,
                     !.stamp = stamp + 1, !.who = src, !.subs = Subscribers(v, src)]
<1>1. CASE Accepts(v, type)
  <2>1. W = [m_VarMap EXCEPT ![v] = new] BY <1>1 DEF Written, TypeOK
  <2>2. m_VarMap[v] \in Var /\ stamp + 1 \in Nat BY DEF TypeOK
  <2>3. Subscribers(v, src) \in [Clients -> Periods \cup {"no"}] BY WhoSubscribes
  <2>4. /\ new \in Var /\ new.exists /\ new.written /\ new.stamp = stamp + 1
        /\ new.subs = Subscribers(v, src)
    BY <2>2, <2>3 DEF Var
  <2> HIDE DEF new, W
  <2>5. m_VarMap \in [Vars -> Var] BY DEF TypeOK
  <2>6. W \in [Vars -> Var] /\ W[v] = new /\ \A w \in Vars \ {v} : W[w] = m_VarMap[w]
    BY <2>1, <2>4, <2>5
  <2>7. QED BY <1>1, <2>4, <2>6 DEF W
<1>2. CASE ~Accepts(v, type)
  BY <1>2 DEF Written, TypeOK
<1>3. QED BY <1>1, <1>2

(* What a write does to the boxes.                                         *)
LEMMA WriteBoxes ==
  ASSUME TypeOK, BoxesOK, NEW v \in Vars, NEW type, NEW src, NEW late
  PROVE  LET B == Boxes(v, type, src, late) IN
         /\ B \in [Clients -> Seq(Message)]
         /\ \A c \in Clients :
              /\ HasLatest(B[c])
              /\ \A w \in Vars \ {v} : Learn(c, B[c])[w] = Learn(c, m_HeldMailMap[c])[w]
              /\ Accepts(v, type) /\ Subscribers(v, src)[c] = "every" =>
                   Learn(c, B[c])[v] = stamp + 1
              /\ ~Accepts(v, type) \/ Subscribers(v, src)[c] = "no" =>
                   B[c] = m_HeldMailMap[c]
              /\ \/ B[c] = m_HeldMailMap[c]
                 \/ Accepts(v, type) /\ Learn(c, B[c])[v] = stamp + 1
<1> DEFINE B == Boxes(v, type, src, late)
           new == [key |-> v, stamp |-> stamp + 1]
           gets(c) == Accepts(v, type) /\ (Subscribers(v, src)[c] = "every" \/
                        (Subscribers(v, src)[c] = "limited" /\ c \in late))
<1>1. B = [c \in Clients |-> IF gets(c) THEN Append(m_HeldMailMap[c], new)
                                        ELSE m_HeldMailMap[c]]
  BY DEF Boxes
<1>2. new \in Message /\ new.key = v /\ new.stamp = stamp + 1 BY DEF Message, TypeOK
<1>3. ASSUME NEW c \in Clients
      PROVE  /\ Accepts(v, type) /\ Subscribers(v, src)[c] = "every" => gets(c)
             /\ ~Accepts(v, type) \/ Subscribers(v, src)[c] = "no" => ~gets(c)
             /\ gets(c) => Accepts(v, type)
  OBVIOUS
<1>4. \A c \in Clients : m_HeldMailMap[c] \in Seq(Message) /\ HasLatest(m_HeldMailMap[c])
  BY DEF TypeOK, BoxesOK
<1> HIDE DEF new, gets, B
<1>5. ASSUME NEW c \in Clients
      PROVE  /\ B[c] \in Seq(Message) /\ HasLatest(B[c])
             /\ \A w \in Vars \ {v} : Learn(c, B[c])[w] = Learn(c, m_HeldMailMap[c])[w]
             /\ gets(c) => Learn(c, B[c])[v] = stamp + 1
             /\ ~gets(c) => B[c] = m_HeldMailMap[c]
  <2>1. CASE gets(c)
    <3>1. B[c] = Append(m_HeldMailMap[c], new) BY <1>1, <2>1
    <3>2. QED BY <1>2, <1>4, <2>1, <3>1, LearnAppend
  <2>2. CASE ~gets(c)
    BY <1>1, <1>4, <2>2
  <2>3. QED BY <2>1, <2>2
<1>6. B \in [Clients -> Seq(Message)] BY <1>1, <1>5
<1>7. QED BY <1>3, <1>5, <1>6 DEF B

(* Mail taken out of a box leaves its reader as well informed as before.   *)
LEMMA DeliverKeeps ==
  ASSUME TypeOK, NEW box \in [Clients -> Seq(Message)], \A c \in Clients : HasLatest(box[c]),
         NEW who, Deliver(box, who)
  PROVE  /\ m_HeldMailMap' \in [Clients -> Seq(Message)] /\ BoxesOK'
         /\ seen' \in [Clients -> [Vars -> Nat]]
         /\ \A c \in Clients : /\ Learn(c, m_HeldMailMap[c])' = Learn(c, box[c])
                               /\ c \notin who => m_HeldMailMap'[c] = box[c]
                               /\ c \in who => m_HeldMailMap'[c] = <<>>
                               /\ seen'[c] \in {seen[c], Learn(c, box[c])}
<1>1. seen \in [Clients -> [Vars -> Nat]] BY DEF TypeOK
<1>2. \A c \in Clients : Learn(c, box[c]) \in [Vars -> Nat] BY <1>1, LearnType
<1>3. /\ m_HeldMailMap' = [c \in Clients |-> IF c \in who THEN <<>> ELSE box[c]]
      /\ seen' = [c \in Clients |-> IF c \in who THEN Learn(c, box[c]) ELSE seen[c]]
  BY DEF Deliver
<1>4. m_HeldMailMap' \in [Clients -> Seq(Message)] BY <1>3
<1>5. seen' \in [Clients -> [Vars -> Nat]] BY <1>1, <1>2, <1>3
<1>6. ASSUME NEW c \in Clients
      PROVE  HasLatest(m_HeldMailMap'[c]) /\ Learn(c, m_HeldMailMap[c])' = Learn(c, box[c])
  <2>1. CASE c \in who
    <3>1. m_HeldMailMap'[c] = <<>> /\ seen'[c] = Learn(c, box[c]) BY <1>3, <2>1
    <3>2. Learn(c, m_HeldMailMap[c])' = [v \in Vars |-> seen'[c][v]]
      BY <3>1 DEF Learn
    <3>3. QED BY <1>2, <3>1, <3>2 DEF HasLatest
  <2>2. CASE c \notin who
    <3>1. m_HeldMailMap'[c] = box[c] /\ seen'[c] = seen[c] BY <1>3, <2>2
    <3>2. Learn(c, m_HeldMailMap[c])' = Learn(c, box[c]) BY <3>1 DEF Learn
    <3>3. QED BY <3>1, <3>2
  <2>3. QED BY <2>1, <2>2
<1>7. BoxesOK'
  <2>1. \A c \in Clients : HasLatest(m_HeldMailMap'[c]) BY <1>6
  <2>2. QED BY <2>1 DEF BoxesOK, HasLatest
<1>8. \A c \in Clients : /\ c \notin who => m_HeldMailMap'[c] = box[c]
                         /\ c \in who => m_HeldMailMap'[c] = <<>>
                         /\ seen'[c] \in {seen[c], Learn(c, box[c])}
  BY <1>3
<1>9. QED BY <1>4, <1>5, <1>6, <1>7, <1>8

------------------------------------------------------------------------------
(* The invariant.                                                          *)

(* A variable that has a value has been created.                           *)
Existing == \A v \in Vars : m_VarMap[v].written => m_VarMap[v].exists

IInv == /\ TypeOK /\ BoxesOK /\ Existing
        /\ SubscriberInformed /\ WildcardCovers /\ NothingForTheGone

(* The MOOSDB starts in the invariant.                                     *)
LEMMA InitHolds == Init => IInv
<1> SUFFICES ASSUME Init PROVE IInv
  OBVIOUS
<1> DEFINE none == [exists |-> FALSE, written |-> FALSE, type |-> "S", stamp |-> 0,
                    who |-> Fault, override |-> FALSE, subs |-> [c \in Clients |-> "no"]]
<1>1. none \in Var /\ none.written = FALSE /\ \A c \in Clients : none.subs[c] = "no"
  BY DEF Var, Types
<1> HIDE DEF none
<1>2. m_VarMap = [v \in Vars |-> none] BY DEF Init, none
<1>3. TypeOK
  <2>1. m_VarMap \in [Vars -> Var] BY <1>1, <1>2
  <2>2. m_HeldMailMap \in [Clients -> Seq(Message)]
    <3>1. m_HeldMailMap = [c \in Clients |-> <<>>] BY DEF Init
    <3>2. <<>> \in Seq(Message) OBVIOUS
    <3>3. QED BY <3>1, <3>2
  <2>3. m_ClientFilters \in [Clients -> SUBSET Filters] /\ connected \subseteq Clients
    BY DEF Init
  <2>4. seen \in [Clients -> [Vars -> Nat]]
    <3>1. seen = [c \in Clients |-> [v \in Vars |-> 0]] BY DEF Init
    <3>2. QED BY <3>1
  <2>5. fault \in Vars \cup {NoFault} /\ stamp \in Nat /\ left \in [Clients -> SUBSET Vars]
    BY DEF Init
  <2>6. QED BY <2>1, <2>2, <2>3, <2>4, <2>5 DEF TypeOK
<1>4. BoxesOK
  <2>1. ASSUME NEW c \in Clients PROVE m_HeldMailMap[c] = <<>> BY DEF Init
  <2>2. HasLatest(<<>>) BY DEF HasLatest
  <2>3. QED BY <2>1, <2>2 DEF BoxesOK
<1>5. \A v \in Vars : ~m_VarMap[v].written /\ \A c \in Clients : m_VarMap[v].subs[c] = "no"
  BY <1>1, <1>2
<1>6. Existing /\ SubscriberInformed BY <1>5 DEF Existing, SubscriberInformed
<1>7. WildcardCovers /\ NothingForTheGone
  BY <1>5 DEF Init, WildcardCovers, NothingForTheGone
<1>8. QED BY <1>3, <1>4, <1>6, <1>7 DEF IInv

(* A write keeps it, when the boxes are as the write fills them or have    *)
(* been read since, and nobody leaves.                                     *)
LEMMA WriteKeeps ==
  ASSUME IInv, NEW v \in Vars, NEW type \in Types, NEW src \in Clients \cup {DBName, Fault},
         NEW late,
         m_VarMap' = Written(v, type, src), stamp' = stamp + 1,
         m_HeldMailMap' \in [Clients -> Seq(Message)], BoxesOK',
         seen' \in [Clients -> [Vars -> Nat]],
         \A c \in Clients :
           /\ Learn(c, m_HeldMailMap[c])' = Learn(c, Boxes(v, type, src, late)[c])
           /\ m_HeldMailMap'[c] \in {Boxes(v, type, src, late)[c], <<>>},
         UNCHANGED <<m_ClientFilters, left>>,
         connected \subseteq connected', connected' \subseteq Clients,
         fault' \in Vars \cup {NoFault}
  PROVE  IInv'
<1> DEFINE B == Boxes(v, type, src, late)
           S == Subscribers(v, src)
<1>1. /\ m_VarMap' \in [Vars -> Var]
      /\ \A w \in Vars \ {v} : m_VarMap'[w] = m_VarMap[w]
      /\ ~Accepts(v, type) => m_VarMap'[v] = m_VarMap[v]
      /\ Accepts(v, type) => /\ m_VarMap'[v].exists /\ m_VarMap'[v].written
                             /\ m_VarMap'[v].stamp = stamp + 1 /\ m_VarMap'[v].subs = S
  BY WriteVars DEF IInv
<1>2. \A c \in Clients :
        /\ (m_VarMap[v].subs[c] # "no" \/ m_VarMap[v].written \/ m_ClientFilters[c] = {})
             => S[c] = m_VarMap[v].subs[c]
        /\ (~m_VarMap[v].written /\
            \E F \in m_ClientFilters[c] : F.app = Anyone /\ v \in F.vars) => S[c] # "no"
  BY WhoSubscribes DEF IInv
<1>3. \A c \in Clients :
        /\ \A w \in Vars \ {v} : Learn(c, B[c])[w] = Learn(c, m_HeldMailMap[c])[w]
        /\ Accepts(v, type) /\ S[c] = "every" => Learn(c, B[c])[v] = stamp + 1
        /\ ~Accepts(v, type) \/ S[c] = "no" => B[c] = m_HeldMailMap[c]
  BY WriteBoxes DEF IInv
<1> HIDE DEF B, S
<1>4. TypeOK' BY <1>1 DEF IInv, TypeOK
<1>5. Existing' BY <1>1 DEF IInv, Existing
<1>6. SubscriberInformed'
  <2> SUFFICES ASSUME NEW c \in Clients, NEW w \in Vars,
                      m_VarMap'[w].subs[c] = "every", m_VarMap'[w].written
               PROVE  Learn(c, m_HeldMailMap[c])'[w] = m_VarMap'[w].stamp
    BY DEF SubscriberInformed
  <2>1. Learn(c, m_HeldMailMap[c])' = Learn(c, B[c]) BY DEF B
  <2>2. (m_VarMap[w].subs[c] = "every" /\ m_VarMap[w].written) =>
          Learn(c, m_HeldMailMap[c])[w] = m_VarMap[w].stamp
    BY DEF IInv, SubscriberInformed
  <2>3. CASE w = v /\ Accepts(v, type) BY <1>1, <1>3, <2>1, <2>3
  <2>4. CASE w = v /\ ~Accepts(v, type) BY <1>1, <1>3, <2>1, <2>2, <2>4
  <2>5. CASE w # v BY <1>1, <1>3, <2>1, <2>2, <2>5
  <2>6. QED BY <2>3, <2>4, <2>5
<1>7. WildcardCovers'
  <2> SUFFICES ASSUME NEW c \in Clients, NEW F \in m_ClientFilters[c],
                      NEW w \in F.vars \ left[c], F.app = Anyone, m_VarMap'[w].written
               PROVE  m_VarMap'[w].subs[c] # "no"
    BY DEF WildcardCovers
  <2>1. w \in Vars BY MOOSDBAssumption DEF IInv, TypeOK
  <2>2. m_VarMap[w].written => m_VarMap[w].subs[c] # "no" BY DEF IInv, WildcardCovers
  <2>3. CASE w = v /\ Accepts(v, type) BY <1>1, <1>2, <2>2, <2>3
  <2>4. CASE w # v \/ ~Accepts(v, type) BY <1>1, <2>1, <2>2, <2>4
  <2>5. QED BY <2>3, <2>4
<1>8. NothingForTheGone'
  <2> SUFFICES ASSUME NEW c \in Clients \ connected'
               PROVE  /\ m_HeldMailMap'[c] = <<>> /\ m_ClientFilters'[c] = {}
                      /\ \A w \in Vars : m_VarMap'[w].subs[c] = "no"
    BY DEF NothingForTheGone
  <2>1. /\ m_HeldMailMap[c] = <<>> /\ m_ClientFilters[c] = {}
        /\ \A w \in Vars : m_VarMap[w].subs[c] = "no"
    BY DEF IInv, NothingForTheGone
  <2>2. S[c] = "no" BY <1>2, <2>1
  <2>3. B[c] = <<>> BY <1>3, <2>1, <2>2
  <2>4. m_HeldMailMap'[c] = <<>> BY <2>3 DEF B
  <2>5. \A w \in Vars : m_VarMap'[w].subs[c] = "no" BY <1>1, <2>1, <2>2
  <2>6. QED BY <2>1, <2>4, <2>5
<1>9. BoxesOK' OBVIOUS
<1>10. QED BY <1>4, <1>5, <1>6, <1>7, <1>8, <1>9 DEF IInv

(* Boxes no client has read since teach what they taught.                  *)
LEMMA Unread ==
  ASSUME UNCHANGED seen, NEW c, NEW box
  PROVE  Learn(c, box)' = Learn(c, box')
BY DEF Learn

(* A notification.                                                         *)
LEMMA NotifyKeeps ==
  ASSUME IInv, NEW c \in Clients, NEW v \in Vars, NEW type \in Types, Notify(c, v, type)
  PROVE  IInv'
<1>1. PICK late \in SUBSET Clients :
        Deliver(Boxes(v, type, c, late), {c} \cup (Async \cap connected))
  BY DEF Notify
<1>2. /\ Boxes(v, type, c, late) \in [Clients -> Seq(Message)]
      /\ \A d \in Clients : HasLatest(Boxes(v, type, c, late)[d])
  BY WriteBoxes DEF IInv
<1>3. /\ m_HeldMailMap' \in [Clients -> Seq(Message)] /\ BoxesOK'
      /\ seen' \in [Clients -> [Vars -> Nat]]
      /\ \A d \in Clients :
           /\ Learn(d, m_HeldMailMap[d])' = Learn(d, Boxes(v, type, c, late)[d])
           /\ m_HeldMailMap'[d] \in {Boxes(v, type, c, late)[d], <<>>}
  BY <1>1, <1>2, DeliverKeeps DEF IInv
<1>4. /\ m_VarMap' = Written(v, type, c) /\ stamp' = stamp + 1
      /\ UNCHANGED <<m_ClientFilters, left>> /\ connected' = connected /\ fault' = fault
  BY DEF Notify
<1>5. connected \subseteq Clients /\ fault \in Vars \cup {NoFault} BY DEF IInv, TypeOK
<1>6. QED BY <1>3, <1>4, <1>5, WriteKeeps

(* A write by the DB itself or by the ActiveMQ listener empties no box.    *)
LEMMA SilentWriteKeeps ==
  ASSUME IInv, NEW v \in Vars, NEW src \in {DBName, Fault}, NEW late,
         m_HeldMailMap' = Boxes(v, "S", src, late), m_VarMap' = Written(v, "S", src),
         stamp' = stamp + 1, UNCHANGED <<m_ClientFilters, seen, left>>,
         connected \subseteq connected', connected' \subseteq Clients,
         fault' \in Vars \cup {NoFault}
  PROVE  IInv'
<1>1. "S" \in Types BY DEF Types
<1>2. /\ m_HeldMailMap' \in [Clients -> Seq(Message)]
      /\ \A c \in Clients : HasLatest(m_HeldMailMap'[c])
  BY WriteBoxes DEF IInv
<1>3. BoxesOK' BY <1>2 DEF BoxesOK, HasLatest
<1>4. seen' \in [Clients -> [Vars -> Nat]] BY DEF IInv, TypeOK
<1>5. \A c \in Clients :
        Learn(c, m_HeldMailMap[c])' = Learn(c, Boxes(v, "S", src, late)[c])
  BY DEF Learn
<1>6. QED BY <1>1, <1>2, <1>3, <1>4, <1>5, WriteKeeps

(* A connection and the DB_EVENT it writes.                                *)
LEMMA OnConnectKeeps ==
  ASSUME IInv, NEW c \in Clients, OnConnect(c)
  PROVE  IInv'
<1>1. PICK late \in SUBSET Clients : m_HeldMailMap' = Boxes(DB_EVENT, "S", DBName, late)
  BY DEF OnConnect
<1>2. connected \subseteq connected' /\ connected' \subseteq Clients
  BY DEF OnConnect, IInv, TypeOK
<1>3. fault' \in Vars \cup {NoFault} BY DEF OnConnect, IInv, TypeOK
<1>4. /\ m_VarMap' = Written(DB_EVENT, "S", DBName) /\ stamp' = stamp + 1
      /\ UNCHANGED <<m_ClientFilters, seen, left>>
  BY DEF OnConnect
<1>5. QED BY <1>1, <1>2, <1>3, <1>4, MOOSDBAssumption, SilentWriteKeeps

(* A fault from ActiveMQ.                                                  *)
LEMMA FromMQKeeps ==
  ASSUME IInv, NEW v \in Vars, FromMQ(v)
  PROVE  IInv'
<1>1. PICK late \in SUBSET Clients : m_HeldMailMap' = Boxes(v, "S", Fault, late)
  BY DEF FromMQ
<1>2. connected' = connected /\ connected \subseteq Clients /\ fault' = v
  BY DEF FromMQ, IInv, TypeOK
<1>3. /\ m_VarMap' = Written(v, "S", Fault) /\ stamp' = stamp + 1
      /\ UNCHANGED <<m_ClientFilters, seen, left>>
  BY DEF FromMQ
<1>4. QED BY <1>1, <1>2, <1>3, SilentWriteKeeps

------------------------------------------------------------------------------
(* Subscriptions.                                                          *)

(* One entry of a variable's subscriptions is replaced.                    *)
LEMMA SubsReplaced ==
  ASSUME NEW r \in Var, NEW c \in Clients, NEW p \in Periods \cup {"no"}
  PROVE  LET n == [r EXCEPT !.subs[c] = p] IN
         /\ n \in Var /\ n.exists = r.exists /\ n.written = r.written /\ n.stamp = r.stamp
         /\ n.subs[c] = p /\ \A d \in Clients \ {c} : n.subs[d] = r.subs[d]
BY DEF Var

(* A lost connection, and all that is removed with it.                     *)
LEMMA OnDisconnectKeeps ==
  ASSUME IInv, NEW c \in Clients, OnDisconnect(c)
  PROVE  IInv'
<1>1. PICK late \in SUBSET Clients :
        m_HeldMailMap' = [Boxes(DB_EVENT, "S", DBName, late) EXCEPT ![c] = <<>>]
  BY DEF OnDisconnect
<1> DEFINE v == DB_EVENT
           W == Written(v, "S", DBName)
           B == Boxes(v, "S", DBName, late)
           S == Subscribers(v, DBName)
<1>2. v \in Vars /\ "S" \in Types BY MOOSDBAssumption DEF Types
<1>3. /\ W \in [Vars -> Var]
      /\ \A w \in Vars \ {v} : W[w] = m_VarMap[w]
      /\ ~Accepts(v, "S") => W[v] = m_VarMap[v]
      /\ Accepts(v, "S") => /\ W[v].exists /\ W[v].written /\ W[v].stamp = stamp + 1
                            /\ W[v].subs = S
  BY <1>2, WriteVars DEF IInv
<1>4. \A d \in Clients :
        /\ (m_VarMap[v].subs[d] # "no" \/ m_VarMap[v].written \/ m_ClientFilters[d] = {})
             => S[d] = m_VarMap[v].subs[d]
        /\ (~m_VarMap[v].written /\
            \E F \in m_ClientFilters[d] : F.app = Anyone /\ v \in F.vars) => S[d] # "no"
  BY <1>2, WhoSubscribes DEF IInv
<1>5. /\ B \in [Clients -> Seq(Message)]
      /\ \A d \in Clients :
           /\ HasLatest(B[d])
           /\ \A w \in Vars \ {v} : Learn(d, B[d])[w] = Learn(d, m_HeldMailMap[d])[w]
           /\ Accepts(v, "S") /\ S[d] = "every" => Learn(d, B[d])[v] = stamp + 1
           /\ ~Accepts(v, "S") \/ S[d] = "no" => B[d] = m_HeldMailMap[d]
  BY <1>2, WriteBoxes DEF IInv
<1>6. m_VarMap' = [w \in Vars |-> [W[w] EXCEPT !.subs[c] = "no"]]
  BY DEF OnDisconnect
<1>7. /\ connected' = connected \ {c} /\ m_HeldMailMap' = [B EXCEPT ![c] = <<>>]
      /\ m_ClientFilters' = [m_ClientFilters EXCEPT ![c] = {}]
      /\ seen' = [seen EXCEPT ![c] = [w \in Vars |-> 0]]
      /\ left' = [left EXCEPT ![c] = {}] /\ stamp' = stamp + 1 /\ fault' = fault
  BY <1>1 DEF OnDisconnect
<1> HIDE DEF v, W, B, S
<1>8. ASSUME NEW w \in Vars
      PROVE  /\ m_VarMap'[w] \in Var /\ m_VarMap'[w].exists = W[w].exists
             /\ m_VarMap'[w].written = W[w].written /\ m_VarMap'[w].stamp = W[w].stamp
             /\ m_VarMap'[w].subs[c] = "no"
             /\ \A d \in Clients \ {c} : m_VarMap'[w].subs[d] = W[w].subs[d]
  <2>1. m_VarMap'[w] = [W[w] EXCEPT !.subs[c] = "no"] BY <1>6
  <2>2. W[w] \in Var BY <1>3
  <2>3. QED BY <2>1, <2>2, SubsReplaced
<1>9. TypeOK'
  <2>1. m_VarMap' \in [Vars -> Var] BY <1>6, <1>8
  <2>2. m_HeldMailMap' \in [Clients -> Seq(Message)] BY <1>5, <1>7
  <2>3. seen' \in [Clients -> [Vars -> Nat]] BY <1>7 DEF IInv, TypeOK
  <2>4. m_ClientFilters' \in [Clients -> SUBSET Filters] /\ left' \in [Clients -> SUBSET Vars]
    BY <1>7 DEF IInv, TypeOK
  <2>5. connected' \subseteq Clients /\ fault' \in Vars \cup {NoFault} /\ stamp' \in Nat
    BY <1>7 DEF IInv, TypeOK
  <2>6. QED BY <2>1, <2>2, <2>3, <2>4, <2>5 DEF TypeOK
<1>10. m_HeldMailMap'[c] = <<>> /\ \A d \in Clients \ {c} : m_HeldMailMap'[d] = B[d]
  BY <1>5, <1>7
<1>11. BoxesOK'
  <2>1. HasLatest(<<>>) BY DEF HasLatest
  <2>2. \A d \in Clients : HasLatest(m_HeldMailMap'[d]) BY <1>5, <1>10, <2>1
  <2>3. QED BY <2>2 DEF BoxesOK, HasLatest
<1>12. Existing' BY <1>2, <1>3, <1>8 DEF IInv, Existing
<1>13. SubscriberInformed'
  <2> SUFFICES ASSUME NEW d \in Clients, NEW w \in Vars,
                      m_VarMap'[w].subs[d] = "every", m_VarMap'[w].written
               PROVE  Learn(d, m_HeldMailMap[d])'[w] = m_VarMap'[w].stamp
    BY DEF SubscriberInformed
  <2>1. d # c BY <1>8
  <2>2. seen'[d] = seen[d] BY <1>7, <2>1 DEF IInv, TypeOK
  <2>3. Learn(d, m_HeldMailMap[d])' = Learn(d, B[d]) BY <1>10, <2>1, <2>2 DEF Learn
  <2>4. W[w].subs[d] = "every" /\ W[w].written /\ m_VarMap'[w].stamp = W[w].stamp
    BY <1>8, <2>1
  <2>5. (m_VarMap[w].subs[d] = "every" /\ m_VarMap[w].written) =>
          Learn(d, m_HeldMailMap[d])[w] = m_VarMap[w].stamp
    BY DEF IInv, SubscriberInformed
  <2>6. CASE w = v /\ Accepts(v, "S") BY <1>3, <1>5, <2>3, <2>4, <2>6
  <2>7. CASE w = v /\ ~Accepts(v, "S") BY <1>3, <1>5, <2>3, <2>4, <2>5, <2>7
  <2>8. CASE w # v BY <1>3, <1>5, <2>3, <2>4, <2>5, <2>8
  <2>9. QED BY <2>6, <2>7, <2>8
<1>14. WildcardCovers'
  <2> SUFFICES ASSUME NEW d \in Clients, NEW F \in m_ClientFilters'[d],
                      NEW w \in F.vars \ left'[d], F.app = Anyone, m_VarMap'[w].written
               PROVE  m_VarMap'[w].subs[d] # "no"
    BY DEF WildcardCovers
  <2>1. d # c BY <1>7 DEF IInv, TypeOK
  <2>2. F \in m_ClientFilters[d] /\ left'[d] = left[d] BY <1>7, <2>1 DEF IInv, TypeOK
  <2>3. w \in Vars BY <2>2, MOOSDBAssumption DEF IInv, TypeOK
  <2>4. m_VarMap[w].written => m_VarMap[w].subs[d] # "no"
    BY <2>2 DEF IInv, WildcardCovers
  <2>5. W[w].written /\ m_VarMap'[w].subs[d] = W[w].subs[d] BY <1>8, <2>1, <2>3
  <2>6. CASE w = v /\ Accepts(v, "S") BY <1>3, <1>4, <2>2, <2>4, <2>5, <2>6
  <2>7. CASE w # v \/ ~Accepts(v, "S") BY <1>3, <2>3, <2>4, <2>5, <2>7
  <2>8. QED BY <2>6, <2>7
<1>15. NothingForTheGone'
  <2> SUFFICES ASSUME NEW d \in Clients \ connected'
               PROVE  /\ m_HeldMailMap'[d] = <<>> /\ m_ClientFilters'[d] = {}
                      /\ \A w \in Vars : m_VarMap'[w].subs[d] = "no"
    BY DEF NothingForTheGone
  <2>1. CASE d = c
    <3>1. m_ClientFilters'[d] = {} BY <1>7, <2>1 DEF IInv, TypeOK
    <3>2. QED BY <1>8, <1>10, <2>1, <3>1
  <2>2. CASE d # c
    <3>1. d \notin connected BY <1>7, <2>2
    <3>2. /\ m_HeldMailMap[d] = <<>> /\ m_ClientFilters[d] = {}
          /\ \A w \in Vars : m_VarMap[w].subs[d] = "no"
      BY <3>1 DEF IInv, NothingForTheGone
    <3>3. S[d] = "no" BY <1>2, <1>4, <3>2
    <3>4. m_HeldMailMap'[d] = <<>> BY <1>5, <1>10, <2>2, <3>2, <3>3
    <3>5. m_ClientFilters'[d] = {} BY <1>7, <2>2, <3>2 DEF IInv, TypeOK
    <3>6. \A w \in Vars : m_VarMap'[w].subs[d] = "no" BY <1>2, <1>3, <1>8, <2>2, <3>2, <3>3
    <3>7. QED BY <3>4, <3>5, <3>6
  <2>3. QED BY <2>1, <2>2
<1>16. QED BY <1>9, <1>11, <1>12, <1>13, <1>14, <1>15 DEF IInv

(* The boxes tell client c of the variables of P that are new to it, and   *)
(* of nothing else than they did.                                          *)
Tells(c, P, box) ==
  /\ box \in [Clients -> Seq(Message)] /\ \A d \in Clients : HasLatest(box[d])
  /\ \A d \in Clients \ {c} : box[d] = m_HeldMailMap[d]
  /\ \A v \in P : Greets(c, v) => Learn(c, box[c])[v] = m_VarMap[v].stamp
  /\ \A v \in Vars : (v \in P => ~Greets(c, v)) =>
       Learn(c, box[c])[v] = Learn(c, m_HeldMailMap[c])[v]

(* Subscribing a client to some variables, and telling it of those that    *)
(* are new to it, keeps the invariant.                                     *)
LEMMA SubscribeKeeps ==
  ASSUME IInv, NEW c \in connected, NEW P \in SUBSET Vars, NEW period \in Periods,
         m_VarMap' = [v \in Vars |-> IF v \in P THEN Registered(c, v, period)
                                                ELSE m_VarMap[v]],
         NEW box, Tells(c, P, box), Deliver(box, {c}),
         NEW G \in SUBSET Filters, \A F \in G, v \in Vars :
           (F.app = Anyone /\ v \in F.vars /\ m_VarMap[v].written) => v \in P,
         m_ClientFilters' = [m_ClientFilters EXCEPT ![c] = @ \cup G],
         NEW Q \in SUBSET Vars, \A v \in Q : m_VarMap[v].written => v \in P,
         left' = [left EXCEPT ![c] = @ \ Q],
         UNCHANGED <<connected, fault, stamp>>
  PROVE  IInv'
<1>1. c \in Clients BY DEF IInv, TypeOK
<1>0. /\ box \in [Clients -> Seq(Message)] /\ \A d \in Clients : HasLatest(box[d])
      /\ \A d \in Clients \ {c} : box[d] = m_HeldMailMap[d]
      /\ \A v \in P : Greets(c, v) => Learn(c, box[c])[v] = m_VarMap[v].stamp
      /\ \A v \in Vars : (v \in P => ~Greets(c, v)) =>
           Learn(c, box[c])[v] = Learn(c, m_HeldMailMap[c])[v]
  BY DEF Tells
<1>2. /\ m_HeldMailMap' \in [Clients -> Seq(Message)] /\ BoxesOK'
      /\ seen' \in [Clients -> [Vars -> Nat]]
      /\ \A d \in Clients : /\ Learn(d, m_HeldMailMap[d])' = Learn(d, box[d])
                            /\ d \notin {c} => m_HeldMailMap'[d] = box[d]
  BY <1>0, DeliverKeeps DEF IInv
<1>3. ASSUME NEW v \in Vars
      PROVE  /\ m_VarMap'[v] \in Var
             /\ m_VarMap[v].exists => m_VarMap'[v].exists
             /\ m_VarMap'[v].written = m_VarMap[v].written
             /\ m_VarMap'[v].stamp = m_VarMap[v].stamp
             /\ \A d \in Clients \ {c} : m_VarMap'[v].subs[d] = m_VarMap[v].subs[d]
             /\ m_VarMap[v].subs[c] # "no" => m_VarMap'[v].subs[c] = m_VarMap[v].subs[c]
             /\ v \in P => m_VarMap'[v].subs[c] # "no"
             /\ v \notin P => m_VarMap'[v] = m_VarMap[v]
  <2>1. m_VarMap[v] \in Var BY DEF IInv, TypeOK
  <2>2. CASE v \in P
    <3> DEFINE p == IF m_VarMap[v].subs[c] = "no" THEN period ELSE m_VarMap[v].subs[c]
               r == [m_VarMap[v] EXCEPT !.exists = TRUE]
    <3>1. m_VarMap'[v] = [r EXCEPT !.subs[c] = p]
      <4>1. m_VarMap'[v] = Registered(c, v, period) BY <2>2
      <4>2. QED BY <2>1, <4>1, <1>1 DEF Registered, Var
    <3>2. /\ r \in Var /\ r.exists /\ r.written = m_VarMap[v].written
          /\ r.stamp = m_VarMap[v].stamp /\ r.subs = m_VarMap[v].subs
      BY <2>1 DEF Var
    <3>3. /\ p \in Periods \cup {"no"} /\ p # "no"
          /\ m_VarMap[v].subs[c] # "no" => p = m_VarMap[v].subs[c]
      BY <1>1, <2>1 DEF Var, Periods
    <3> HIDE DEF p, r
    <3>4. /\ m_VarMap'[v] \in Var /\ m_VarMap'[v].exists = r.exists
          /\ m_VarMap'[v].written = r.written /\ m_VarMap'[v].stamp = r.stamp
          /\ m_VarMap'[v].subs[c] = p
          /\ \A d \in Clients \ {c} : m_VarMap'[v].subs[d] = r.subs[d]
      <4> DEFINE n == [r EXCEPT !.subs[c] = p]
      <4>1. /\ n \in Var /\ n.exists = r.exists
            /\ n.written = r.written /\ n.stamp = r.stamp /\ n.subs[c] = p
            /\ \A d \in Clients \ {c} : n.subs[d] = r.subs[d]
        <5>1. r \in Var /\ c \in Clients /\ p \in Periods \cup {"no"} BY <1>1, <3>2, <3>3
        <5>2. QED BY <5>1 DEF Var
      <4> HIDE DEF n
      <4>2. m_VarMap'[v] = n BY <3>1 DEF n
      <4>3. QED BY <4>1, <4>2
    <3>5. m_VarMap'[v].exists BY <3>2, <3>4, Zenon
    <3>6. m_VarMap'[v].written = m_VarMap[v].written BY <3>2, <3>4, Zenon
    <3>7. QED BY <2>2, <3>2, <3>3, <3>4, <3>5, <3>6, Zenon
  <2>3. CASE v \notin P
    <3>1. m_VarMap'[v] = m_VarMap[v] BY <2>3
    <3>2. QED BY <2>1, <2>3, <3>1
  <2>4. QED BY <2>2, <2>3
<1>4. TypeOK'
  <2>1. m_VarMap' \in [Vars -> Var] BY <1>3
  <2>2. m_ClientFilters' \in [Clients -> SUBSET Filters] BY DEF IInv, TypeOK
  <2>3. left' \in [Clients -> SUBSET Vars] BY DEF IInv, TypeOK
  <2>4. connected' \subseteq Clients /\ fault' \in Vars \cup {NoFault} /\ stamp' \in Nat
    BY DEF IInv, TypeOK
  <2>5. QED BY <1>2, <2>1, <2>2, <2>3, <2>4 DEF TypeOK
<1>5. Existing' BY <1>3 DEF IInv, Existing
<1>6. SubscriberInformed'
  <2> SUFFICES ASSUME NEW d \in Clients, NEW v \in Vars,
                      m_VarMap'[v].subs[d] = "every", m_VarMap'[v].written
               PROVE  Learn(d, m_HeldMailMap[d])'[v] = m_VarMap'[v].stamp
    BY DEF SubscriberInformed
  <2>1. Learn(d, m_HeldMailMap[d])' = Learn(d, box[d]) BY <1>2
  <2>2. m_VarMap[v].written /\ m_VarMap'[v].stamp = m_VarMap[v].stamp BY <1>3
  <2>3. m_VarMap[v].subs[d] = "every" =>
          Learn(d, m_HeldMailMap[d])[v] = m_VarMap[v].stamp
    BY <2>2 DEF IInv, SubscriberInformed
  <2>4. CASE d # c
    <3>1. m_VarMap[v].subs[d] = "every" BY <1>3, <2>4
    <3>2. box[d] = m_HeldMailMap[d] BY <1>0, <2>4
    <3>3. QED BY <2>1, <2>2, <2>3, <3>1, <3>2
  <2>5. CASE d = c /\ v \in P /\ Greets(c, v)
    BY <1>0, <2>1, <2>2, <2>5
  <2>6. CASE d = c /\ ~(v \in P /\ Greets(c, v))
    <3>1. m_VarMap[v].subs[c] # "no"
      <4>1. CASE v \in P BY <2>2, <2>6, <4>1 DEF Greets
      <4>2. CASE v \notin P
        <5>1. m_VarMap[v].subs[c] = "every" BY <1>3, <2>6, <4>2
        <5>2. QED BY <5>1
      <4>3. QED BY <4>1, <4>2
    <3>2. m_VarMap[v].subs[c] = "every" BY <1>3, <2>6, <3>1
    <3>3. QED BY <1>0, <2>1, <2>2, <2>3, <2>6, <3>2
  <2>7. QED BY <2>4, <2>5, <2>6
<1>7. WildcardCovers'
  <2> SUFFICES ASSUME NEW d \in Clients, NEW F \in m_ClientFilters'[d],
                      NEW v \in F.vars \ left'[d], F.app = Anyone, m_VarMap'[v].written
               PROVE  m_VarMap'[v].subs[d] # "no"
    BY DEF WildcardCovers
  <2>1. m_ClientFilters'[d] \subseteq Filters BY <1>4 DEF TypeOK
  <2>2. v \in Vars BY <2>1, MOOSDBAssumption
  <2>3. m_VarMap[v].written BY <1>3, <2>2
  <2>4. CASE d # c
    <3>1. F \in m_ClientFilters[d] /\ left'[d] = left[d] BY <2>4 DEF IInv, TypeOK
    <3>2. m_VarMap[v].subs[d] # "no" BY <2>3, <3>1 DEF IInv, WildcardCovers
    <3>3. QED BY <1>3, <2>2, <2>4, <3>2
  <2>5. CASE d = c
    <3>1. F \in m_ClientFilters[c] \/ F \in G BY <2>5 DEF IInv, TypeOK
    <3>2. v \notin left[c] \/ v \in Q BY <2>5 DEF IInv, TypeOK
    <3>3. CASE v \in Q \/ F \in G
      <4>1. v \in P BY <2>2, <2>3, <3>3
      <4>2. QED BY <1>3, <2>2, <2>5, <4>1
    <3>4. CASE F \in m_ClientFilters[c] /\ v \notin left[c]
      <4>1. m_VarMap[v].subs[c] # "no" BY <1>1, <2>3, <3>4 DEF IInv, WildcardCovers
      <4>2. QED BY <1>3, <2>2, <2>5, <4>1
    <3>5. QED BY <3>1, <3>2, <3>3, <3>4
  <2>6. QED BY <2>4, <2>5
<1>8. NothingForTheGone'
  <2> SUFFICES ASSUME NEW d \in Clients \ connected'
               PROVE  /\ m_HeldMailMap'[d] = <<>> /\ m_ClientFilters'[d] = {}
                      /\ \A v \in Vars : m_VarMap'[v].subs[d] = "no"
    BY DEF NothingForTheGone
  <2>1. d # c /\ d \notin connected OBVIOUS
  <2>2. /\ m_HeldMailMap[d] = <<>> /\ m_ClientFilters[d] = {}
        /\ \A v \in Vars : m_VarMap[v].subs[d] = "no"
    BY <2>1 DEF IInv, NothingForTheGone
  <2>3. m_HeldMailMap'[d] = <<>> BY <1>0, <1>2, <2>1, <2>2
  <2>4. m_ClientFilters'[d] = {} BY <2>1, <2>2 DEF IInv, TypeOK
  <2>5. \A v \in Vars : m_VarMap'[v].subs[d] = "no" BY <1>3, <2>1, <2>2
  <2>6. QED BY <2>3, <2>4, <2>5
<1>9. QED BY <1>2, <1>4, <1>5, <1>6, <1>7, <1>8 DEF IInv

(* What a registration by name tells.                                      *)
LEMMA RegisterTells ==
  ASSUME IInv, NEW c \in Clients, NEW v \in Vars, NEW period, Register(c, v, period)
  PROVE  \E box : Tells(c, {v}, box) /\ Deliver(box, {c})
<1> DEFINE old == m_HeldMailMap[c]
           told == IF Greets(c, v) THEN Append(old, Greeting(v)) ELSE old
           box == [m_HeldMailMap EXCEPT ![c] = told]
<1>1. Deliver(box, {c}) BY DEF Register
<1>2. m_VarMap \in [Vars -> Var] /\ m_HeldMailMap \in [Clients -> Seq(Message)]
      /\ \A d \in Clients : HasLatest(m_HeldMailMap[d])
  BY DEF IInv, TypeOK, BoxesOK
<1>3. old \in Seq(Message) /\ HasLatest(old) BY <1>2
<1>4. Greeting(v) \in Message /\ Greeting(v).key = v /\ Greeting(v).stamp = m_VarMap[v].stamp
  BY <1>2 DEF Greeting, Message, Var
<1> HIDE DEF old, told
<1>5. /\ told \in Seq(Message) /\ HasLatest(told)
      /\ Greets(c, v) => Learn(c, told)[v] = m_VarMap[v].stamp
      /\ \A w \in Vars : (w # v \/ ~Greets(c, v)) => Learn(c, told)[w] = Learn(c, old)[w]
  <2>1. CASE Greets(c, v)
    <3>1. told = Append(old, Greeting(v)) BY <2>1 DEF told
    <3>2. /\ told \in Seq(Message) /\ HasLatest(told)
          /\ Learn(c, told)[Greeting(v).key] = Greeting(v).stamp
          /\ \A w \in Vars \ {Greeting(v).key} : Learn(c, told)[w] = Learn(c, old)[w]
      BY <1>3, <1>4, <3>1, LearnAppend
    <3>3. QED BY <1>4, <2>1, <3>2
  <2>2. CASE ~Greets(c, v)
    <3>1. told = old BY <2>2 DEF told
    <3>2. QED BY <1>3, <2>2, <3>1
  <2>3. QED BY <2>1, <2>2
<1>6. /\ box \in [Clients -> Seq(Message)] /\ box[c] = told
      /\ \A d \in Clients \ {c} : box[d] = m_HeldMailMap[d]
  BY <1>2, <1>5
<1>7. \A d \in Clients : HasLatest(box[d]) BY <1>2, <1>5, <1>6
<1>8. Tells(c, {v}, box)
  <2> HIDE DEF box
  <2>1. /\ \A w \in {v} : Greets(c, w) => Learn(c, box[c])[w] = m_VarMap[w].stamp
        /\ \A w \in Vars : (w \in {v} => ~Greets(c, w)) =>
             Learn(c, box[c])[w] = Learn(c, m_HeldMailMap[c])[w]
    BY <1>5, <1>6 DEF old
  <2>2. QED BY <1>6, <1>7, <2>1 DEF Tells
<1>9. QED BY <1>1, <1>8

(* A registration by name.                                                 *)
LEMMA RegisterKeeps ==
  ASSUME IInv, NEW c \in Clients, NEW v \in Vars, NEW period \in Requested,
         Register(c, v, period)
  PROVE  IInv'
<1>1. /\ c \in connected
      /\ m_VarMap' = [m_VarMap EXCEPT ![v] = Registered(c, v, period)]
      /\ left' = [left EXCEPT ![c] = @ \ {v}]
      /\ UNCHANGED <<m_ClientFilters, connected, fault, stamp>>
  BY DEF Register
<1>2. period \in Periods BY MOOSDBAssumption
<1>3. m_VarMap \in [Vars -> Var] BY DEF IInv, TypeOK
<1> DEFINE P == {v}
           G == {}
<1>4. PICK box : Tells(c, P, box) /\ Deliver(box, {c}) BY RegisterTells
<1>5. m_VarMap' = [w \in Vars |-> IF w \in P THEN Registered(c, w, period)
                                               ELSE m_VarMap[w]]
  BY <1>1, <1>3
<1>6. m_ClientFilters' = [m_ClientFilters EXCEPT ![c] = @ \cup G]
  BY <1>1 DEF IInv, TypeOK
<1>7. \A w \in P : m_VarMap[w].written => w \in P OBVIOUS
<1>8. P \in SUBSET Vars /\ G \in SUBSET Filters OBVIOUS
<1>9. \A F \in G, w \in Vars :
        (F.app = Anyone /\ w \in F.vars /\ m_VarMap[w].written) => w \in P
  OBVIOUS
<1>10. left' = [left EXCEPT ![c] = @ \ P] BY <1>1
<1> HIDE DEF P, G
<1>11. PICK Q : Q \in SUBSET Vars /\ Q = P BY <1>8
<1>12. left' = [left EXCEPT ![c] = @ \ Q] /\ \A w \in Q : m_VarMap[w].written => w \in P
  BY <1>7, <1>10, <1>11
<1>13. c \in connected /\ UNCHANGED <<connected, fault, stamp>> BY <1>1
<1>14. QED
  BY <1>2, <1>4, <1>5, <1>6, <1>8, <1>9, <1>11, <1>12, <1>13, SubscribeKeeps

(* What a registration by wildcard tells.                                  *)
LEMMA WildcardTells ==
  ASSUME IInv, NEW c \in Clients, NEW F \in Filters, WildcardRegister(c, F)
  PROVE  \E box : Tells(c, Present(F), box) /\ Deliver(box, {c})
<1> DEFINE old == m_HeldMailMap[c]
           S == {v \in Present(F) : Greets(c, v)}
           list == SetToSeq(S)
           new == [i \in DOMAIN list |-> Greeting(list[i])]
           box == [m_HeldMailMap EXCEPT ![c] = old \o new]
           P == Present(F)
<1>1. Deliver(box, {c}) BY DEF WildcardRegister
<1>3. /\ m_VarMap \in [Vars -> Var] /\ m_HeldMailMap \in [Clients -> Seq(Message)]
      /\ \A d \in Clients : HasLatest(m_HeldMailMap[d])
  BY DEF IInv, TypeOK, BoxesOK
<1>4. old \in Seq(Message) /\ HasLatest(old) BY <1>3
<1>5. P \in SUBSET Vars /\ S \in SUBSET Vars /\ S \subseteq P BY DEF Present
<1>8. \A v \in S : /\ Greeting(v) \in Message /\ Greeting(v).key = v
                   /\ Greeting(v).stamp = m_VarMap[v].stamp
  BY <1>3, <1>5 DEF Greeting, Message, Var
<1>9. \A v \in P : Greets(c, v) <=> v \in S OBVIOUS
<1> DEFINE n == Cardinality(S)
<1> HIDE DEF old, S, P
<1>10. /\ list \in [1 .. n -> S] /\ n \in Nat
       /\ \A i, j \in 1 .. n : list[i] = list[j] => i = j
       /\ \A v \in S : \E i \in 1 .. n : list[i] = v
  <2>1. /\ list \in [1 .. n -> S] /\ n \in Nat
        /\ \A i, j \in DOMAIN list : list[i] = list[j] => i = j
        /\ \A v \in S : \E i \in DOMAIN list : list[i] = v
    BY <1>5, EachOnce
  <2>2. QED BY <2>1
<1> HIDE DEF list, n
<1>11. /\ new \in [1 .. n -> Message]
       /\ \A i \in 1 .. n : new[i].key = list[i] /\ new[i].stamp = m_VarMap[list[i]].stamp
  <2>1. \A i \in 1 .. n : list[i] \in S BY <1>10
  <2>2. new = [i \in 1 .. n |-> Greeting(list[i])] BY <1>10
  <2> HIDE DEF new
  <2>3. QED BY <1>8, <2>1, <2>2
<1>12. \A i, j \in 1 .. n : new[i].key = new[j].key => i = j BY <1>10, <1>11
<1> DEFINE told == old \o new
<1> HIDE DEF new
<1>13. /\ told \in Seq(Message) /\ HasLatest(told)
       /\ \A i \in 1 .. n : Learn(c, told)[new[i].key] = new[i].stamp
       /\ \A v \in Vars : (\A i \in 1 .. n : new[i].key # v) =>
            Learn(c, told)[v] = Learn(c, old)[v]
  BY <1>4, <1>10, <1>11, <1>12, LearnConcat
<1>14. box = [m_HeldMailMap EXCEPT ![c] = told] OBVIOUS
<1> HIDE DEF told, box
<1>15. /\ box \in [Clients -> Seq(Message)] /\ box[c] = told
       /\ \A d \in Clients \ {c} : box[d] = m_HeldMailMap[d]
  BY <1>3, <1>13, <1>14
<1>16. \A d \in Clients : HasLatest(box[d]) BY <1>3, <1>13, <1>15
<1>17. \A v \in P : Greets(c, v) => Learn(c, box[c])[v] = m_VarMap[v].stamp
  <2> SUFFICES ASSUME NEW v \in P, Greets(c, v)
               PROVE  Learn(c, told)[v] = m_VarMap[v].stamp
    BY <1>15
  <2>1. PICK i \in 1 .. n : list[i] = v BY <1>9, <1>10
  <2>2. QED BY <1>11, <1>13, <2>1
<1>18. \A v \in Vars : (v \in P => ~Greets(c, v)) =>
         Learn(c, box[c])[v] = Learn(c, m_HeldMailMap[c])[v]
  <2> SUFFICES ASSUME NEW v \in Vars, v \in P => ~Greets(c, v)
               PROVE  Learn(c, told)[v] = Learn(c, old)[v]
    BY <1>15 DEF old
  <2>1. v \notin S BY <1>5, <1>9
  <2>2. \A i \in 1 .. n : new[i].key # v BY <1>10, <1>11, <2>1
  <2>3. QED BY <1>13, <2>2
<1>19. Tells(c, P, box) BY <1>15, <1>16, <1>17, <1>18 DEF Tells
<1>20. QED BY <1>1, <1>19 DEF P

(* A registration by wildcard.                                             *)
LEMMA WildcardRegisterKeeps ==
  ASSUME IInv, NEW c \in Clients, NEW F \in Filters, WildcardRegister(c, F)
  PROVE  IInv'
<1> DEFINE P == Present(F)
           Q == IF F.app = Anyone THEN F.vars ELSE P
<1>1. /\ c \in connected
      /\ m_VarMap' = [v \in Vars |-> IF v \in P THEN Registered(c, v, F.period)
                                                ELSE m_VarMap[v]]
      /\ m_ClientFilters' = [m_ClientFilters EXCEPT ![c] = @ \cup {F}]
      /\ left' = [left EXCEPT ![c] = @ \ Q]
      /\ UNCHANGED <<connected, fault, stamp>>
  BY DEF WildcardRegister
<1>2. F.period \in Periods /\ F.vars \in SUBSET Vars BY MOOSDBAssumption
<1>3. PICK box : Tells(c, P, box) /\ Deliver(box, {c}) BY WildcardTells
<1>4. P \in SUBSET Vars BY DEF Present
<1>5. \A v \in Vars : (m_VarMap[v].written /\ F.app = Anyone /\ v \in F.vars) => v \in P
  BY DEF Present, Matches, IInv, Existing
<1>6. Q \in SUBSET Vars /\ \A v \in Q : m_VarMap[v].written => v \in P
  BY <1>2, <1>4, <1>5
<1>7. /\ {F} \in SUBSET Filters
      /\ \A G \in {F}, v \in Vars :
           (G.app = Anyone /\ v \in G.vars /\ m_VarMap[v].written) => v \in P
  BY <1>5
<1> HIDE DEF P, Q
<1>8. QED BY <1>1, <1>2, <1>3, <1>4, <1>6, <1>7, SubscribeKeeps

(* An unregistration, by name or by wildcard.                              *)
LEMMA UnsubscribeKeeps ==
  ASSUME IInv, NEW c \in Clients, NEW S \in SUBSET Vars, Unsubscribe(c, S),
         Deliver(m_HeldMailMap, {c}), UNCHANGED <<m_ClientFilters, connected, fault, stamp>>
  PROVE  IInv'
<1> DEFINE dropped == {v \in S : m_VarMap[v].subs[c] # "no"}
<1>1. /\ m_VarMap' = [v \in Vars |-> IF v \in S THEN [m_VarMap[v] EXCEPT !.subs[c] = "no"]
                                                ELSE m_VarMap[v]]
      /\ left' = [left EXCEPT ![c] = @ \cup dropped]
  BY DEF Unsubscribe
<1>2. m_HeldMailMap \in [Clients -> Seq(Message)]
      /\ \A d \in Clients : HasLatest(m_HeldMailMap[d])
  BY DEF IInv, TypeOK, BoxesOK
<1>3. /\ m_HeldMailMap' \in [Clients -> Seq(Message)] /\ BoxesOK'
      /\ seen' \in [Clients -> [Vars -> Nat]]
      /\ \A d \in Clients : /\ Learn(d, m_HeldMailMap[d])' = Learn(d, m_HeldMailMap[d])
                            /\ m_HeldMailMap'[d] \in {m_HeldMailMap[d], <<>>}
  BY <1>2, DeliverKeeps DEF IInv
<1>4. ASSUME NEW v \in Vars
      PROVE  /\ m_VarMap'[v] \in Var /\ m_VarMap'[v].exists = m_VarMap[v].exists
             /\ m_VarMap'[v].written = m_VarMap[v].written
             /\ m_VarMap'[v].stamp = m_VarMap[v].stamp
             /\ \A d \in Clients : m_VarMap'[v].subs[d] =
                  IF d = c /\ v \in S THEN "no" ELSE m_VarMap[v].subs[d]
  <2>1. m_VarMap[v] \in Var BY DEF IInv, TypeOK
  <2>2. CASE v \in S
    <3>1. m_VarMap'[v] = [m_VarMap[v] EXCEPT !.subs[c] = "no"] BY <1>1, <2>2
    <3> DEFINE n == [m_VarMap[v] EXCEPT !.subs[c] = "no"]
    <3>2. /\ n \in Var /\ n.exists = m_VarMap[v].exists
          /\ n.written = m_VarMap[v].written /\ n.stamp = m_VarMap[v].stamp
          /\ n.subs[c] = "no" /\ \A d \in Clients \ {c} : n.subs[d] = m_VarMap[v].subs[d]
      BY <2>1 DEF Var
    <3> HIDE DEF n
    <3>3. m_VarMap'[v] = n BY <3>1 DEF n
    <3>4. QED BY <2>2, <3>2, <3>3
  <2>3. CASE v \notin S
    <3>1. m_VarMap'[v] = m_VarMap[v] BY <1>1, <2>3
    <3>2. QED BY <2>1, <2>3, <3>1
  <2>4. QED BY <2>2, <2>3
<1>5. TypeOK'
  <2>1. m_VarMap' \in [Vars -> Var] BY <1>1, <1>4
  <2>2. left' \in [Clients -> SUBSET Vars] BY <1>1 DEF IInv, TypeOK
  <2>3. /\ m_ClientFilters' \in [Clients -> SUBSET Filters] /\ connected' \subseteq Clients
        /\ fault' \in Vars \cup {NoFault} /\ stamp' \in Nat
    BY DEF IInv, TypeOK
  <2>4. QED BY <1>3, <2>1, <2>2, <2>3 DEF TypeOK
<1>6. Existing' BY <1>4 DEF IInv, Existing
<1>7. SubscriberInformed'
  <2> SUFFICES ASSUME NEW d \in Clients, NEW v \in Vars,
                      m_VarMap'[v].subs[d] = "every", m_VarMap'[v].written
               PROVE  Learn(d, m_HeldMailMap[d])'[v] = m_VarMap'[v].stamp
    BY DEF SubscriberInformed
  <2>1. m_VarMap[v].subs[d] = "every" /\ m_VarMap[v].written BY <1>4
  <2>2. QED BY <1>3, <1>4, <2>1 DEF IInv, SubscriberInformed
<1>8. WildcardCovers'
  <2> SUFFICES ASSUME NEW d \in Clients, NEW F \in m_ClientFilters[d],
                      NEW v \in F.vars \ left'[d], F.app = Anyone, m_VarMap'[v].written
               PROVE  m_VarMap'[v].subs[d] # "no"
    BY DEF WildcardCovers
  <2>1. v \in Vars BY MOOSDBAssumption DEF IInv, TypeOK
  <2>2. v \notin left[d] BY <1>1 DEF IInv, TypeOK
  <2>3. m_VarMap[v].subs[d] # "no" BY <1>4, <2>1, <2>2 DEF IInv, WildcardCovers
  <2>4. ~(d = c /\ v \in S) BY <1>1, <2>3 DEF IInv, TypeOK
  <2>5. QED BY <1>4, <2>1, <2>3, <2>4
<1>9. NothingForTheGone'
  <2> SUFFICES ASSUME NEW d \in Clients \ connected
               PROVE  /\ m_HeldMailMap'[d] = <<>> /\ m_ClientFilters[d] = {}
                      /\ \A v \in Vars : m_VarMap'[v].subs[d] = "no"
    BY DEF NothingForTheGone
  <2>1. QED BY <1>3, <1>4 DEF IInv, NothingForTheGone
<1>10. QED BY <1>3, <1>5, <1>6, <1>7, <1>8, <1>9 DEF IInv

(* A step that writes nothing and changes no subscription keeps it, unless *)
(* it loses mail about variables that have a value.                        *)
LEMMA OtherwiseKept ==
  ASSUME IInv, m_VarMap' \in [Vars -> Var],
         \A v \in Vars : /\ m_VarMap'[v].written => m_VarMap[v].written
                         /\ m_VarMap[v].exists => m_VarMap'[v].exists
                         /\ m_VarMap'[v].stamp = m_VarMap[v].stamp
                         /\ m_VarMap'[v].subs = m_VarMap[v].subs,
         m_HeldMailMap' \in [Clients -> Seq(Message)], BoxesOK',
         seen' \in [Clients -> [Vars -> Nat]],
         \A c \in Clients :
           /\ m_HeldMailMap'[c] \in {m_HeldMailMap[c], <<>>}
           /\ \A v \in Vars : m_VarMap'[v].written =>
                Learn(c, m_HeldMailMap[c])'[v] = Learn(c, m_HeldMailMap[c])[v],
         UNCHANGED <<m_ClientFilters, connected, stamp, left>>,
         fault' \in Vars \cup {NoFault}
  PROVE  IInv'
<1>1. TypeOK' BY DEF IInv, TypeOK
<1>2. Existing' BY DEF IInv, Existing
<1>3. SubscriberInformed'
  <2> SUFFICES ASSUME NEW d \in Clients, NEW v \in Vars,
                      m_VarMap'[v].subs[d] = "every", m_VarMap'[v].written
               PROVE  Learn(d, m_HeldMailMap[d])'[v] = m_VarMap'[v].stamp
    BY DEF SubscriberInformed
  <2>1. m_VarMap[v].subs[d] = "every" /\ m_VarMap[v].written OBVIOUS
  <2>2. QED BY <2>1 DEF IInv, SubscriberInformed
<1>4. WildcardCovers'
  <2> SUFFICES ASSUME NEW d \in Clients, NEW F \in m_ClientFilters[d],
                      NEW v \in F.vars \ left[d], F.app = Anyone, m_VarMap'[v].written
               PROVE  m_VarMap'[v].subs[d] # "no"
    BY DEF WildcardCovers
  <2>1. v \in Vars BY MOOSDBAssumption DEF IInv, TypeOK
  <2>2. QED BY <2>1 DEF IInv, WildcardCovers
<1>5. NothingForTheGone'
  <2> SUFFICES ASSUME NEW c \in Clients \ connected
               PROVE  /\ m_HeldMailMap'[c] = <<>> /\ m_ClientFilters[c] = {}
                      /\ \A v \in Vars : m_VarMap'[v].subs[c] = "no"
    BY DEF NothingForTheGone
  <2>1. /\ m_HeldMailMap[c] = <<>> /\ m_ClientFilters[c] = {}
        /\ \A v \in Vars : m_VarMap[v].subs[c] = "no"
    BY DEF IInv, NothingForTheGone
  <2>2. m_HeldMailMap'[c] = <<>> BY <2>1
  <2>3. QED BY <2>1, <2>2
<1>6. QED BY <1>1, <1>2, <1>3, <1>4, <1>5 DEF IInv

(* A packet without a request: mail is fetched.                            *)
LEMMA TimingKeeps ==
  ASSUME IInv, NEW c \in Clients, Timing(c)
  PROVE  IInv'
<1>1. /\ Deliver(m_HeldMailMap, {c}) /\ m_VarMap' = m_VarMap
      /\ UNCHANGED <<m_ClientFilters, connected, fault, stamp, left>>
  BY DEF Timing
<1>2. m_HeldMailMap \in [Clients -> Seq(Message)]
      /\ \A d \in Clients : HasLatest(m_HeldMailMap[d])
  BY DEF IInv, TypeOK, BoxesOK
<1>3. /\ m_HeldMailMap' \in [Clients -> Seq(Message)] /\ BoxesOK'
      /\ seen' \in [Clients -> [Vars -> Nat]]
      /\ \A d \in Clients : /\ Learn(d, m_HeldMailMap[d])' = Learn(d, m_HeldMailMap[d])
                            /\ m_HeldMailMap'[d] \in {m_HeldMailMap[d], <<>>}
  BY <1>1, <1>2, DeliverKeeps DEF IInv
<1>4. m_VarMap' \in [Vars -> Var] /\ fault' \in Vars \cup {NoFault}
  BY <1>1 DEF IInv, TypeOK
<1>5. QED BY <1>1, <1>3, <1>4, OtherwiseKept

(* A request to clear the database.                                        *)
LEMMA OnClearRequestedKeeps ==
  ASSUME IInv, NEW c \in Clients, OnClearRequested(c)
  PROVE  IInv'
<1>1. /\ m_VarMap' = [v \in Vars |-> [m_VarMap[v] EXCEPT !.written = FALSE, !.who = Fault]]
      /\ m_HeldMailMap' = [d \in Clients |-> <<>>]
      /\ UNCHANGED <<m_ClientFilters, connected, seen, fault, stamp, left>>
  BY DEF OnClearRequested
<1>2. ASSUME NEW v \in Vars
      PROVE  /\ m_VarMap'[v] \in Var /\ ~m_VarMap'[v].written
             /\ m_VarMap[v].exists => m_VarMap'[v].exists
             /\ m_VarMap'[v].stamp = m_VarMap[v].stamp
             /\ m_VarMap'[v].subs = m_VarMap[v].subs
  <2>1. m_VarMap[v] \in Var BY DEF IInv, TypeOK
  <2>2. m_VarMap'[v] = [m_VarMap[v] EXCEPT !.written = FALSE, !.who = Fault] BY <1>1
  <2>3. QED BY <2>1, <2>2 DEF Var
<1>3. m_VarMap' \in [Vars -> Var] BY <1>1, <1>2
<1>4. /\ m_HeldMailMap' \in [Clients -> Seq(Message)]
      /\ \A d \in Clients : m_HeldMailMap'[d] = <<>>
  <2>1. <<>> \in Seq(Message) OBVIOUS
  <2>2. m_HeldMailMap' = [d \in Clients |-> <<>>] BY <1>1
  <2>3. QED BY <2>1, <2>2
<1>5. BoxesOK'
  <2>1. HasLatest(<<>>) BY DEF HasLatest
  <2>2. \A d \in Clients : HasLatest(m_HeldMailMap'[d]) BY <1>4, <2>1
  <2>3. QED BY <2>2 DEF BoxesOK, HasLatest
<1>6. seen' \in [Clients -> [Vars -> Nat]] /\ fault' \in Vars \cup {NoFault}
  BY <1>1 DEF IInv, TypeOK
<1>7. QED BY <1>1, <1>2, <1>3, <1>4, <1>5, <1>6, OtherwiseKept

(* Steps that leave the mail alone.                                        *)
LEMMA MarkKeeps ==
  ASSUME IInv, m_VarMap' \in [Vars -> Var],
         \A v \in Vars : /\ m_VarMap'[v].written = m_VarMap[v].written
                         /\ m_VarMap[v].exists => m_VarMap'[v].exists
                         /\ m_VarMap'[v].stamp = m_VarMap[v].stamp
                         /\ m_VarMap'[v].subs = m_VarMap[v].subs,
         UNCHANGED <<m_HeldMailMap, m_ClientFilters, connected, seen, stamp, left>>,
         fault' \in Vars \cup {NoFault}
  PROVE  IInv'
<1>1. m_HeldMailMap' \in [Clients -> Seq(Message)] /\ seen' \in [Clients -> [Vars -> Nat]]
  BY DEF IInv, TypeOK
<1>2. BoxesOK' BY DEF IInv, BoxesOK, HasLatest
<1>3. \A c \in Clients : Learn(c, m_HeldMailMap[c])' = Learn(c, m_HeldMailMap[c])
  BY DEF Learn
<1>4. QED BY <1>1, <1>2, <1>3, OtherwiseKept

(* The second half of a fault: the variable's override.                    *)
LEMMA SetOverrideKeeps ==
  ASSUME IInv, SetOverride
  PROVE  IInv'
<1>1. /\ fault \in Vars /\ fault' = NoFault
      /\ m_VarMap' = [m_VarMap EXCEPT ![fault].exists = TRUE, ![fault].override = TRUE]
      /\ UNCHANGED <<m_HeldMailMap, m_ClientFilters, connected, seen, stamp, left>>
  BY DEF SetOverride, IInv, TypeOK
<1>2. m_VarMap \in [Vars -> Var] BY DEF IInv, TypeOK
<1>3. m_VarMap' = [m_VarMap EXCEPT
                     ![fault] = [m_VarMap[fault] EXCEPT !.exists = TRUE, !.override = TRUE]]
  BY <1>1, <1>2
<1> DEFINE r == [m_VarMap[fault] EXCEPT !.exists = TRUE, !.override = TRUE]
<1>4. /\ r \in Var /\ r.exists /\ r.written = m_VarMap[fault].written
      /\ r.stamp = m_VarMap[fault].stamp /\ r.subs = m_VarMap[fault].subs
  BY <1>1, <1>2 DEF Var
<1>5. m_VarMap' = [m_VarMap EXCEPT ![fault] = r] BY <1>3
<1> HIDE DEF r
<1>6. m_VarMap' \in [Vars -> Var] BY <1>1, <1>2, <1>4, <1>5
<1>7. ASSUME NEW v \in Vars
      PROVE  /\ m_VarMap'[v].written = m_VarMap[v].written
             /\ m_VarMap[v].exists => m_VarMap'[v].exists
             /\ m_VarMap'[v].stamp = m_VarMap[v].stamp
             /\ m_VarMap'[v].subs = m_VarMap[v].subs
  <2>1. CASE v = fault
    <3>1. m_VarMap'[v] = r BY <1>1, <1>2, <1>5, <2>1
    <3>2. QED BY <1>4, <2>1, <3>1
  <2>2. CASE v # fault
    <3>1. m_VarMap'[v] = m_VarMap[v] BY <1>2, <1>5, <2>2
    <3>2. QED BY <3>1
  <2>3. QED BY <2>1, <2>2
<1>8. fault' \in Vars \cup {NoFault} BY <1>1
<1>9. QED BY <1>1, <1>6, <1>7, <1>8, MarkKeeps

(* The end of an override.                                                 *)
LEMMA ExpireKeeps ==
  ASSUME IInv, NEW x \in Vars, Expire(x)
  PROVE  IInv'
<1> DEFINE r == [m_VarMap[x] EXCEPT !.override = FALSE]
<1>1. /\ m_VarMap' = [m_VarMap EXCEPT ![x] = r] /\ fault' = fault
      /\ UNCHANGED <<m_HeldMailMap, m_ClientFilters, connected, seen, stamp, left>>
  BY DEF Expire
<1>2. m_VarMap \in [Vars -> Var] /\ fault \in Vars \cup {NoFault} BY DEF IInv, TypeOK
<1>3. /\ r \in Var /\ r.exists = m_VarMap[x].exists /\ r.written = m_VarMap[x].written
      /\ r.stamp = m_VarMap[x].stamp /\ r.subs = m_VarMap[x].subs
  BY <1>2 DEF Var
<1> HIDE DEF r
<1>4. m_VarMap' \in [Vars -> Var] BY <1>1, <1>2, <1>3
<1>5. ASSUME NEW v \in Vars
      PROVE  /\ m_VarMap'[v].written = m_VarMap[v].written
             /\ m_VarMap[v].exists => m_VarMap'[v].exists
             /\ m_VarMap'[v].stamp = m_VarMap[v].stamp
             /\ m_VarMap'[v].subs = m_VarMap[v].subs
  <2>1. CASE v = x
    <3>1. m_VarMap'[v] = r BY <1>1, <1>2, <2>1
    <3>2. QED BY <1>3, <2>1, <3>1
  <2>2. CASE v # x
    <3>1. m_VarMap'[v] = m_VarMap[v] BY <1>1, <1>2, <2>2
    <3>2. QED BY <3>1
  <2>3. QED BY <2>1, <2>2
<1>6. fault' \in Vars \cup {NoFault} BY <1>1, <1>2
<1>7. QED BY <1>1, <1>4, <1>5, <1>6, MarkKeeps

------------------------------------------------------------------------------
(* Every step.                                                             *)

(* Every step of every client and of the faults.                           *)
LEMMA NextHolds == IInv /\ [Next]_vars => IInv'
<1> SUFFICES ASSUME IInv, [Next]_vars PROVE IInv'
  OBVIOUS
<1>1. ASSUME NEW c \in Clients, OnConnect(c) PROVE IInv'
  BY <1>1, OnConnectKeeps
<1>2. ASSUME NEW c \in Clients, OnDisconnect(c) PROVE IInv'
  BY <1>2, OnDisconnectKeeps
<1>3. ASSUME NEW c \in Clients, Timing(c) PROVE IInv'
  BY <1>3, TimingKeeps
<1>4. ASSUME NEW c \in Clients, OnClearRequested(c) PROVE IInv'
  BY <1>4, OnClearRequestedKeeps
<1>5. ASSUME NEW c \in Clients, NEW v \in Vars \ {DB_EVENT}, NEW type \in Types,
             Notify(c, v, type)
      PROVE  IInv'
  BY <1>5, NotifyKeeps
<1>6. ASSUME NEW c \in Clients, NEW v \in Vars, NEW period \in Requested,
             Register(c, v, period)
      PROVE  IInv'
  BY <1>6, RegisterKeeps
<1>7. ASSUME NEW c \in Clients, NEW v \in Vars, UnRegister(c, v) PROVE IInv'
  <2>1. {v} \in SUBSET Vars OBVIOUS
  <2>2. /\ Unsubscribe(c, {v}) /\ Deliver(m_HeldMailMap, {c})
        /\ UNCHANGED <<m_ClientFilters, connected, fault, stamp>>
    BY <1>7 DEF UnRegister
  <2>3. QED BY <2>1, <2>2, UnsubscribeKeeps
<1>8. ASSUME NEW c \in Clients, NEW F \in Filters, WildcardRegister(c, F) PROVE IInv'
  BY <1>8, WildcardRegisterKeeps
<1>9. ASSUME NEW c \in Clients, NEW F \in Filters, WildcardUnRegister(c, F) PROVE IInv'
  <2>1. Present(F) \in SUBSET Vars BY DEF Present
  <2>2. /\ Unsubscribe(c, Present(F)) /\ Deliver(m_HeldMailMap, {c})
        /\ UNCHANGED <<m_ClientFilters, connected, fault, stamp>>
    BY <1>9 DEF WildcardUnRegister
  <2>3. QED BY <2>1, <2>2, UnsubscribeKeeps
<1>10. ASSUME NEW v \in Vars \ {DB_EVENT}, FromMQ(v) PROVE IInv'
  BY <1>10, FromMQKeeps
<1>11. ASSUME NEW v \in Vars \ {DB_EVENT}, Expire(v) PROVE IInv'
  BY <1>11, ExpireKeeps
<1>12. CASE SetOverride
  BY <1>12, SetOverrideKeeps
<1>13. CASE UNCHANGED vars
  <2>1. m_VarMap' \in [Vars -> Var] /\ fault' \in Vars \cup {NoFault}
    BY <1>13 DEF IInv, TypeOK, vars
  <2>2. QED BY <1>13, <2>1, MarkKeeps DEF vars
<1>14. QED
  BY <1>1, <1>2, <1>3, <1>4, <1>5, <1>6, <1>7, <1>8, <1>9, <1>10, <1>11, <1>12, <1>13
     DEF Next

(* So the invariant holds throughout.                                      *)
LEMMA Invariant == Spec => []IInv
<1>1. Init => IInv BY InitHolds
<1>2. IInv /\ [Next]_vars => IInv' BY NextHolds
<1>3. QED BY <1>1, <1>2, PTL DEF Spec

(* The variables keep their types.                                         *)
THEOREM TypeCorrect == Spec => []TypeOK
<1>1. IInv => TypeOK BY DEF IInv
<1>2. QED BY <1>1, Invariant, PTL

(* Whoever writes a variable, and however a client came to subscribe to    *)
(* every change of it - by name, by a wildcard that found it there, or by  *)
(* one that was there first - the client is informed of the last write as  *)
(* soon as it has read its mail.                                           *)
THEOREM Informed == Spec => []SubscriberInformed
<1>1. IInv => SubscriberInformed BY DEF IInv
<1>2. QED BY <1>1, Invariant, PTL

(* A wildcard for any application covers what is there and what comes, in  *)
(* any order of registrations, writes, clears and reconnections, except    *)
(* what its client has unregistered.                                       *)
THEOREM Covered == Spec => []WildcardCovers
<1>1. IInv => WildcardCovers BY DEF IInv
<1>2. QED BY <1>1, Invariant, PTL

(* A client that reconnects starts from nothing: no subscription, wildcard *)
(* or mail of the connection it lost is left.                              *)
THEOREM CleanStart == Spec => []NothingForTheGone
<1>1. IInv => NothingForTheGone BY DEF IInv
<1>2. QED BY <1>1, Invariant, PTL

------------------------------------------------------------------------------
(* The order of mail.                                                      *)

(* What a client has been sent is no newer than what it will have read,    *)
(* which is no newer than the variable, and nothing is newer than stamp.   *)
Ordered ==
  /\ \A v \in Vars : m_VarMap[v].stamp <= stamp
  /\ \A c \in Clients, v \in Vars : /\ seen[c][v] <= Learn(c, m_HeldMailMap[c])[v]
                                    /\ Learn(c, m_HeldMailMap[c])[v] <= m_VarMap[v].stamp

(* The DB starts in order.                                                 *)
LEMMA InitOrdered == Init => Ordered
<1> SUFFICES ASSUME Init PROVE Ordered
  OBVIOUS
<1>1. /\ stamp = 0 /\ \A v \in Vars : m_VarMap[v].stamp = 0
      /\ \A c \in Clients : m_HeldMailMap[c] = <<>> /\ \A v \in Vars : seen[c][v] = 0
  BY DEF Init
<1>2. seen \in [Clients -> [Vars -> Nat]] BY InitHolds DEF IInv, TypeOK
<1>3. \A c \in Clients, v \in Vars : Learn(c, m_HeldMailMap[c])[v] = 0
  BY <1>1, <1>2, LearnEmpty
<1>4. QED BY <1>1, <1>3 DEF Ordered

(* What a step may do to the mail of a client: bring it forward, perhaps   *)
(* handing it over, lose what is not handed over, or forget the client.    *)
Forward(c) == \A v \in Vars :
  /\ Learn(c, m_HeldMailMap[c])'[v] \in Nat
  /\ Learn(c, m_HeldMailMap[c])[v] <= Learn(c, m_HeldMailMap[c])'[v]
  /\ Learn(c, m_HeldMailMap[c])'[v] <= m_VarMap'[v].stamp
  /\ seen'[c][v] \in {seen[c][v], Learn(c, m_HeldMailMap[c])'[v]}
Emptied(c) == m_HeldMailMap'[c] = <<>> /\ seen'[c] = seen[c]
Forgotten(c) == /\ m_HeldMailMap'[c] = <<>> /\ seen'[c] = [v \in Vars |-> 0]
                /\ c \notin connected'

(* Stamps do not go back.                                                  *)
StampsGrow == \A v \in Vars : /\ m_VarMap[v].stamp <= m_VarMap'[v].stamp
                              /\ m_VarMap'[v].stamp <= stamp'

(* Each of these leaves the DB in order and shows no client older mail.    *)
InOrder == Ordered' /\ \A c \in connected', v \in Vars : seen'[c][v] >= seen[c][v]

LEMMA OrderStep ==
  ASSUME IInv, IInv', Ordered, StampsGrow,
         \A c \in Clients : Forward(c) \/ Emptied(c) \/ Forgotten(c)
  PROVE  InOrder
<1>1. seen \in [Clients -> [Vars -> Nat]] /\ seen' \in [Clients -> [Vars -> Nat]]
  BY DEF IInv, TypeOK
<1>2. ASSUME NEW c \in Clients PROVE Learn(c, m_HeldMailMap[c]) \in [Vars -> Nat]
  <2>1. m_HeldMailMap[c] \in Seq(Message) /\ HasLatest(m_HeldMailMap[c])
    BY DEF IInv, TypeOK, BoxesOK
  <2>2. QED BY <1>1, <2>1, LearnType
<1>3. \A v \in Vars : /\ m_VarMap[v].stamp \in Nat /\ m_VarMap'[v].stamp \in Nat
                      /\ stamp \in Nat /\ stamp' \in Nat
  BY DEF IInv, TypeOK, Var
<1>4. ASSUME NEW c \in Clients, NEW v \in Vars
      PROVE  /\ seen'[c][v] <= Learn(c, m_HeldMailMap[c])'[v]
             /\ Learn(c, m_HeldMailMap[c])'[v] <= m_VarMap'[v].stamp
             /\ c \in connected' => seen'[c][v] >= seen[c][v]
  <2>1. /\ seen[c][v] <= Learn(c, m_HeldMailMap[c])[v]
        /\ Learn(c, m_HeldMailMap[c])[v] <= m_VarMap[v].stamp
        /\ m_VarMap[v].stamp <= m_VarMap'[v].stamp /\ m_VarMap'[v].stamp <= stamp'
    BY DEF Ordered, StampsGrow
  <2>2. /\ seen[c][v] \in Nat /\ seen'[c][v] \in Nat
        /\ Learn(c, m_HeldMailMap[c])[v] \in Nat
    BY <1>1, <1>2
  <2>3. m_VarMap[v].stamp \in Nat /\ m_VarMap'[v].stamp \in Nat BY <1>3
  <2>4. CASE Forward(c)
    <3>1. /\ Learn(c, m_HeldMailMap[c])'[v] \in Nat
          /\ Learn(c, m_HeldMailMap[c])[v] <= Learn(c, m_HeldMailMap[c])'[v]
          /\ Learn(c, m_HeldMailMap[c])'[v] <= m_VarMap'[v].stamp
          /\ seen'[c][v] \in {seen[c][v], Learn(c, m_HeldMailMap[c])'[v]}
      BY <2>4 DEF Forward
    <3>2. QED BY <2>1, <2>2, <3>1
  <2>5. CASE m_HeldMailMap'[c] = <<>>
    <3>1. Learn(c, m_HeldMailMap[c])'[v] = seen'[c][v]
      BY <2>5 DEF Learn
    <3>2. CASE Emptied(c) BY <2>1, <2>2, <2>3, <3>1, <3>2 DEF Emptied
    <3>3. CASE Forgotten(c)
      <4>1. seen'[c][v] = 0 /\ c \notin connected' BY <3>3 DEF Forgotten
      <4>2. QED BY <2>1, <2>3, <3>1, <4>1
    <3>4. QED BY <2>4, <3>2, <3>3
  <2>6. QED BY <2>4, <2>5 DEF Emptied, Forgotten
<1>5. Ordered' BY <1>4 DEF Ordered, StampsGrow
<1>6. connected' \subseteq Clients BY DEF IInv, TypeOK
<1>7. QED BY <1>4, <1>5, <1>6 DEF InOrder

(* A write stamps its variable with the newest stamp and tells the         *)
(* subscribers of no other.                                                *)
LEMMA WriteForward ==
  ASSUME IInv, Ordered, NEW v \in Vars, NEW type \in Types,
         NEW src \in Clients \cup {DBName, Fault}, NEW late
  PROVE  LET W == Written(v, type, src)
             B == Boxes(v, type, src, late)
         IN  \A w \in Vars :
               /\ m_VarMap[w].stamp <= W[w].stamp /\ W[w].stamp <= stamp + 1
               /\ \A c \in Clients :
                    /\ Learn(c, m_HeldMailMap[c])[w] <= Learn(c, B[c])[w]
                    /\ Learn(c, B[c])[w] <= W[w].stamp
<1> DEFINE W == Written(v, type, src)
           B == Boxes(v, type, src, late)
<1>1. /\ \A w \in Vars \ {v} : W[w] = m_VarMap[w]
      /\ ~Accepts(v, type) => W[v] = m_VarMap[v]
      /\ Accepts(v, type) => W[v].stamp = stamp + 1
  BY WriteVars DEF IInv
<1>2. \A c \in Clients :
        /\ \A w \in Vars \ {v} : Learn(c, B[c])[w] = Learn(c, m_HeldMailMap[c])[w]
        /\ \/ B[c] = m_HeldMailMap[c]
           \/ Accepts(v, type) /\ Learn(c, B[c])[v] = stamp + 1
  BY WriteBoxes DEF IInv
<1> HIDE DEF W, B
<1>3. stamp \in Nat /\ \A w \in Vars : m_VarMap[w].stamp \in Nat
  BY DEF IInv, TypeOK, Var
<1>4. ASSUME NEW c \in Clients PROVE Learn(c, m_HeldMailMap[c]) \in [Vars -> Nat]
  <2>1. m_HeldMailMap[c] \in Seq(Message) /\ HasLatest(m_HeldMailMap[c])
    BY DEF IInv, TypeOK, BoxesOK
  <2>2. seen \in [Clients -> [Vars -> Nat]] BY DEF IInv, TypeOK
  <2>3. QED BY <2>1, <2>2, LearnType
<1>5. ASSUME NEW w \in Vars
      PROVE  m_VarMap[w].stamp <= W[w].stamp /\ W[w].stamp <= stamp + 1
  <2>0. m_VarMap[w].stamp <= stamp BY DEF Ordered
  <2>1. CASE w = v /\ Accepts(v, type) BY <1>1, <1>3, <2>0, <2>1
  <2>2. CASE w # v \/ ~Accepts(v, type)
    <3>1. W[w] = m_VarMap[w] BY <1>1, <2>2
    <3>2. QED BY <1>3, <2>0, <3>1
  <2>3. QED BY <2>1, <2>2
<1>6. ASSUME NEW c \in Clients, NEW w \in Vars
      PROVE  /\ Learn(c, m_HeldMailMap[c])[w] <= Learn(c, B[c])[w]
             /\ Learn(c, B[c])[w] <= W[w].stamp
  <2>1. /\ Learn(c, m_HeldMailMap[c])[w] <= m_VarMap[w].stamp /\ m_VarMap[w].stamp <= stamp
        /\ Learn(c, m_HeldMailMap[c])[w] \in Nat /\ m_VarMap[w].stamp \in Nat
    BY <1>3, <1>4 DEF Ordered
  <2>2. m_VarMap[w].stamp <= W[w].stamp /\ W[w].stamp <= stamp + 1 BY <1>5
  <2>3. CASE Learn(c, B[c])[w] = Learn(c, m_HeldMailMap[c])[w]
    <3>1. W[w].stamp \in Nat BY <1>1, <1>3
    <3>2. QED BY <2>1, <2>2, <2>3, <3>1
  <2>4. CASE w = v /\ Accepts(v, type) /\ Learn(c, B[c])[v] = stamp + 1
    BY <1>1, <1>3, <2>1, <2>4
  <2>5. QED BY <1>2, <2>3, <2>4
<1>7. QED BY <1>5, <1>6 DEF W, B

(* Boxes delivered to some, when they bring everyone forward.              *)
LEMMA DeliverForward ==
  ASSUME IInv, NEW box \in [Clients -> Seq(Message)], \A c \in Clients : HasLatest(box[c]),
         NEW who, Deliver(box, who),
         \A c \in Clients, v \in Vars :
           /\ Learn(c, m_HeldMailMap[c])[v] <= Learn(c, box[c])[v]
           /\ Learn(c, box[c])[v] <= m_VarMap'[v].stamp
  PROVE  \A c \in Clients : Forward(c)
<1> SUFFICES ASSUME NEW c \in Clients PROVE Forward(c)
  OBVIOUS
<1>1. Learn(c, m_HeldMailMap[c])' = Learn(c, box[c]) /\ seen'[c] \in {seen[c], Learn(c, box[c])}
  BY DeliverKeeps DEF IInv
<1>2. Learn(c, box[c]) \in [Vars -> Nat] BY LearnType DEF IInv, TypeOK
<1>3. QED BY <1>1, <1>2 DEF Forward

(* A write, with the mail of some handed over.                             *)
LEMMA WriteInOrder ==
  ASSUME IInv, IInv', Ordered, NEW v \in Vars, NEW type \in Types,
         NEW src \in Clients \cup {DBName, Fault}, NEW late, NEW who,
         Deliver(Boxes(v, type, src, late), who),
         m_VarMap' = Written(v, type, src), stamp' = stamp + 1
  PROVE  InOrder
<1> DEFINE B == Boxes(v, type, src, late)
<1>1. B \in [Clients -> Seq(Message)] /\ \A c \in Clients : HasLatest(B[c])
  BY WriteBoxes DEF IInv
<1>2. \A w \in Vars :
        /\ m_VarMap[w].stamp <= m_VarMap'[w].stamp /\ m_VarMap'[w].stamp <= stamp'
        /\ \A c \in Clients : /\ Learn(c, m_HeldMailMap[c])[w] <= Learn(c, B[c])[w]
                              /\ Learn(c, B[c])[w] <= m_VarMap'[w].stamp
  BY WriteForward
<1> HIDE DEF B
<1>3. Deliver(B, who) BY DEF B
<1>4. \A c \in Clients : Forward(c) BY <1>1, <1>2, <1>3, DeliverForward
<1>5. StampsGrow BY <1>2 DEF StampsGrow
<1>6. QED BY <1>4, <1>5, OrderStep

(* A write that hands nothing over.                                        *)
LEMMA SilentWriteInOrder ==
  ASSUME IInv, IInv', Ordered, NEW v \in Vars, NEW src \in {DBName, Fault}, NEW late,
         m_HeldMailMap' = Boxes(v, "S", src, late), m_VarMap' = Written(v, "S", src),
         stamp' = stamp + 1, UNCHANGED seen
  PROVE  InOrder
<1>1. "S" \in Types BY DEF Types
<1>2. Boxes(v, "S", src, late) \in [Clients -> Seq(Message)] /\ seen \in [Clients -> [Vars -> Nat]]
  BY <1>1, WriteBoxes DEF IInv, TypeOK
<1>3. Deliver(Boxes(v, "S", src, late), {}) BY <1>2 DEF Deliver
<1>4. QED BY <1>1, <1>3, WriteInOrder

(* A step that stamps nothing, and tells a client of some variables.       *)
LEMMA TellInOrder ==
  ASSUME IInv, IInv', Ordered, NEW c \in Clients, NEW P \in SUBSET Vars, NEW box, NEW who,
         Tells(c, P, box), Deliver(box, who),
         \A v \in Vars : m_VarMap'[v].stamp = m_VarMap[v].stamp, stamp' = stamp
  PROVE  InOrder
<1>1. stamp \in Nat /\ \A v \in Vars : m_VarMap[v].stamp \in Nat
  BY DEF IInv, TypeOK, Var
<1>2. ASSUME NEW d \in Clients PROVE Learn(d, m_HeldMailMap[d]) \in [Vars -> Nat]
  <2>1. m_HeldMailMap[d] \in Seq(Message) /\ HasLatest(m_HeldMailMap[d])
    BY DEF IInv, TypeOK, BoxesOK
  <2>2. seen \in [Clients -> [Vars -> Nat]] BY DEF IInv, TypeOK
  <2>3. QED BY <2>1, <2>2, LearnType
<1>3. ASSUME NEW d \in Clients, NEW v \in Vars
      PROVE  \/ Learn(d, box[d])[v] = Learn(d, m_HeldMailMap[d])[v]
             \/ Learn(d, box[d])[v] = m_VarMap[v].stamp
  BY DEF Tells
<1>4. ASSUME NEW d \in Clients, NEW v \in Vars
      PROVE  /\ Learn(d, m_HeldMailMap[d])[v] <= Learn(d, box[d])[v]
             /\ Learn(d, box[d])[v] <= m_VarMap'[v].stamp
  <2>1. /\ Learn(d, m_HeldMailMap[d])[v] <= m_VarMap[v].stamp
        /\ Learn(d, m_HeldMailMap[d])[v] \in Nat /\ m_VarMap[v].stamp \in Nat
    BY <1>1, <1>2 DEF Ordered
  <2>2. m_VarMap'[v].stamp = m_VarMap[v].stamp OBVIOUS
  <2>3. QED BY <1>3, <2>1, <2>2
<1>5. box \in [Clients -> Seq(Message)] /\ \A d \in Clients : HasLatest(box[d]) BY DEF Tells
<1>6. \A d \in Clients : Forward(d) BY <1>4, <1>5, DeliverForward
<1>7. StampsGrow BY <1>1 DEF StampsGrow, Ordered
<1>8. QED BY <1>6, <1>7, OrderStep

(* A step that stamps nothing and tells nobody anything new.               *)
LEMMA QuietInOrder ==
  ASSUME IInv, IInv', Ordered, NEW c \in Clients, NEW who, Deliver(m_HeldMailMap, who),
         \A v \in Vars : m_VarMap'[v].stamp = m_VarMap[v].stamp, stamp' = stamp
  PROVE  InOrder
<1>1. Tells(c, {}, m_HeldMailMap) BY DEF Tells, IInv, TypeOK, BoxesOK
<1>2. {} \in SUBSET Vars OBVIOUS
<1>3. QED BY <1>1, <1>2, TellInOrder

(* A step that has nothing to do with mail.                                *)
LEMMA MarkInOrder ==
  ASSUME IInv, IInv', Ordered, \A v \in Vars : m_VarMap'[v].stamp = m_VarMap[v].stamp,
         UNCHANGED <<m_HeldMailMap, seen, stamp>>
  PROVE  InOrder
<1>1. Deliver(m_HeldMailMap, {}) BY DEF Deliver, IInv, TypeOK
<1>2. CASE Clients = {}
  <2>1. connected' = {} BY <1>2 DEF IInv, TypeOK
  <2>2. QED BY <1>2, <2>1 DEF InOrder, Ordered
<1>3. CASE \E c \in Clients : TRUE BY <1>1, <1>3, QuietInOrder
<1>4. QED BY <1>2, <1>3

(* A registration by name or by wildcard.                                  *)
LEMMA RegistersInOrder ==
  ASSUME IInv, IInv', Ordered, NEW c \in Clients, NEW P \in SUBSET Vars, NEW period,
         \E box : Tells(c, P, box) /\ Deliver(box, {c}),
         \A v \in Vars : m_VarMap'[v] \in {m_VarMap[v], Registered(c, v, period)},
         stamp' = stamp
  PROVE  InOrder
<1>1. PICK box : Tells(c, P, box) /\ Deliver(box, {c}) OBVIOUS
<1>2. ASSUME NEW v \in Vars PROVE m_VarMap'[v].stamp = m_VarMap[v].stamp
  <2>1. m_VarMap[v] \in Var BY DEF IInv, TypeOK
  <2>2. Registered(c, v, period).stamp = m_VarMap[v].stamp
    BY <2>1 DEF Registered, Var
  <2>3. QED BY <2>2
<1>3. QED BY <1>1, <1>2, TellInOrder

(* An unregistration by name or by wildcard.                               *)
LEMMA UnsubscribeInOrder ==
  ASSUME IInv, IInv', Ordered, NEW c \in Clients, NEW S, Unsubscribe(c, S),
         Deliver(m_HeldMailMap, {c}), stamp' = stamp
  PROVE  InOrder
<1>1. ASSUME NEW v \in Vars PROVE m_VarMap'[v].stamp = m_VarMap[v].stamp
  <2>1. m_VarMap[v] \in Var BY DEF IInv, TypeOK
  <2>2. m_VarMap'[v] \in {m_VarMap[v], [m_VarMap[v] EXCEPT !.subs[c] = "no"]}
    BY DEF Unsubscribe
  <2>3. QED BY <2>1, <2>2 DEF Var
<1>2. QED BY <1>1, QuietInOrder

(* A lost connection: its client is forgotten, the others may get a        *)
(* DB_EVENT.                                                               *)
LEMMA OnDisconnectInOrder ==
  ASSUME IInv, IInv', Ordered, NEW c \in Clients, OnDisconnect(c)
  PROVE  InOrder
<1> DEFINE W == Written(DB_EVENT, "S", DBName)
<1>1. PICK late \in SUBSET Clients :
        m_HeldMailMap' = [Boxes(DB_EVENT, "S", DBName, late) EXCEPT ![c] = <<>>]
  BY DEF OnDisconnect
<1> DEFINE B == Boxes(DB_EVENT, "S", DBName, late)
<1>2. DB_EVENT \in Vars /\ "S" \in Types BY MOOSDBAssumption DEF Types
<1>3. W \in [Vars -> Var] BY <1>2, WriteVars DEF IInv
<1>4. B \in [Clients -> Seq(Message)] /\ \A d \in Clients : HasLatest(B[d])
  BY <1>2, WriteBoxes DEF IInv
<1>5. \A w \in Vars :
        /\ m_VarMap[w].stamp <= W[w].stamp /\ W[w].stamp <= stamp + 1
        /\ \A d \in Clients : /\ Learn(d, m_HeldMailMap[d])[w] <= Learn(d, B[d])[w]
                              /\ Learn(d, B[d])[w] <= W[w].stamp
  BY <1>2, WriteForward
<1>6. m_VarMap' = [w \in Vars |-> [W[w] EXCEPT !.subs[c] = "no"]] /\ stamp' = stamp + 1
  BY DEF OnDisconnect
<1>7. m_HeldMailMap' = [B EXCEPT ![c] = <<>>] BY <1>1
<1>8. seen' = [seen EXCEPT ![c] = [v \in Vars |-> 0]] /\ connected' = connected \ {c}
  BY DEF OnDisconnect
<1> HIDE DEF W, B
<1>9. \A w \in Vars : m_VarMap'[w].stamp = W[w].stamp
  <2> SUFFICES ASSUME NEW w \in Vars PROVE m_VarMap'[w].stamp = W[w].stamp
    OBVIOUS
  <2>1. W[w] \in Var /\ m_VarMap'[w] = [W[w] EXCEPT !.subs[c] = "no"] BY <1>3, <1>6
  <2>2. QED BY <2>1 DEF Var
<1>10. StampsGrow BY <1>5, <1>6, <1>9 DEF StampsGrow
<1>11. seen \in [Clients -> [Vars -> Nat]] BY DEF IInv, TypeOK
<1>12. ASSUME NEW d \in Clients, d # c PROVE Forward(d)
  <2>1. m_HeldMailMap'[d] = B[d] /\ seen'[d] = seen[d] BY <1>4, <1>7, <1>8, <1>11, <1>12
  <2>2. Learn(d, m_HeldMailMap[d])' = Learn(d, B[d]) BY <2>1 DEF Learn
  <2>3. Learn(d, B[d]) \in [Vars -> Nat] BY <1>4, <1>11, LearnType
  <2>4. QED BY <1>5, <1>9, <2>1, <2>2, <2>3 DEF Forward
<1>13. Forgotten(c) BY <1>4, <1>7, <1>8, <1>11 DEF Forgotten
<1>14. QED BY <1>10, <1>12, <1>13, OrderStep

(* A cleared DB.                                                           *)
LEMMA OnClearRequestedInOrder ==
  ASSUME IInv, IInv', Ordered, NEW c \in Clients, OnClearRequested(c)
  PROVE  InOrder
<1>1. /\ m_VarMap' = [v \in Vars |-> [m_VarMap[v] EXCEPT !.written = FALSE, !.who = Fault]]
      /\ m_HeldMailMap' = [d \in Clients |-> <<>>] /\ seen' = seen /\ stamp' = stamp
  BY DEF OnClearRequested
<1>2. ASSUME NEW v \in Vars
      PROVE  m_VarMap[v].stamp <= m_VarMap'[v].stamp /\ m_VarMap'[v].stamp <= stamp'
  <2>1. m_VarMap[v] \in Var /\ m_VarMap[v].stamp \in Nat /\ stamp \in Nat
    BY DEF IInv, TypeOK, Var
  <2> DEFINE r == [m_VarMap[v] EXCEPT !.written = FALSE, !.who = Fault]
  <2>2. m_VarMap'[v] = r BY <1>1
  <2>3. r.stamp = m_VarMap[v].stamp BY <2>1 DEF Var
  <2> HIDE DEF r
  <2>4. m_VarMap'[v].stamp = m_VarMap[v].stamp BY <2>2, <2>3
  <2>5. m_VarMap[v].stamp <= stamp BY DEF Ordered
  <2>6. stamp' = stamp BY <1>1
  <2>7. QED BY <2>1, <2>4, <2>5, <2>6
<1>3. \A d \in Clients : Emptied(d)
  <2> SUFFICES ASSUME NEW d \in Clients PROVE Emptied(d)
    OBVIOUS
  <2>1. m_HeldMailMap'[d] = <<>> BY <1>1
  <2>2. QED BY <1>1, <2>1 DEF Emptied
<1>4. StampsGrow BY <1>2 DEF StampsGrow
<1>5. QED BY <1>3, <1>4, OrderStep

(* Every step leaves the DB in order.                                      *)
LEMMA NextInOrder == IInv /\ IInv' /\ Ordered /\ [Next]_vars => InOrder
<1> SUFFICES ASSUME IInv, IInv', Ordered, [Next]_vars PROVE InOrder
  OBVIOUS
<1>1. ASSUME NEW c \in Clients, OnConnect(c) PROVE InOrder
  <2>1. PICK late \in SUBSET Clients : m_HeldMailMap' = Boxes(DB_EVENT, "S", DBName, late)
    BY <1>1 DEF OnConnect
  <2>2. m_VarMap' = Written(DB_EVENT, "S", DBName) /\ stamp' = stamp + 1 /\ UNCHANGED seen
    BY <1>1 DEF OnConnect
  <2>3. QED BY <2>1, <2>2, MOOSDBAssumption, SilentWriteInOrder
<1>2. ASSUME NEW c \in Clients, OnDisconnect(c) PROVE InOrder
  BY <1>2, OnDisconnectInOrder
<1>3. ASSUME NEW c \in Clients, Timing(c) PROVE InOrder
  <2>1. Deliver(m_HeldMailMap, {c}) /\ m_VarMap' = m_VarMap /\ stamp' = stamp
    BY <1>3 DEF Timing
  <2>2. QED BY <2>1, QuietInOrder
<1>4. ASSUME NEW c \in Clients, OnClearRequested(c) PROVE InOrder
  BY <1>4, OnClearRequestedInOrder
<1>5. ASSUME NEW c \in Clients, NEW v \in Vars \ {DB_EVENT}, NEW type \in Types,
             Notify(c, v, type)
      PROVE  InOrder
  <2>1. PICK late \in SUBSET Clients :
          Deliver(Boxes(v, type, c, late), {c} \cup (Async \cap connected))
    BY <1>5 DEF Notify
  <2>2. m_VarMap' = Written(v, type, c) /\ stamp' = stamp + 1 BY <1>5 DEF Notify
  <2>3. QED BY <2>1, <2>2, WriteInOrder
<1>6. ASSUME NEW c \in Clients, NEW v \in Vars, NEW period \in Requested,
             Register(c, v, period)
      PROVE  InOrder
  <2>1. \E box : Tells(c, {v}, box) /\ Deliver(box, {c}) BY <1>6, RegisterTells
  <2>2. /\ m_VarMap' = [m_VarMap EXCEPT ![v] = Registered(c, v, period)] /\ stamp' = stamp
        /\ m_VarMap \in [Vars -> Var]
    BY <1>6 DEF Register, IInv, TypeOK
  <2>3. \A w \in Vars : m_VarMap'[w] \in {m_VarMap[w], Registered(c, w, period)} BY <2>2
  <2>4. {v} \in SUBSET Vars OBVIOUS
  <2>5. QED BY <2>1, <2>2, <2>3, <2>4, RegistersInOrder
<1>7. ASSUME NEW c \in Clients, NEW v \in Vars, UnRegister(c, v) PROVE InOrder
  <2>1. Unsubscribe(c, {v}) /\ Deliver(m_HeldMailMap, {c}) /\ stamp' = stamp
    BY <1>7 DEF UnRegister
  <2>2. QED BY <2>1, UnsubscribeInOrder
<1>8. ASSUME NEW c \in Clients, NEW F \in Filters, WildcardRegister(c, F) PROVE InOrder
  <2>1. \E box : Tells(c, Present(F), box) /\ Deliver(box, {c}) BY <1>8, WildcardTells
  <2>2. /\ m_VarMap' = [v \in Vars |-> IF v \in Present(F) THEN Registered(c, v, F.period)
                                                           ELSE m_VarMap[v]]
        /\ stamp' = stamp
    BY <1>8 DEF WildcardRegister
  <2>3. \A v \in Vars : m_VarMap'[v] \in {m_VarMap[v], Registered(c, v, F.period)} BY <2>2
  <2>4. Present(F) \in SUBSET Vars BY DEF Present
  <2>5. QED BY <2>1, <2>2, <2>3, <2>4, RegistersInOrder
<1>9. ASSUME NEW c \in Clients, NEW F \in Filters, WildcardUnRegister(c, F) PROVE InOrder
  <2>1. Unsubscribe(c, Present(F)) /\ Deliver(m_HeldMailMap, {c}) /\ stamp' = stamp
    BY <1>9 DEF WildcardUnRegister
  <2>2. QED BY <2>1, UnsubscribeInOrder
<1>10. ASSUME NEW v \in Vars \ {DB_EVENT}, FromMQ(v) PROVE InOrder
  <2>1. PICK late \in SUBSET Clients : m_HeldMailMap' = Boxes(v, "S", Fault, late)
    BY <1>10 DEF FromMQ
  <2>2. m_VarMap' = Written(v, "S", Fault) /\ stamp' = stamp + 1 /\ UNCHANGED seen
    BY <1>10 DEF FromMQ
  <2>3. QED BY <2>1, <2>2, SilentWriteInOrder
<1>11. ASSUME NEW x \in Vars \ {DB_EVENT}, Expire(x) PROVE InOrder
  <2>1. /\ m_VarMap' = [m_VarMap EXCEPT ![x].override = FALSE]
        /\ UNCHANGED <<m_HeldMailMap, seen, stamp>>
    BY <1>11 DEF Expire
  <2>2. \A v \in Vars : m_VarMap'[v].stamp = m_VarMap[v].stamp
    BY <2>1 DEF IInv, TypeOK, Var
  <2>3. QED BY <2>1, <2>2, MarkInOrder
<1>12. CASE SetOverride
  <2>1. /\ m_VarMap' = [m_VarMap EXCEPT ![fault].exists = TRUE, ![fault].override = TRUE]
        /\ UNCHANGED <<m_HeldMailMap, seen, stamp>>
    BY <1>12 DEF SetOverride
  <2>2. \A v \in Vars : m_VarMap'[v].stamp = m_VarMap[v].stamp
    BY <2>1 DEF IInv, TypeOK, Var
  <2>3. QED BY <2>1, <2>2, MarkInOrder
<1>13. CASE UNCHANGED vars
  BY <1>13, MarkInOrder DEF vars
<1>14. QED
  BY <1>1, <1>2, <1>3, <1>4, <1>5, <1>6, <1>7, <1>8, <1>9, <1>10, <1>11, <1>12, <1>13
     DEF Next

(* Whatever a client has been told of a variable, what it is told later is *)
(* as new or newer: by pushed mail, with the answers to its packets, or as *)
(* the greeting of a new registration, until it is disconnected.           *)
THEOREM MailInOrder == Spec => NoStaleMail
<1>1. Init => Ordered BY InitOrdered
<1>2. IInv /\ IInv' /\ Ordered /\ [Next]_vars => Ordered'
  BY NextInOrder DEF InOrder
<1>3. IInv /\ IInv' /\ Ordered /\ [Next]_vars =>
        [\A c \in connected \cap connected', v \in Vars : seen'[c][v] >= seen[c][v]]_vars
  BY NextInOrder DEF InOrder
<1>4. QED BY <1>1, <1>2, <1>3, Invariant, PTL DEF Spec, NoStaleMail
==============================================================================
