------------------------------ MODULE Odometry ------------------------------
(***************************************************************************)
(* sOdometry: the distance the vehicle has travelled, from the NAV_X and   *)
(* NAV_Y mail.  OnNewMail shifts each coordinate's current value into the  *)
(* previous one; Iterate adds the distance between the two, at its own     *)
(* rate.  The navigation publishes both coordinates at every move, and the *)
(* mail of a move may be split over two fetches or mixed with others.      *)
(***************************************************************************)
EXTENDS Integers, Sequences

CONSTANTS
  Xs, Ys,      \* the coordinates; all distances between them are integers
  MaxMoves,    \* bound: moves of the vehicle
  MaxIterates  \* bound: calls of Iterate

VARIABLES
  m_current_x, m_previous_x, m_current_y, m_previous_y,
  m_first_reading, m_total_distance,
  m_iterations,
  mail,                 \* published and not fetched yet
  moves,                \* how often the vehicle has moved
  x, y, travelled,      \* history: the last position fetched, the way there
  paired, mixed         \* history: how mail and Iterates fell together

odometry == <<m_current_x, m_previous_x, m_current_y, m_previous_y>>
vars == <<odometry, m_first_reading, m_total_distance, m_iterations, mail, moves, x, y,
          travelled, paired, mixed>>

Messages == [key : {"NAV_X"}, value : Xs] \cup [key : {"NAV_Y"}, value : Ys]

TypeOK ==
  /\ m_current_x \in Nat /\ m_previous_x \in Nat
  /\ m_current_y \in Nat /\ m_previous_y \in Nat
  /\ m_first_reading \in BOOLEAN
  /\ m_total_distance \in Nat /\ travelled \in Nat
  /\ m_iterations \in 0 .. MaxIterates
  /\ mail \in Seq(Messages) /\ moves \in 0 .. MaxMoves
  /\ x \in Nat /\ y \in Nat
  /\ paired \in BOOLEAN /\ mixed \in BOOLEAN

Init ==
  /\ m_current_x = 0 /\ m_previous_x = 0 /\ m_current_y = 0 /\ m_previous_y = 0
  /\ m_first_reading = TRUE /\ m_total_distance = 0 /\ m_iterations = 0
  /\ mail = <<>> /\ moves = 0
  /\ x = 0 /\ y = 0 /\ travelled = 0 /\ paired = TRUE /\ mixed = FALSE

(* sqrt(pow(a - c, 2) + pow(b - d, 2)).                                    *)
Distance(a, b, c, d) ==
  CHOOSE r \in 0 .. (a + b + c + d) : r * r = (a - c) * (a - c) + (b - d) * (b - d)

(* The navigation publishes the position the vehicle has reached.          *)
Move ==
  /\ moves < MaxMoves
  /\ \E a \in Xs, b \in Ys :
       mail' = mail \o <<[key |-> "NAV_X", value |-> a], [key |-> "NAV_Y", value |-> b]>>
  /\ moves' = moves + 1
  /\ UNCHANGED <<odometry, m_first_reading, m_total_distance, m_iterations, x, y, travelled,
                 paired, mixed>>

(* Mutant: the new value is stored before the old one is saved.            *)
Shifted_Late(old, value) == <<value, value>>

(* The current and the previous value of a coordinate after its mail.      *)
Shifted(old, value) == <<value, old[1]>>

(* OnNewMail for one message.  The way grows when the y of a position      *)
(* comes, which is after its x.                                            *)
Handle(s, msg) ==
  IF msg.key = "NAV_X" THEN [s EXCEPT !.xs = Shifted(@, msg.value)]
  ELSE [xs |-> s.xs, ys |-> Shifted(s.ys, msg.value), at |-> <<s.xs[1], msg.value>>,
        way |-> s.way + Distance(s.xs[1], msg.value, s.at[1], s.at[2])]

(* OnNewMail for the first n messages.                                     *)
OnNewMail(n) ==
  LET s[i \in 0 .. n] ==
        IF i = 0 THEN [xs |-> <<m_current_x, m_previous_x>>, ys |-> <<m_current_y, m_previous_y>>,
                       at |-> <<x, y>>, way |-> travelled]
        ELSE Handle(s[i - 1], mail[i])
  IN  s[n]

(* The first Iterate takes the distance from the origin.                   *)
Added(xs, ys) ==
  IF m_first_reading THEN Distance(xs[1], ys[1], 0, 0)
  ELSE Distance(xs[1], ys[1], xs[2], ys[2])

(* DoRunWork: the first n messages are handled by OnNewMail, then Iterate  *)
(* adds to the distance and publishes it.                                  *)
Iterate(n) ==
  /\ m_iterations < MaxIterates
  /\ m_iterations' = m_iterations + 1
  /\ mail' = SubSeq(mail, n + 1, Len(mail))
  /\ \E s \in {OnNewMail(n)} :
       /\ m_current_x' = s.xs[1] /\ m_previous_x' = s.xs[2]
       /\ m_current_y' = s.ys[1] /\ m_previous_y' = s.ys[2]
       /\ m_total_distance' = m_total_distance + Added(s.xs, s.ys)
       /\ x' = s.at[1] /\ y' = s.at[2] /\ travelled' = s.way
  /\ m_first_reading' = FALSE
  /\ paired' = (paired /\ n = 2 /\ mail[1].key = "NAV_X")
  /\ mixed' = (mixed \/ n > 2 \/ (n = 2 /\ mail[1].key = "NAV_Y"))
  /\ UNCHANGED moves

Next == Move \/ \E n \in 0 .. Len(mail) : Iterate(n)

Spec == Init /\ [][Next]_vars

------------------------------------------------------------------------------
ExactWhenPaired == paired => m_total_distance = travelled

NoneMissed == ~mixed => m_total_distance >= travelled

(* With both coordinates of one position at every Iterate, the distance is *)
(* that of the way from the origin; and however late or split the mail     *)
(* comes, no part of the way is missed, unless one Iterate gets mail of    *)
(* more than one position.                                                 *)
WayAccountedFor == ExactWhenPaired /\ NoneMissed

(* "Distance traveled", as the report of the application calls its total:  *)
(* it is not more than the way along the positions received.               *)
DistanceTravelled == m_total_distance <= travelled + Distance(m_current_x, m_current_y, x, y)

==============================================================================
