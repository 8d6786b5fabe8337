------------------------------ MODULE LossyFifo ------------------------------
(***************************************************************************)
(* What one direction of a MOOS client's connection promises: messages     *)
(* arrive in the order in which they were submitted, none arrives twice,   *)
(* and any of them may be lost, whenever a connection ends or a buffer     *)
(* overflows.  Messages are numbered in the order of submission.           *)
(***************************************************************************)
EXTENDS Integers

VARIABLES
  submitted,  \* how many messages have been submitted
  pending,    \* those that may still arrive
  arrived     \* the last one that has arrived; 0: none

vars == <<submitted, pending, arrived>>

Init == submitted = 0 /\ pending = {} /\ arrived = 0

Submit ==
  /\ submitted' = submitted + 1
  /\ pending' = pending \cup {submitted + 1}
  /\ UNCHANGED arrived

Lose ==
  /\ pending' \in SUBSET pending
  /\ UNCHANGED <<submitted, arrived>>

(* A fetch takes several messages at once: the last of them is m.          *)
Arrive ==
  \E m \in pending :
    /\ arrived' = m
    /\ pending' = {k \in pending : k > m}
    /\ UNCHANGED submitted

Next == Submit \/ Lose \/ Arrive

Spec == Init /\ [][Next]_vars

==============================================================================
