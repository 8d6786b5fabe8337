---------------------------- MODULE MCApplications ----------------------------
(* A small instance of Applications for TLC.                               *)
EXTENDS Applications

MCModes == {0, 1, 2}
MCPeriods == {0, 2, 3, 9}
MCTooFast == {1, 2, 3}
MCMaxTickPeriods == {0, 3}

(* Windows that are short, adjacent, overlapping, reversed, with a rate of *)
(* 0, and some that are long enough for NoChangeMissed.                    *)
MCLines == {
  [start |-> 1, finish |-> 3, rate |-> 4],
  [start |-> 3, finish |-> 6, rate |-> 2],
  [start |-> 5, finish |-> 5, rate |-> 2],
  [start |-> 7, finish |-> 8, rate |-> 0],
  [start |-> 9, finish |-> 4, rate |-> 2],
  [start |-> 8, finish |-> 17, rate |-> 4],
  [start |-> 18, finish |-> 27, rate |-> 2]}

(* A change to a rate above the maximum (RateFollowsSchedule refuted).     *)
MCFastLines == MCLines \cup {[start |-> 3, finish |-> 6, rate |-> 1]}

(* The corners of a 3 by 4 field: its sides and diagonals are whole.       *)
MCXs == {0, 3}
MCYs == {0, 4}

==============================================================================
