------------------------------- MODULE MCMOOSDB -------------------------------
(* Two clients, a variable of theirs and the DB's own.  One wildcard takes *)
(* everything, the other the variables of one application, at a low rate.  *)
EXTENDS MOOSDB

MCFilters == {[app |-> Anyone, vars |-> Vars, period |-> "every"],
              [app |-> CHOOSE c \in Async : TRUE, vars |-> Vars \ {DB_EVENT},
               period |-> "limited"]}
==============================================================================
