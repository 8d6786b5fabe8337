------------------------------ MODULE MCHelmIvP ------------------------------
EXTENDS HelmIvP

Primary == {"pHelmIvP"}
Either == {"pHelmIvP", "pHelmIvP_Standby"}
Overrides == {<<"MOOS_MANUAL_OVERRIDE", "TRUE">>, <<"MOOS_MANUAL_OVERRIDE", "FALSE">>}
AnyDecision == {"clear", "BehaviorError", "NothingToDo", "MissingDecVars"}
SomeOrNone == {"clear", "NothingToDo"}
WithRestarts == Overrides \cup {<<"RESTART_HELM", "TRUE">>}
==============================================================================
