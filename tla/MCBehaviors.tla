----------------------------- MODULE MCBehaviors -----------------------------
EXTENDS Behaviors

Bhv(prefix, templating, perpetual, level) ==
  [prefix |-> prefix, templating |-> templating, perpetual |-> perpetual, level |-> level]

To(name, speed) == [name |-> name, speed |-> speed, ok |-> TRUE, toggle |-> FALSE]
Faulty(name, speed) == [To(name, speed) EXCEPT !.ok = FALSE]
Toggle(name, speed) == [To(name, speed) EXCEPT !.toggle = TRUE]

Avoid == <<Bhv("avdcollision_", "spawn", FALSE, 0)>>
SurveyAndFilter == <<Bhv("survey", "", TRUE, 0), Bhv("filter", "", TRUE, 1)>>
Survey == <<Bhv("survey", "", TRUE, 0)>>
TwoSurveys == <<Bhv("survey", "", TRUE, 0), Bhv("return", "", TRUE, 0)>>

(* A contact by the name it is reported by and by that of its behavior.    *)
Contacts ==
  {To(<<"x">>, 1), To(<<"avdcollision_", "x">>, 1), Faulty(<<"x">>, 1), To(<<>>, 1)}
ToAll == {To(<<>>, 1), To(<<>>, 2), Toggle(<<>>, 1)}
WithFaulty == {To(<<>>, 1), Faulty(<<>>, 2)}
WithNamed == {To(<<>>, 1), To(<<"survey">>, 2)}

On(does) == [does |-> does, expired |-> FALSE]
Expired(does) == [does |-> does, expired |-> TRUE]

NoErrors ==
  {On("unmet"), On("starved"), On("ipf"), On("none"), On("complete"),
   Expired("starved"), Expired("ipf"), Expired("none")}
WithErrors == NoErrors \cup {On("error")}
==============================================================================
