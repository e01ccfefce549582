--------------------------- MODULE MCFinalDecision ---------------------------
(* An instance of FinalDecision for TLC: one run explores several scenarios.  *)
EXTENDS FinalDecision

CONSTANTS l1, l2

Scenario(judged, owes, lanes, answers) ==
  [judged |-> judged, owes |-> owes, lanes |-> lanes, answers |-> answers,
   pauses |-> 0, steers |-> 0, questions |-> 0, faults |-> 0, redrives |-> 0, crashes |-> 0]

MCScenarios ==
  { \* Two lanes judge a capability that owes a document, or whose work asks.
    Scenario(TRUE, TRUE, {l1, l2}, {"prose", "timed_out"}),
    Scenario(TRUE, FALSE, {l1, l2}, {"question"}),
    \* The judge's process dies, and the owner pauses, in every place.
    [Scenario(TRUE, FALSE, {l1}, {"question", "document"}) EXCEPT !.pauses = 1, !.crashes = 1],
    [Scenario(TRUE, TRUE, {l1}, {"prose", "timed_out"}) EXCEPT !.pauses = 1, !.crashes = 1],
    \* A judged result whose rows cannot be read, a question, a pause.
    [Scenario(TRUE, FALSE, {l1}, {"question", "document"})
       EXCEPT !.pauses = 1, !.faults = 1, !.redrives = 1],
    \* A planner asks, over a pause.
    [Scenario(TRUE, FALSE, {l1}, {"document"}) EXCEPT !.pauses = 1, !.questions = 1],
    \* The owner steers, while a planner plans or asks.
    [Scenario(TRUE, FALSE, {l1}, {"document"}) EXCEPT !.steers = 1, !.questions = 1],
    \* No judge: rows that cannot be read, a pause, crashes.
    [Scenario(FALSE, FALSE, {l1}, {"partial"}) EXCEPT !.faults = 2, !.redrives = 1],
    [Scenario(FALSE, FALSE, {l1}, {"document"})
       EXCEPT !.pauses = 1, !.faults = 1, !.redrives = 1],
    [Scenario(FALSE, FALSE, {l1, l2}, {"failed", "timed_out"}) EXCEPT !.crashes = 2] }
=============================================================================
