------------------------ MODULE MCActivityReconcile ------------------------
(* ActivityReconcile, and the edits beside it, on small instances for TLC.  *)
EXTENDS ActivityReconcile

CONSTANT c1

OneClient == {c1}

\* A goal with an activity and its action, and a candidate for the goal.
SmallTree       == <<3, 2, 1, 2>>
SmallTreeLinks  == {<<2, 1>>, <<4, 1>>, <<3, 2>>}
CandidateOfTree == <<4>>

\* An activity and a candidate, with one action each.
TwoActivities      == <<2, 1, 2, 1>>
TwoActivitiesLinks == {<<2, 1>>, <<4, 3>>}
SecondActivity     == <<3>>
=============================================================================
