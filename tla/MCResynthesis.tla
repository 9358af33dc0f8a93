---------------------------- MODULE MCResynthesis ----------------------------
(* Resynthesis on small instances for TLC: goals 1 and 2, activities 3 and 4,   *)
(* an action 5 of both, and ids left for what the jobs create.                  *)
EXTENDS Resynthesis, TLC

Plain(tier) == NewRow(tier)
TwoGoals ==
    1 :> Plain("goal") @@ 2 :> [Plain("goal") EXCEPT !.missed = 2] @@ 3 :> Plain("activity")
        @@ 4 :> Plain("activity") @@ 5 :> Plain("action")
TwoGoalLinks == {<<3, 1>>, <<4, 2>>, <<5, 3>>, <<5, 4>>}

NoEdits == [texts |-> {}, locks |-> {}, merges |-> <<>>, detached |-> {},
            dropped |-> {}, reparents |-> <<>>, rejected |-> {}]
EditorBatches == {
    [NoEdits EXCEPT !.texts = {1}],
    [NoEdits EXCEPT !.locks = {2, 4}],
    [NoEdits EXCEPT !.merges = <<<<1, 2>>>>],
    [NoEdits EXCEPT !.merges = <<<<1, 2>>, <<3, 4>>>>, !.rejected = {2}],
    [NoEdits EXCEPT !.merges = <<<<4, 3>>>>, !.detached = {<<5, 4>>}],
    [NoEdits EXCEPT !.detached = {<<5, 3>>}, !.reparents = <<<<4, 1>>>>],
    [NoEdits EXCEPT !.dropped = {5}, !.rejected = {1}] }

OneOrTwoCandidates == {<<{3}, {5}>>, <<{5}, {5}>>}

It(g, acts) == [matches |-> g, acts |-> acts]
Items == {It(NoGoal, {3}), It(1, {3, 4}), It(1, {4}), It(2, {3}), It(2, {}), It(NoGoal, {6})}
ModelAnswers ==
    {<<i>> : i \in Items}
        \cup {<<It(1, {3}), i>> : i \in Items} \cup {<<i, It(2, {4})>> : i \in Items}
BareItems == {It(NoGoal, {}), It(1, {}), It(2, {})}
RefinedOnes == {<<>>, <<It(1, {3}), It(2, {4})>>}
    \cup {<<i>> : i \in BareItems} \cup {<<It(2, {}), i>> : i \in BareItems}
=============================================================================
