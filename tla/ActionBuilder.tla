---------------------------- MODULE ActionBuilder ----------------------------
(* Stages 1 and 2: observation_to_operation.py turns an observation into        *)
(* operations, operations_to_actions.py a batch of buffered operations into      *)
(* actions and their temporal relations, with any answers of the model.          *)
(*                                                                              *)
(* An operation is its place in "operations", an action its place in "actions". *)
(* Of an action's content the model keeps its operations and its time span.     *)
(* Observations come between two callbacks of the buffer; adds during one are    *)
(* in OperationBuffer.                                                           *)
EXTENDS Naturals, FiniteSets, Sequences, SequencesExt

CONSTANTS
    LastTime,            \* bound: capture times are 0..LastTime
    MaxOperations, MaxActions,  \* bounds
    MaxObserved,         \* bound: operations of one observation
    MaxSegments,         \* bound: segments of one answer
    RecentLimit          \* recent_actions_limit

ASSUME BuilderAssumption ==
    {LastTime, MaxOperations, MaxActions, MaxObserved, MaxSegments, RecentLimit} \subseteq Nat

VARIABLES
    operations, \* the capture time of each stored operation
    pending,    \* the buffer: operations in the order of their adds
    attempt,    \* calls of the model for the batch that have failed
    actions,    \* stored actions: their operations and time span
    follows, together, overlaps, \* FOLLOWS, CO_OCCURS and OVERLAPS relations
    built       \* history: how many successful builds had the operation in their batch

avars == <<operations, pending, attempt, actions, follows, together, overlaps, built>>

Times == 0..LastTime
MAX_ATTEMPTS == 3
Action == [ops : SUBSET (1..MaxOperations), start : Times, end : Times]
Pairs == (1..MaxActions) \X (1..MaxActions)

BuilderTypeOK ==
    /\ operations \in Seq(Times) /\ Len(operations) <= MaxOperations
    /\ \A i \in DOMAIN pending : pending[i] \in DOMAIN operations
    /\ attempt \in 0..MAX_ATTEMPTS - 1
    /\ actions \in Seq(Action) /\ Len(actions) <= MaxActions
    /\ \A a \in DOMAIN actions : actions[a].ops # {} /\ actions[a].start <= actions[a].end
    /\ follows \in SUBSET Pairs /\ together \in SUBSET Pairs /\ overlaps \in SUBSET Pairs
    /\ \A l \in follows \cup together \cup overlaps : {l[1], l[2]} \subseteq DOMAIN actions
    /\ DOMAIN built = DOMAIN operations

BuilderInit ==
    /\ operations = <<>> /\ pending = <<>> /\ attempt = 0
    /\ actions = <<>> /\ follows = {} /\ together = {} /\ overlaps = {}
    /\ built = <<>>

-----------------------------------------------------------------------------
(* process_observation *)

\* All operations of an observation carry its capture time, which is that of the
\* screenshot and may be before those of earlier observations.  An answer that
\* cannot be parsed makes one operation of the text; without a time it is now.
ProcessObservation(n, time) ==
    /\ attempt = 0
    /\ Len(operations) + n <= MaxOperations
    /\ operations' = operations \o [i \in 1..n |-> time]
    /\ pending' = pending \o [i \in 1..n |-> Len(operations) + i]
    /\ built' = built \o [i \in 1..n |-> 0]
    /\ UNCHANGED <<attempt, actions, follows, together, overlaps>>

-----------------------------------------------------------------------------
(* build_actions *)

\* An answer is a list of segments, in any order: overlapping, with gaps or out of
\* range as they come.  A segment given twice overlaps like any other.
Segments == [from : 1..Len(pending), to : 1..Len(pending) + 1]
Answers == {segs \in SUBSET Segments : Cardinality(segs) <= MaxSegments}
Of(segs, i) == {s \in segs : s.from <= i /\ i <= s.to}

\* Mutant: the segments have to reach every operation, but may overlap.
CoversAny(segs, n) ==
    /\ segs # {} /\ \A s \in segs : s.from <= s.to /\ s.to <= n
    /\ \A i \in 1..n : Of(segs, i) # {}

\* The checks of _parse_action_items_from_response.
Covers(segs, n) ==
    /\ segs # {} /\ \A s \in segs : s.from <= s.to /\ s.to <= n
    /\ \A i \in 1..n : \E s \in segs : Of(segs, i) = {s}

Sorted(segs) ==
    {q \in [1..Cardinality(segs) -> segs] :
        ToSet(q) = segs /\ \A j, k \in DOMAIN q : j < k => q[j].from < q[k].from}

\* The operations of each action to be, in the one way there is: the sorted segments,
\* or all in one.
Groups(segs, batch) ==
    IF Covers(segs, Len(batch))
    THEN {[k \in DOMAIN q |-> {batch[i] : i \in q[k].from..q[k].to}] : q \in Sorted(segs)}
    ELSE {<<ToSet(batch)>>}

\* _create_action: the times are those of the action's operations.
NewAction(ops) ==
    LET times == {operations[o] : o \in ops}
    IN  [ops |-> ops, start |-> Min(times), end |-> Max(times)]

\* Mutant: every action of the batch is chained to the latest existing one.
PredecessorsAndLatest(a, newest) ==
    IF a = Len(actions) + 1 THEN newest ELSE {a - 1} \cup newest

\* The previous action of the batch, and for the first one the latest there was.
Predecessors(a, newest) == IF a = Len(actions) + 1 THEN newest ELSE {a - 1}

\* A new action is chained to one that started before it.
Chains(acts, new, newest) ==
    {p \in (DOMAIN acts) \X new :
        p[1] \in Predecessors(p[2], newest) /\ acts[p[1]].start < acts[p[2]].start}

\* The latest actions by start, up to a limit; equal starts come in any order.
Recent(acts, limit) ==
    {r \in SUBSET (DOMAIN acts) :
        /\ Cardinality(r) = Min({limit, Len(acts)})
        /\ \A a \in r, b \in (DOMAIN acts) \ r : acts[a].start >= acts[b].start}

\* _create_overlaps_relations
OverlapsWith(acts, new, recent) ==
    {<<Min({p[1], p[2]}), Max({p[1], p[2]})>> : p \in
        {p \in new \X (recent \ new) :
            acts[p[1]].start < acts[p[2]].end /\ acts[p[2]].start < acts[p[1]].end}}

\* The model answers, and the session commits.  The buffer drops the batch, unless
\* the callback is cut short by a cancellation after the commit.
BuildActions(groups, cut) ==
    LET new  == Len(actions) + 1..Len(actions) + Len(groups)
        acts == actions \o [k \in DOMAIN groups |-> NewAction(groups[k])]
    IN /\ pending # <<>>
       /\ Len(acts) <= MaxActions
       /\ attempt' = 0
       /\ actions' = acts
       /\ \E newest \in Recent(actions, 1) : follows' = follows \cup Chains(acts, new, newest)
       /\ \E recent \in Recent(acts, RecentLimit) :
             overlaps' = overlaps \cup OverlapsWith(acts, new, recent)
       /\ together' = together \cup {p \in new \X new : p[1] < p[2]}
       /\ built' = [o \in DOMAIN built |-> built[o] + Cardinality({i \in DOMAIN pending : pending[i] = o})]
       /\ pending' = IF cut THEN pending ELSE <<>>
       /\ UNCHANGED operations

\* Mutant: the attempts are not counted again from the start.
AttemptCountsOn ==
    /\ pending # <<>>
    /\ attempt' = attempt + 1
    /\ UNCHANGED <<operations, pending, actions, follows, together, overlaps, built>>

\* The model raises: two more attempts, and then the callback fails and the
\* operations stay in the buffer.
AttemptFails ==
    /\ pending # <<>>
    /\ attempt' = (attempt + 1) % MAX_ATTEMPTS
    /\ UNCHANGED <<operations, pending, actions, follows, together, overlaps, built>>

BuilderNext ==
    \/ \E n \in 0..MaxObserved, t \in Times : ProcessObservation(n, t)
    \/ \E groups \in UNION {Groups(segs, pending) : segs \in Answers}, cut \in BOOLEAN : BuildActions(groups, cut)
    \/ AttemptFails

BuilderSpec == BuilderInit /\ [][BuilderNext]_avars

-----------------------------------------------------------------------------
(* Properties *)

\* Whatever the model answers, each successful build puts every operation of its
\* batch into exactly one action, so an operation is in as many actions as there
\* were builds of it, and none that left the buffer is in no action
\* (_parse_action_items_from_response, build_actions).
EveryOperationOncePerBuild ==
    \A o \in DOMAIN operations :
        /\ Cardinality({a \in DOMAIN actions : o \in actions[a].ops}) = built[o]
        /\ o \in ToSet(pending) \/ built[o] > 0

\* The temporal relations fit each other, although captures come in any order:
\* FOLLOWS leads back in time along one line, an action having one predecessor at
\* most, which started before it; actions of one batch occur together, actions of
\* different batches overlap, no pair does both, and a pair is related once
\* (build_actions, _create_action, _create_co_occurs_relations,
\* _create_overlaps_relations).
RelationsFit ==
    /\ \A k, l \in follows :
          /\ actions[k[1]].start < actions[k[2]].start
          /\ k[2] = l[2] => k = l
    /\ together \cap overlaps = {}
    /\ \A l \in together \cup overlaps : l[1] < l[2]
=============================================================================
