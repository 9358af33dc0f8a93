----------------------------- MODULE Resynthesis -----------------------------
(* What re-thinks the hierarchy: the edits a compile applies to its copy        *)
(* (hierarchy_compile.py), the proposal of activities from actions              *)
(* (action_to_activities.py) and the synthesis of goals (goal_synthesis.py),    *)
(* with any answers of the model, on one database.                              *)
(*                                                                              *)
(* A text is 0 or 1, and whoever rewrites it brings the other one.  Of the      *)
(* metadata the model keeps the user's marks, the detached parents and the      *)
(* count of missed passes; scores, screenshots and notes for the prompts, and   *)
(* the behavioural links of actions, are left out.                              *)
EXTENDS Naturals, FiniteSets, Sequences, SequencesExt

CONSTANTS
    MaxId,          \* bound: row ids
    FirstRows, FirstLinks,  \* the hierarchy at first: id -> row, <<child, parent>>
    Batches,        \* sets of edits an editor posts
    Candidates,     \* answers of the proposal: sequences of sets of action ids
    FirstAnswers,   \* first answers of the synthesis: sequences of items
    RefinedAnswers, \* answers to self-refine; <<>> is one that cannot be parsed
    MaxBatches, MaxProposals, MaxPasses  \* bounds

VARIABLES
    rows,    \* id -> row, for the entities that exist
    links,   \* structural part_of links <<child, parent>>
    rivals,  \* goal-goal relations <<goal, goal>>
    pass,    \* the first answer of a synthesis that is being refined, or <<>>
    left,    \* how many more batches, proposals and passes there may be
    owed,    \* history: the activities the last pass was told and its self-refine forgot
    unseen   \* history: goal -> completed passes in a row that left it out

svars == <<rows, links, rivals, pass, left, owed, unseen>>

Ids == 1..MaxId
NoGoal == 0
ORPHAN_MISS_THRESHOLD == 3

UserMarks == {"edited", "locked", "removed", "reassigned"}
EntityRow == [tier : {"action", "activity", "goal"}, text : 0..1, marks : SUBSET UserMarks,
              apart : SUBSET Ids, missed : 0..ORPHAN_MISS_THRESHOLD - 1]
Item == [matches : Ids \cup {NoGoal}, acts : SUBSET Ids]

\* HierarchyEdits.from_payload: what of a posted batch is taken.  Ids may be of
\* entities that are gone; a pair names two.
Twos == {p \in Ids \X Ids : p[1] # p[2]}
IsEdits(b) ==
    /\ {b.texts, b.locks, b.dropped, b.rejected} \subseteq SUBSET Ids
    /\ b.detached \subseteq Ids \X Ids
    /\ {b.merges, b.reparents} \subseteq Seq(Twos)

\* _propose_candidates: the ids a candidate names are numbers, and no more is asked.
IsProposal(cands) == cands \in Seq(SUBSET Ids)

ASSUME BatchAssumption == \A b \in Batches : IsEdits(b)
ASSUME ProposalAssumption == \A c \in Candidates : IsProposal(c)
ASSUME AnswerAssumption == FirstAnswers \cup RefinedAnswers \subseteq Seq(Item)
ASSUME FirstAssumption ==
    /\ MaxId \in Nat /\ DOMAIN FirstRows \subseteq Ids
    /\ FirstRows \in [DOMAIN FirstRows -> EntityRow]
    /\ FirstLinks \subseteq (DOMAIN FirstRows) \X (DOMAIN FirstRows)

Tier(k) == {i \in DOMAIN rows : rows[i].tier = k}

SynthesisTypeOK ==
    /\ DOMAIN rows \subseteq Ids /\ \A i \in DOMAIN rows : rows[i] \in EntityRow
    /\ links \subseteq (DOMAIN rows) \X (DOMAIN rows)
    /\ rivals \subseteq Tier("goal") \X Tier("goal")
    /\ \A l \in rivals : l[1] # l[2]
    /\ pass \in FirstAnswers \cup {<<>>}
    /\ owed \subseteq Ids
    /\ unseen \in [Ids -> 0..ORPHAN_MISS_THRESHOLD]

SynthesisInit ==
    /\ rows = FirstRows /\ links = FirstLinks /\ rivals = {}
    /\ pass = <<>>
    /\ left = [batches |-> MaxBatches, proposals |-> MaxProposals, passes |-> MaxPasses]
    /\ owed = {}
    /\ unseen = [i \in Ids |-> IF i \in DOMAIN rows THEN rows[i].missed ELSE 0]

\* Ids are given out in order, after the greatest there is: here for new rows at the
\* places ps of an answer.
NextId == 1 + Max({0} \cup DOMAIN rows)
NewId(ps, i) == NextId + Cardinality({j \in ps : j < i})
NewRow(tier) == [tier |-> tier, text |-> 0, marks |-> {}, apart |-> {}, missed |-> 0]
WithNew(ids, tier) ==
    [i \in DOMAIN rows \cup ids |-> IF i \in DOMAIN rows THEN rows[i] ELSE NewRow(tier)]

-----------------------------------------------------------------------------
(* _apply_edits *)

\* A hierarchy being edited in a session.
Written(r, l) == [rows |-> r, links |-> l]

Marked(h, ids, marks) ==
    Written([i \in DOMAIN h.rows |->
                IF i \in ids THEN [h.rows[i] EXCEPT !.marks = @ \cup marks] ELSE h.rows[i]],
            h.links)

Relabelled(h, ids) ==
    Written([i \in DOMAIN h.rows |->
                IF i \in ids THEN [h.rows[i] EXCEPT !.text = 1 - @, !.marks = @ \cup {"edited"}]
                ELSE h.rows[i]],
            h.links)

Alike(h, p) == {p[1], p[2]} \subseteq DOMAIN h.rows /\ h.rows[p[1]].tier = h.rows[p[2]].tier
Merging(h, pairs) == {pairs[k] : k \in {k \in DOMAIN pairs : Alike(h, pairs[k])}}
MergeMarks(h, done) ==
    Marked(Marked(h, {p[2] : p \in done}, {"removed", "edited"}), {p[1] : p \in done}, {"edited"})

\* Who has the children of each entity after the merges in their order: each hands
\* those of the absorbed entity to the survivor, if the two are alike.
Heir(h, pairs) ==
    LET heir[n \in 0..Len(pairs)] ==
            IF n = 0 THEN [p \in Ids |-> p]
            ELSE [p \in Ids |->
                     IF Alike(h, pairs[n]) /\ heir[n - 1][p] = pairs[n][2] THEN pairs[n][1]
                     ELSE heir[n - 1][p]]
    IN  heir[Len(pairs)]

\* Mutant: the absorbed entity's links are deleted and not created anew.
MergedChildless(h, pairs) ==
    LET done == Merging(h, pairs)
    IN  MergeMarks(Written(h.rows, {l \in h.links : \A p \in done : p[2] # l[2]}), done)

Merged(h, pairs) ==
    MergeMarks(Written(h.rows, {<<l[1], Heir(h, pairs)[l[2]]>> : l \in h.links}), Merging(h, pairs))

\* removed_action_relations: one parent link, and a note of the pair.
Detached(h, pairs) ==
    Written([i \in DOMAIN h.rows |->
                [h.rows[i] EXCEPT !.apart = @ \cup {p[2] : p \in {p \in pairs : p[1] = i}}]],
            h.links \ pairs)

\* removed_action_ids: every parent link.
DroppedActions(h, ids) ==
    Marked(Written(h.rows, {l \in h.links : l[1] \notin ids}), ids, {"removed", "edited"})

\* The last of a child's new parents that exist is its only one.
Reparented(h, pairs) ==
    LET found == {k \in DOMAIN pairs : {pairs[k][1], pairs[k][2]} \subseteq DOMAIN h.rows}
        last  == {pairs[k] : k \in {k \in found : \A j \in found : pairs[j][1] = pairs[k][1] => j <= k}}
        moved == {p[1] : p \in last}
    IN  Marked(Written(h.rows, {l \in h.links : l[1] \notin moved} \cup last), moved, {"reassigned"})

Edited(h, b) ==
    LET worded  == Marked(Relabelled(h, b.texts), b.locks, {"locked"})
        merged  == Merged(worded, b.merges)
        removed == DroppedActions(Detached(merged, b.detached), b.dropped)
        moved   == Reparented(removed, b.reparents)
    IN Marked(moved, b.rejected, {"removed", "edited"})

ApplyEdits(b) ==
    /\ pass = <<>> /\ left.batches > 0
    /\ left' = [left EXCEPT !.batches = @ - 1]
    /\ LET h == Edited(Written(rows, links), b)
       IN rows' = h.rows /\ links' = h.links
    /\ owed' = {}
    /\ UNCHANGED <<rivals, pass, unseen>>

-----------------------------------------------------------------------------
(* ActivityProposeJob.run *)

\* run: of the ids a candidate names, those of actions count; one without any is
\* passed over.
NamedActions(cands, i) == cands[i] \cap Tier("action")
Active(cands) == {i \in DOMAIN cands : NamedActions(cands, i) # {}}

\* _apply_selection: each candidate becomes an activity of its own, whatever
\* activities its actions have; _link_action refuses a pair the user detached.
Proposed(cands, i) ==
    LET a == NewId(Active(cands), i)
    IN  {<<x, a>> : x \in {x \in NamedActions(cands, i) : a \notin rows[x].apart}}

ProposeActivities(cands) ==
    LET active == Active(cands)
    IN /\ pass = <<>> /\ left.proposals > 0
       /\ active # {}
       /\ NextId + Cardinality(active) - 1 \in Ids
       /\ left' = [left EXCEPT !.proposals = @ - 1]
       /\ rows' = WithNew({NewId(active, i) : i \in active}, "activity")
       /\ links' = links \cup UNION {Proposed(cands, i) : i \in active}
       /\ owed' = {}
       /\ UNCHANGED <<rivals, pass, unseen>>

-----------------------------------------------------------------------------
(* GoalSynthesisJob.run *)

Named(answer) == UNION {answer[i].acts : i \in DOMAIN answer}

\* The first answer, or the second attempt after one that could not be parsed.
DraftGoals(answer) ==
    /\ pass = <<>> /\ left.passes > 0
    /\ Tier("activity") # {}
    /\ pass' = answer
    /\ left' = [left EXCEPT !.passes = @ - 1]
    /\ owed' = {}
    /\ UNCHANGED <<rows, links, rivals, unseen>>

\* The model raises, or neither attempt can be parsed: nothing is written.
FailSynthesis ==
    /\ pass # <<>>
    /\ pass' = <<>>
    /\ UNCHANGED <<rows, links, rivals, left, owed, unseen>>

\* Mutant: what no refined goal got back is left out.
RecoveredByMatch(first, refined) ==
    [i \in DOMAIN refined |->
        LET same == {j \in DOMAIN first : first[j].matches = refined[i].matches}
        IN [refined[i] EXCEPT !.acts =
                IF refined[i].matches # NoGoal /\ same # {} THEN first[Max(same)].acts
                ELSE IF Len(refined) = Len(first) THEN first[i].acts ELSE {}]]

\* _self_refine dropped every activity: take them from the first answer by the
\* goal matched, else by position; the first goal gets the rest.
Recovered(first, refined) ==
    LET back == RecoveredByMatch(first, refined)
        rest == Named(first) \ Named(back)
    IN  [i \in DOMAIN back |->
            [back[i] EXCEPT !.acts = IF i = 1 THEN @ \cup rest ELSE @]]

Forgot(first, refined) == refined # <<>> /\ Named(first) # {} /\ Named(refined) = {}

FinalAnswer(first, refined) ==
    IF refined = <<>> THEN first
    ELSE IF Forgot(first, refined) THEN Recovered(first, refined)
    ELSE refined

\* Mutant: only the user's wording is kept, not a locked one.
OwnedIfEdited(row) == "edited" \in row.marks

Owned(row) == row.marks \cap {"edited", "locked"} # {}

\* _persist_goals: an item is about the goal it matches, of those loaded at the start,
\* or about a new one.
Unmatched(answer) == {i \in DOMAIN answer : answer[i].matches \notin Tier("goal")}
GoalsOf(answer) ==
    [i \in DOMAIN answer |->
        IF i \in Unmatched(answer) THEN NewId(Unmatched(answer), i) ELSE answer[i].matches]

\* A goal has the activities of the last item about it.
PutLinks(answer, goals) ==
    LET last == {i \in DOMAIN goals : \A j \in DOMAIN goals : goals[j] = goals[i] => j <= i}
    IN  {l \in links : l[2] \notin Range(goals)}
          \cup UNION {{<<a, goals[i]>> : a \in answer[i].acts} : i \in last}

\* synthesis_miss_count after a pass.
Misses(row, seen) ==
    CASE seen -> 0
      [] ~seen /\ Owned(row) -> row.missed
      [] OTHER -> row.missed + 1

\* Mutant: a goal is related to itself.
RivalsReflexive(goals, pairs) ==
    LET ofPass == {goals[i] : i \in DOMAIN goals}
    IN {l \in rivals : ~({l[1], l[2]} \subseteq ofPass)}
         \cup {<<goals[p[1]], goals[p[2]]>> : p \in pairs}

\* The goals of one answer are related as it says, those it leaves out as before.
Rivals(goals, pairs) ==
    LET ofPass == {goals[i] : i \in DOMAIN goals}
    IN {l \in rivals : ~({l[1], l[2]} \subseteq ofPass)}
         \cup {<<goals[p[1]], goals[p[2]]>> : p \in {p \in pairs : goals[p[1]] # goals[p[2]]}}

\* A goal that was there, after a pass.
Reworded(row, seen) ==
    [row EXCEPT !.text = IF seen /\ ~Owned(row) THEN 1 - @ ELSE @, !.missed = Misses(row, seen)]

\* What goes together with the goals that are deleted.
Without(gone, pairs) == {l \in pairs : {l[1], l[2]} \cap gone = {}}

\* The end of a pass.  A link to an activity that does not exist fails the flush,
\* and the session is rolled back.
RefineGoals(refined) ==
    /\ pass # <<>>
    /\ pass' = <<>>
    /\ UNCHANGED left
    /\ LET final == FinalAnswer(pass, refined)
           goals == GoalsOf(final)
           seen  == Range(goals)
           known == Tier("goal")
           gone  == {g \in known : Misses(rows[g], g \in seen) >= ORPHAN_MISS_THRESHOLD}
           all   == WithNew(seen, "goal")
       IN /\ NextId + Cardinality(Unmatched(final)) - 1 \in Ids
          /\ IF ~(Named(final) \subseteq DOMAIN rows)
             THEN UNCHANGED <<rows, links, rivals, owed, unseen>>
             ELSE /\ owed' = IF Forgot(pass, refined) /\ IsInjective(goals)
                             THEN Named(pass) \cap Tier("activity") ELSE {}
                  /\ rows' = [i \in DOMAIN all \ gone |->
                                 IF i \in known THEN Reworded(rows[i], i \in seen) ELSE all[i]]
                  /\ links' = Without(gone, PutLinks(final, goals))
                  /\ \E pairs \in {{}, {<<1, Len(final)>>}} :
                        rivals' = Without(gone, Rivals(goals, pairs))
                  /\ unseen' = [i \in Ids |->
                                   IF i \in known /\ i \notin seen
                                   THEN Min({unseen[i] + 1, ORPHAN_MISS_THRESHOLD}) ELSE 0]

SynthesisNext ==
    \/ \E b \in Batches : ApplyEdits(b)
    \/ \E c \in Candidates : ProposeActivities(c)
    \/ \E a \in FirstAnswers : DraftGoals(a)
    \/ \E a \in RefinedAnswers : RefineGoals(a)
    \/ FailSynthesis

SynthesisSpec == SynthesisInit /\ [][SynthesisNext]_svars

-----------------------------------------------------------------------------
(* Properties *)

\* Only a goal that neither the user edited or locked, nor any of the last three
\* completed passes used, is deleted: the count survives relabelling, edits of
\* other goals and failed passes between them.  And a pass does not reword what the
\* user worded or locked (_persist_goals with its orphan loop).
KeepsOwned ==
    /\ \A g \in Tier("goal") :
          g \notin DOMAIN rows' =>
              /\ rows[g].marks \cap {"edited", "locked"} = {}
              /\ unseen[g] >= ORPHAN_MISS_THRESHOLD - 1 /\ unseen'[g] > unseen[g]
    /\ pass # <<>> =>
          \A i \in DOMAIN rows :
              rows[i].marks \cap {"edited", "locked"} # {} =>
                  i \in DOMAIN rows' /\ rows'[i].text = rows[i].text

PassesKeepOwned == [][KeepsOwned]_svars

\* Who may have the children of an entity after a batch of merges, unless one of these
\* is merged in its turn.
Heirs(pairs, p) == {p} \cup {pairs[k][1] : k \in {k \in DOMAIN pairs : pairs[k][2] = p}}
HandedOn(pairs, p) == \E k \in DOMAIN pairs : pairs[k][2] \in Heirs(pairs, p) \ {p}

\* Nothing loses its place but by what takes it away.  A self-refine that forgets all
\* activities costs none its goal: what the first answer named is under goals
\* afterwards, unless two items match one goal, of which the later one overwrites the
\* other.  And a batch of edits takes a parent only from what it detaches, drops or
\* reparents: a merge hands the children of the absorbed entity to the survivor,
\* whichever of them it has already, and a later merge hands them on (_self_refine,
\* _persist_goals, _apply_edits).
KeepsPlaces ==
    /\ \A a \in owed' : \E g \in Tier("goal")' : <<a, g>> \in links'
    /\ left'.batches < left.batches =>
          \A b \in Batches : ApplyEdits(b) =>
              \A l \in links :
                  \/ l[1] \in b.dropped \/ HandedOn(b.merges, l[2])
                  \/ \E k \in DOMAIN b.reparents : b.reparents[k][1] = l[1]
                  \/ \E p \in Heirs(b.merges, l[2]) : <<l[1], p>> \in links' \cup b.detached

PlacesAreKept == [][KeepsPlaces]_svars
====================
