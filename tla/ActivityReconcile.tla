------------------------- MODULE ActivityReconcile -------------------------
(***************************************************************************)
(* tempo/pipelines/activity_reconcile.py beside the user's edits: stage 3  *)
(* proposes activities, whose ids wait in _pending_reconcile_ids while     *)
(* the user may edit, lock or delete them; then the job asks the model     *)
(* about all of them and applies its decisions in one database session.    *)
(*                                                                         *)
(* The session holds the write lock across the model's answer, so no edit  *)
(* comes between; it works on a copy of the graph that its commit installs *)
(* and a rollback drops.  The model may name any entity as the target of a *)
(* candidate, the candidate itself and entities of other tiers included:   *)
(* the job looks ids up without regard to the type.                        *)
(***************************************************************************)
EXTENDS HierarchyService, Sequences, SequencesExt

CONSTANTS
    ActivityTier,   \* the tier of activities
    SeedPending     \* candidates waiting at first

ASSUME ReconcileAssumption ==
    /\ ActivityTier \in Tiers \ {1}
    /\ SeedPending \in Seq(DOMAIN SeedTier)

VARIABLES
    pending,    \* _pending_reconcile_ids
    job         \* the session of the running job, or Idle

allVars == <<hierVars, pending, job>>

\* todo: the candidates without a decision yet; rows, links: the working copy.
\* `misled` is history, what a decision of the session named as its target:
\* "self", the candidate; "tier", an entity that is no activity.
Idle == [todo |-> <<>>, rows |-> <<>>, links |-> {}, open |-> FALSE, misled |-> {}]

ReconcileInit ==
    /\ HierarchyInit
    /\ pending = SeedPending
    /\ job = Idle

\* Reads and edits have sessions of their own and wait for the write lock.
UserStep ==
    /\ ~job.open
    /\ HierarchyNext
    /\ UNCHANGED <<pending, job>>

-----------------------------------------------------------------------------
(* Stage 3 creates an activity for actions it selects; each link it makes   *)
(* writes the activity's usage, and its times if the action widens them.    *)
ProposeActivity(n, actions, rev) ==
    /\ ~job.open
    /\ IsNextId(entities, n) /\ n \in Ids
    /\ entities' = [k \in DOMAIN entities \cup {n} |->
           IF k = n THEN [NewEntity(ActivityTier, FALSE, writes + 1) EXCEPT
                             !.rev = rev]
           ELSE entities[k]]
    /\ parts' = parts \cup (actions \X {n})
    /\ pending' = Append(pending, n)
    /\ Committed
    /\ UNCHANGED <<view, job>>

(* run() opens the session and takes the candidates: those of the pending   *)
(* ids that still name an activity the user has not reassigned.             *)
IsCandidate(i) ==
    /\ i \in DOMAIN entities
    /\ entities[i].tier = ActivityTier
    /\ ~entities[i].reassigned

\* The candidates among the pending ids, in their order.
Candidates(ids) ==
    LET upTo[n \in 0..Len(ids)] ==
            IF n = 0 THEN <<>>
            ELSE IF IsCandidate(ids[n]) THEN Append(upTo[n - 1], ids[n]) ELSE upTo[n - 1]
    IN  upTo[Len(ids)]

StartJob ==
    /\ ~job.open /\ pending # <<>>
    /\ job' = [todo |-> Candidates(pending), rows |-> entities,
               links |-> parts, open |-> TRUE, misled |-> {}]
    /\ UNCHANGED <<hierVars, pending>>

-----------------------------------------------------------------------------
(* One decision *)

MarkIf(written) == IF written THEN 1 ELSE 0

Guarded(e) == e.edited \/ e.locked

\* Mutant: the source's links go without their copies on the target.
MovedNowhere(links, source, target) == {r \in links : r[2] # source}

\* _move_actions: the target's children, and whether any is new to it.
\* The source's links go afterwards, those to the target too if it is both.
Moved(links, source, target) ==
    {r \in links \cup (Children(links, source) \X {target}) : r[2] # source}

MovesAny(links, source, target) ==
    ~ (Children(links, source) \subseteq Children(links, target))

\* Mutant: only the target's lock is looked at.
RefusesLockedTarget(source, target) == target.locked

\* _merge_goal_into_target refuses to merge away what the user protects.
RefusesMerge(source, target) == Guarded(source) \/ target.locked

(* match, revise and merge: the candidate's actions move to the target,     *)
(* whose label is replaced unless the user owns it; further activities are  *)
(* merged into it; the candidate is deleted.  other = NoId: none further.   *)
(* The candidate's row may be gone already, merged away by a decision       *)
(* before this one; its lock is read as it was loaded.                      *)
DecideTarget(decision, target, relabel, other) ==
    LET cand  == Head(job.todo)
        rows  == job.rows
        meant == IF target = cand THEN "new"
                 ELSE IF decision = "merge" /\ (entities[cand].locked \/ rows[target].locked)
                      THEN "match" ELSE decision
        named == /\ relabel /\ meant \in {"revise", "merge"}
                 /\ ~Guarded(rows[target])
        links1 == Moved(job.links, cand, target)
        takes  == /\ other # NoId /\ ~RefusesMerge(rows[other], rows[target])
        links2 == IF takes THEN Moved(links1, other, target) ELSE links1
        gone   == {cand} \cup (IF takes THEN {other} ELSE {})
        away   == {k \in {target} \cup (IF takes THEN {other} ELSE {}) :
                       rows[k].tier # ActivityTier}
        bumps  == 1 + MarkIf(MovesAny(job.links, cand, target)) + MarkIf(named)
                    + (IF takes THEN 1 + MarkIf(MovesAny(links1, other, target)) ELSE 0)
    IN  job' = [job EXCEPT
               !.todo  = Tail(@),
               !.links = Without(links2, gone),
               !.misled = @ \cup (IF target = cand THEN {"self"} ELSE {})
                            \cup (IF away # {} THEN {"tier"} ELSE {}),
               !.rows  = [k \in DOMAIN rows \ gone |->
                   IF k = target
                   THEN [rows[k] EXCEPT !.rev = @ + bumps,
                                        !.text = IF named THEN writes + 1 ELSE @]
                   ELSE rows[k]]]

(* new: the candidate stays, under the label of the decision if it has one. *)
DecideNew(relabel) ==
    LET cand == Head(job.todo)
    IN  /\ cand \in DOMAIN job.rows
        /\ job' = [job EXCEPT
               !.todo = Tail(@),
               !.rows[cand].rev  = @ + 1 + MarkIf(relabel),
               !.rows[cand].text = IF relabel THEN writes + 1 ELSE @]

\* No decision for this candidate, no answer at all, or an unknown target.
SkipCandidate == job' = [job EXCEPT !.todo = Tail(@)]

Decide ==
    /\ job.open /\ job.todo # <<>>
    /\ \/ \E decision \in {"match", "revise", "merge"}, relabel \in BOOLEAN,
             target \in DOMAIN job.rows :
             \E other \in (DOMAIN job.rows \ {target, Head(job.todo)}) \cup {NoId} :
                 DecideTarget(decision, target, relabel, other)
       \/ \E relabel \in BOOLEAN : DecideNew(relabel)
       \/ SkipCandidate
    /\ UNCHANGED <<hierVars, pending>>

-----------------------------------------------------------------------------
(* The end of the session.  The caller forgets the candidates after goal    *)
(* synthesis, unless the callback is cancelled during it.                   *)
CommitJob ==
    /\ job.open /\ job.todo = <<>>
    /\ entities' = job.rows /\ parts' = job.links
    /\ pending' \in {<<>>, pending} /\ job' = Idle
    /\ Committed
    /\ UNCHANGED view

\* An exception is logged and the candidates are forgotten all the same.
FailJob ==
    /\ job.open
    /\ pending' = <<>> /\ job' = Idle
    /\ UNCHANGED hierVars

\* A cancelled callback keeps them for the next pass.
CancelJob ==
    /\ job.open
    /\ job' = Idle
    /\ UNCHANGED <<hierVars, pending>>

Actions == {i \in DOMAIN entities : entities[i].tier = ActivityTier - 1}

Propose ==
    \E n \in Ids, actions \in SUBSET Actions \ {{}} :
        \E rev \in Cardinality(actions)..(2 * Cardinality(actions)) :
            ProposeActivity(n, actions, rev)

ReconcileNext ==
    UserStep \/ Propose \/ StartJob \/ Decide \/ CommitJob \/ FailJob \/ CancelJob

ReconcileSpec == ReconcileInit /\ [][ReconcileNext]_allVars

-----------------------------------------------------------------------------
ReconcileTypeOK ==
    /\ HierarchyTypeOK
    /\ pending \in Seq(Ids)
    /\ job.todo \in Seq(Ids) /\ job.open \in BOOLEAN
    /\ DOMAIN job.rows \subseteq Ids
    /\ \A i \in DOMAIN job.rows : job.rows[i] \in Entity
    /\ job.links \subseteq (DOMAIN job.rows) \X (DOMAIN job.rows)
    /\ job.misled \subseteq {"self", "tier"}

(* The tiers survive any mixture of rewiring, splitting and cascading       *)
(* deletes, and every job but one: a decision that names an entity of       *)
(* another tier hangs the candidate's actions under it, since nothing       *)
(* checks the type of what it names.                                        *)
LayersKept ==
    [][Layered => Layered' \/ (CommitJob /\ "tier" \in job.misled)]_allVars

(* In a layered graph what has a parent keeps one: reparenting it, merging  *)
(* or splitting its parent and every decision of the job leave it one, the  *)
(* decisions that name other tiers included.  It is orphaned by deleting    *)
(* its parent without naming a replacement, and by the job when a candidate *)
(* is named as its own target.                                              *)
OrphanedOnlyByDelete ==
    [][Layered => \A k \in DOMAIN entities \cap DOMAIN entities' :
           Parents(parts, k) # {} /\ Parents(parts', k) = {} =>
               \/ \E c \in Clients, i \in Parents(parts, k) : DeleteEntity(c, i, NoId)
               \/ CommitJob /\ "self" \in job.misled
      ]_allVars

(* A locked entity outlives every edit and every job with the text it has,  *)
(* and a job leaves the user's wording alone: except for the candidates of  *)
(* a job, which it may merge away or rename.                                *)
ProtectedUnlessCandidate ==
    [][\A i \in DOMAIN entities \ Range(pending) :
           entities[i].locked \/ (CommitJob /\ entities[i].edited) =>
               /\ i \in DOMAIN entities'
               /\ entities'[i].text = entities[i].text
               /\ entities'[i].born = entities[i].born]_allVars

(* What the tests promise of reconcile, candidates included: a job never    *)
(* deletes or rewords what the user has edited or locked.                   *)
ReconcileKeepsUserEdits ==
    [][CommitJob => \A i \in DOMAIN entities : Guarded(entities[i]) =>
           /\ i \in DOMAIN entities'
           /\ entities'[i].text = entities[i].text]_allVars

(* What the comment on a self-referring decision promises: treated as "new" *)
(* it keeps the candidate, so a job that commits leaves an activity for     *)
(* every action that had one.                                               *)
ActionsKeepTheirActivity ==
    [][CommitJob => \A k \in DOMAIN entities :
           Parents(parts, k) # {} => Parents(parts', k) # {}]_allVars
=============================================================================
