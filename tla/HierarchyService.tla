-------------------------- MODULE HierarchyService --------------------------
(***************************************************************************)
(* tempo/hierarchy.py with the part of store.py and models.py it writes    *)
(* through: the user's edits of the layered graph of operations, actions,  *)
(* activities and goals.                                                   *)
(*                                                                         *)
(* Every route runs one edit in one database session.  Sessions of a file  *)
(* exclude each other (db.py) and an error rolls the whole edit back, so   *)
(* an edit is one action, and a refused edit is no action.  What is        *)
(* concurrent is the clients: each edits what it has LOADED, which others  *)
(* may have changed since.                                                 *)
(*                                                                         *)
(* `entities` maps the ids of the existing rows to their records, and      *)
(* `parts` holds the structural part_of links as <<child, parent>>.  No    *)
(* entity is removed_by_user: only the drafts of hierarchy_compile.py      *)
(* mark them so.  A text is the number of the transaction that wrote it.   *)
(***************************************************************************)
EXTENDS Integers, FiniteSets

CONSTANTS
    Clients,    \* the windows that edit
    MaxId,      \* bound on row ids
    TopTier,    \* number of tiers: 1 the lowest, TopTier the goals
    SeedTier,   \* the tiers of the entities present at first, by id
    SeedParts,  \* their links
    MaxWrites   \* bound on committed transactions that write

Ids   == 1..MaxId
Tiers == 1..TopTier
NoId  == 0

ASSUME HierarchyAssumption ==
    /\ MaxId \in Nat /\ TopTier \in Nat /\ MaxWrites \in Nat
    /\ DOMAIN SeedTier \subseteq Ids
    /\ \A i \in DOMAIN SeedTier : SeedTier[i] \in Tiers
    /\ SeedParts \subseteq (DOMAIN SeedTier) \X (DOMAIN SeedTier)
    /\ \A r \in SeedParts : SeedTier[r[2]] = SeedTier[r[1]] + 1

VARIABLES
    entities,   \* the rows, by id
    parts,      \* part_of: <<child, parent>>
    view,       \* what each client has loaded
    writes      \* number of writing transactions committed

hierVars == <<entities, parts, view, writes>>

\* The metadata an edit or a job looks at.  `born` is history: the
\* transaction that inserted the row.
Entity == [tier : Tiers, rev : Nat, text : Nat, locked : BOOLEAN,
           edited : BOOLEAN, reassigned : BOOLEAN, born : Nat]

NewEntity(tier, edited, stamp) ==
    [tier |-> tier, rev |-> 0, text |-> stamp, locked |-> FALSE,
     edited |-> edited, reassigned |-> FALSE, born |-> stamp]

HierarchyInit ==
    /\ entities = [i \in DOMAIN SeedTier |-> NewEntity(SeedTier[i], FALSE, 0)]
    /\ parts = SeedParts
    /\ view = [c \in Clients |-> entities]
    /\ writes = 0

-----------------------------------------------------------------------------
(* The graph *)

Children(links, i) == {r[1] : r \in {q \in links : q[2] = i}}
Parents(links, i)  == {r[2] : r \in {q \in links : q[1] = i}}

\* Mutant: the links of a deleted row stay behind.
WithoutCascade(links, gone) == links

\* Deleting a row deletes its links: ON DELETE CASCADE, foreign_keys=ON.
Without(links, gone) == {r \in links : r[1] \notin gone /\ r[2] \notin gone}

FitsUnder(rows, child, parent) == rows[parent].tier = rows[child].tier + 1

\* Whether `child` is found climbing `links` from `parent`.
WouldCycle(links, child, parent) ==
    LET climb[n \in 0..MaxId] ==
            IF n = 0 THEN {parent}
            ELSE climb[n-1] \cup UNION {Parents(links, j) : j \in climb[n-1]}
    IN  child \in climb[MaxId]

\* The id SQLite gives the next row: one more than the largest in use.
IsNextId(rows, n) ==
    /\ \A i \in DOMAIN rows : i < n
    /\ n = 1 \/ n - 1 \in DOMAIN rows

-----------------------------------------------------------------------------
(* Rows *)

\* store.update on metadata of _edit_metadata: every write is a revision.
Edited(e) == [e EXCEPT !.rev = @ + 1, !.edited = TRUE]

\* Mutant: handing a child over is not a revision of the child.
ReassignedSilently(e) == [e EXCEPT !.edited = TRUE, !.reassigned = TRUE]

Reassigned(e) == [Edited(e) EXCEPT !.reassigned = TRUE]

\* A part of a split starts from its original's metadata.
SplitOff(e) ==
    [e EXCEPT !.rev = 0, !.locked = FALSE, !.edited = TRUE,
              !.text = writes + 1, !.born = writes + 1]

\* _get and _assert_revision with the revision the client has loaded.
Current(c, i) ==
    /\ i \in DOMAIN entities
    /\ i \in DOMAIN view[c]
    /\ view[c][i].rev = entities[i].rev

Unlocked(i) == ~entities[i].locked

Committed ==
    /\ writes < MaxWrites
    /\ writes' = writes + 1

-----------------------------------------------------------------------------
(* get_hierarchy, as a client reads it. *)
Load(c) ==
    /\ view' = [view EXCEPT ![c] = entities]
    /\ UNCHANGED <<entities, parts, writes>>

(* update_entity: a text, a lock, or both; a locked entity accepts only    *)
(* its unlocking, and nothing with it.                                     *)
UpdateEntity(c, i, newText, lock) ==
    /\ Current(c, i)
    /\ newText \/ lock # "keep"
    /\ entities[i].locked => lock = "unlock" /\ ~newText
    /\ entities' = [entities EXCEPT ![i] =
           [Edited(entities[i]) EXCEPT
               !.text   = IF newText THEN writes + 1 ELSE entities[i].text,
               !.locked = IF lock = "keep" THEN entities[i].locked ELSE lock = "lock"]]
    /\ Committed
    /\ UNCHANGED <<parts, view>>

\* Mutant: the tiers are not validated.
ReparentAnywhere(c, i, p) ==
    /\ Current(c, i) /\ p \in DOMAIN entities
    /\ Unlocked(i) /\ Unlocked(p)
    /\ ~WouldCycle(parts, i, p)
    /\ parts' = {r \in parts : r[1] # i} \cup {<<i, p>>}
    /\ entities' = [entities EXCEPT ![i] = Reassigned(@)]
    /\ Committed
    /\ UNCHANGED view

(* reparent_entity: the old links go, one new one comes. *)
ReparentEntity(c, i, p) ==
    /\ Current(c, i) /\ p \in DOMAIN entities
    /\ Unlocked(i) /\ Unlocked(p)
    /\ FitsUnder(entities, i, p)
    /\ ~WouldCycle(parts, i, p)
    /\ parts' = {r \in parts : r[1] # i} \cup {<<i, p>>}
    /\ entities' = [entities EXCEPT ![i] = Reassigned(@)]
    /\ Committed
    /\ UNCHANGED view

(* merge_entities: the links of the others are rewired to the survivor s,  *)
(* and the others' children change hands, so they must be unlocked.        *)
Rewired(links, s, others) ==
    LET into(i) == IF i \in others THEN s ELSE i
    IN  {<<into(r[1]), into(r[2])>> : r \in links} \ {<<s, s>>}

MergeEntities(c, s, others) ==
    LET merged == others \cup {s}
        moved  == {k \in UNION {Children(parts, o) : o \in others} \ merged :
                      FitsUnder(entities, k, s)}
    IN  /\ others # {} /\ s \notin others
        /\ \A i \in merged :
               Current(c, i) /\ Unlocked(i) /\ entities[i].tier = entities[s].tier
        /\ \A k \in moved : Unlocked(k)
        /\ parts' = Rewired(parts, s, others)
        /\ entities' = [i \in DOMAIN entities \ others |->
               IF i = s THEN [Edited(entities[s]) EXCEPT !.text = writes + 1]
               ELSE IF i \in moved THEN Reassigned(entities[i])
               ELSE entities[i]]
        /\ Committed
        /\ UNCHANGED view

(* split_entity into two: the children are divided among the parts, which  *)
(* both take over the parents; the children's own locks are not looked at. *)
PartsOfSplit(i, n, m, first) ==
    Without(parts \cup (first \X {n})
                  \cup ((Children(parts, i) \ first) \X {m})
                  \cup ({n, m} \X Parents(parts, i)), {i})

SplitEntity(c, i, n, first) ==
    /\ Current(c, i) /\ Unlocked(i)
    /\ IsNextId(entities, n) /\ n + 1 \in Ids
    /\ parts' = PartsOfSplit(i, n, n + 1, first)
    /\ entities' = [k \in (DOMAIN entities \ {i}) \cup {n, n + 1} |->
           IF k \in {n, n + 1} THEN SplitOff(entities[i])
           ELSE IF k \in Children(parts, i) THEN Reassigned(entities[k])
           ELSE entities[k]]
    /\ Committed
    /\ UNCHANGED view

(* delete_entity: the children go to the replacement, unless they are there *)
(* already, or are orphaned.  The links to the entity go child by child,    *)
(* each before the search for a cycle; here all have gone before it.  A     *)
(* child that is the entity itself cannot be rendered: an error.            *)
DeleteEntity(c, i, replacement) ==
    LET kids == Children(parts, i)
        left == {r \in parts : r[2] # i}
    IN  /\ Current(c, i) /\ Unlocked(i) /\ i \notin kids
        /\ replacement # NoId =>
               /\ replacement \in DOMAIN entities \ {i}
               /\ Unlocked(replacement)
               /\ entities[replacement].tier = entities[i].tier
               /\ \A k \in kids \ Children(parts, replacement) :
                      /\ FitsUnder(entities, k, replacement)
                      /\ ~WouldCycle(left, k, replacement)
        /\ parts' = Without(parts, {i}) \cup
               (IF replacement = NoId THEN {} ELSE kids \X {replacement})
        /\ entities' = [k \in DOMAIN entities \ {i} |->
               IF k \in kids THEN Reassigned(entities[k]) ELSE entities[k]]
        /\ Committed
        /\ UNCHANGED view

(* create_entity: no revision to compare, but an unlocked, fitting parent. *)
CreateEntity(n, tier, p) ==
    /\ IsNextId(entities, n) /\ n \in Ids
    /\ p # NoId =>
           /\ p \in DOMAIN entities /\ Unlocked(p)
           /\ entities[p].tier = tier + 1
    /\ parts' = IF p = NoId THEN parts ELSE parts \cup {<<n, p>>}
    /\ entities' = [k \in DOMAIN entities \cup {n} |->
           IF k = n THEN NewEntity(tier, TRUE, writes + 1) ELSE entities[k]]
    /\ Committed
    /\ UNCHANGED view

Edit(c) ==
    \/ \E i \in DOMAIN entities, newText \in BOOLEAN,
           lock \in {"keep", "lock", "unlock"} : UpdateEntity(c, i, newText, lock)
    \/ \E i, p \in DOMAIN entities : ReparentEntity(c, i, p)
    \/ \E s \in DOMAIN entities, others \in SUBSET DOMAIN entities :
           MergeEntities(c, s, others)
    \/ \E i \in DOMAIN entities, n \in Ids : \E first \in SUBSET Children(parts, i) :
           SplitEntity(c, i, n, first)
    \/ \E i \in DOMAIN entities, replacement \in DOMAIN entities \cup {NoId} :
           DeleteEntity(c, i, replacement)

Create == \E n \in Ids, tier \in Tiers, p \in DOMAIN entities \cup {NoId} :
              CreateEntity(n, tier, p)

HierarchyNext == Create \/ \E c \in Clients : Load(c) \/ Edit(c)

HierarchySpec == HierarchyInit /\ [][HierarchyNext]_hierVars

-----------------------------------------------------------------------------
HierarchyTypeOK ==
    /\ DOMAIN entities \subseteq Ids
    /\ \A i \in DOMAIN entities : entities[i] \in Entity
    /\ parts \subseteq (DOMAIN entities) \X (DOMAIN entities)
    /\ DOMAIN view = Clients
    /\ \A c \in Clients :
           /\ DOMAIN view[c] \subseteq Ids
           /\ \A i \in DOMAIN view[c] : view[c][i] \in Entity
    /\ writes \in Nat

(* Every link joins entities of neighbouring tiers, as models.py says of    *)
(* part_of: operation to action, action to activity, activity to goal.      *)
(* get_hierarchy silently drops a link that does not, and with it the       *)
(* subtree.                                                                 *)
Layered == \A r \in parts : FitsUnder(entities, r[1], r[2])

(* A revision names the content of an entity: while a client's copy has     *)
(* the revision of the row it was loaded from, it has all of its content.   *)
(* So an edit that _assert_revision accepts changes what its author saw,    *)
(* and nobody's committed edit is overwritten unseen.  (`born` says that    *)
(* it is the same row: ids of deleted rows are given out again.)            *)
RevisionNamesContent ==
    \A c \in Clients : \A i \in DOMAIN view[c] \cap DOMAIN entities :
        view[c][i].born = entities[i].born /\ view[c][i].rev = entities[i].rev
            => view[c][i] = entities[i]
=============================================================================
