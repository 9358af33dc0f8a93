----------------------- MODULE ActivityReconcile_proofs -----------------------
(***************************************************************************)
(* Proofs about the user's edits of the hierarchy and about the reconcile  *)
(* job beside them, for any clients, ids, tiers and transactions, any      *)
(* layered graph and any candidates at first.  First the edits alone: the  *)
(* links stay layered, and an edit that _assert_revision accepts is made   *)
(* on the content its author has loaded.  Then the job, whatever entities  *)
(* its decisions name: what a decision about another tier or about the     *)
(* candidate itself breaks, and that nothing else does.  The invariant     *)
(* therefore holds of graphs that are not layered as well, and each lemma  *)
(* about an edit says apart that it leaves a layered graph layered.        *)
(***************************************************************************)
EXTENDS ActivityReconcile, SequenceTheorems, WellFoundedInduction,
        FiniteSetTheorems, TLAPS

(* That equal revisions mean equal content is not inductive: nothing would  *)
(* keep a copy from being ahead of its row and the row from catching up     *)
(* with it.  Copies are never ahead, and a row inserted by a transaction    *)
(* yet to come is not in any copy.                                          *)
CopiesBehind ==
    /\ \A i \in DOMAIN entities : entities[i].born <= writes
    /\ \A c \in Clients : \A i \in DOMAIN view[c] : view[c][i].born <= writes
    /\ \A c \in Clients : \A i \in DOMAIN view[c] \cap DOMAIN entities :
           view[c][i].born = entities[i].born =>
               /\ view[c][i].rev <= entities[i].rev
               /\ view[c][i].rev = entities[i].rev => view[c][i] = entities[i]

IInv == HierarchyTypeOK /\ CopiesBehind

(* What every edit does to the rows that remain: nothing, a later revision  *)
(* of the same row, or a new row of this transaction.                       *)
RowsAdvance ==
    \A k \in DOMAIN entities' :
        \/ k \in DOMAIN entities /\ entities'[k] = entities[k]
        \/ /\ k \in DOMAIN entities
           /\ entities'[k].born = entities[k].born
           /\ entities'[k].rev > entities[k].rev
        \/ entities'[k].born = writes + 1

\* The rows after an edit keep their type.
RowsTyped ==
    /\ DOMAIN entities' \subseteq Ids
    /\ \A k \in DOMAIN entities' : entities'[k] \in Entity

\* Every link joins two rows.
Joined(rows, links) == links \subseteq (DOMAIN rows) \X (DOMAIN rows)

-----------------------------------------------------------------------------
(* Rows *)

\* An edit keeps the type, the tier and the row, and is a later revision.
LEMMA EditedRow ==
    ASSUME NEW e \in Entity
    PROVE  /\ Edited(e) \in Entity
           /\ Edited(e).tier = e.tier
           /\ Edited(e).born = e.born
           /\ Edited(e).rev = e.rev + 1
<1>1. e.rev + 1 \in Nat
  BY DEF Entity
<1> QED BY <1>1 DEF Entity, Edited

LEMMA ReassignedRow ==
    ASSUME NEW e \in Entity
    PROVE  /\ Reassigned(e) \in Entity
           /\ Reassigned(e).tier = e.tier
           /\ Reassigned(e).born = e.born
           /\ Reassigned(e).rev = e.rev + 1
<1>1. Edited(e) \in Entity
  BY EditedRow
<1>2. \A f \in Entity : LET g == [f EXCEPT !.reassigned = TRUE]
                       IN  /\ g \in Entity /\ g.tier = f.tier
                           /\ g.born = f.born /\ g.rev = f.rev
  BY DEF Entity
<1> QED BY <1>1, <1>2, EditedRow DEF Reassigned

\* So is the edit of a text or a lock.
LEMMA UpdatedRow ==
    ASSUME NEW e \in Entity, NEW text \in Nat, NEW locked \in BOOLEAN
    PROVE  LET u == [Edited(e) EXCEPT !.text = text, !.locked = locked]
           IN  /\ u \in Entity /\ u.tier = e.tier
               /\ u.born = e.born /\ u.rev = e.rev + 1
<1>1. Edited(e) \in Entity
  BY EditedRow
<1>2. \A f \in Entity : LET u == [f EXCEPT !.text = text, !.locked = locked]
                       IN  /\ u \in Entity /\ u.tier = f.tier
                           /\ u.born = f.born /\ u.rev = f.rev
  BY DEF Entity
<1> QED BY <1>1, <1>2, EditedRow

\* A part of a split and a created entity belong to the transaction.
LEMMA SplitOffRow ==
    ASSUME NEW e \in Entity, writes \in Nat
    PROVE  /\ SplitOff(e) \in Entity
           /\ SplitOff(e).tier = e.tier
           /\ SplitOff(e).born = writes + 1
<1>1. writes + 1 \in Nat /\ 0 \in Nat
  OBVIOUS
<1> QED BY <1>1 DEF Entity, SplitOff

LEMMA CreatedRow ==
    ASSUME NEW tier \in Tiers, NEW edited \in BOOLEAN, NEW stamp \in Nat
    PROVE  /\ NewEntity(tier, edited, stamp) \in Entity
           /\ NewEntity(tier, edited, stamp).tier = tier
           /\ NewEntity(tier, edited, stamp).born = stamp
  BY DEF Entity, NewEntity

-----------------------------------------------------------------------------
(* Any edit that advances rows keeps the copies behind. *)
LEMMA AdvanceKeepsCopies ==
    ASSUME HierarchyTypeOK, CopiesBehind, RowsTyped, RowsAdvance, Committed,
           UNCHANGED view
    PROVE  CopiesBehind'
<1> USE DEF HierarchyTypeOK, CopiesBehind, RowsTyped, RowsAdvance, Committed, Entity
<1>1. \A i \in DOMAIN entities' : (entities'[i].born <= writes')
  OBVIOUS
<1>2. \A c \in Clients : \A i \in DOMAIN view[c] : (view[c][i].born <= writes')
  OBVIOUS
<1>3. ASSUME NEW c \in Clients, NEW i \in DOMAIN view[c] \cap DOMAIN entities',
             view[c][i].born = entities'[i].born
      PROVE  /\ view[c][i].rev <= entities'[i].rev
             /\ view[c][i].rev = entities'[i].rev => view[c][i] = entities'[i]
  <2>1. entities'[i].born # writes + 1
    BY <1>3
  <2>2. CASE i \in DOMAIN entities /\ entities'[i] = entities[i]
    BY <1>3, <2>2
  <2>3. CASE /\ i \in DOMAIN entities
             /\ entities'[i].born = entities[i].born
             /\ entities'[i].rev > entities[i].rev
    <3>1. view[c][i].rev <= entities[i].rev
      BY <1>3, <2>3
    <3> QED BY <1>3, <2>3, <3>1
  <2> QED BY <2>1, <2>2, <2>3
<1> QED BY <1>1, <1>2, <1>3

\* The links after an edit join rows, whatever it did to them: then the
\* invariant holds again.
LEMMA EditKeepsIInv ==
    ASSUME IInv, RowsTyped, RowsAdvance, Joined(entities', parts'), Committed,
           UNCHANGED view
    PROVE  IInv'
<1>1. CopiesBehind'
  BY AdvanceKeepsCopies DEF IInv
<1>2. HierarchyTypeOK'
  BY DEF IInv, HierarchyTypeOK, RowsTyped, Joined, Committed
<1> QED BY <1>1, <1>2 DEF IInv

-----------------------------------------------------------------------------
(* Links *)

\* What the type says of one link and of a row's relatives, and the layers.
LEMMA LinkEnds ==
    ASSUME HierarchyTypeOK, NEW r \in parts
    PROVE  /\ r = <<r[1], r[2]>>
           /\ r[1] \in DOMAIN entities /\ r[2] \in DOMAIN entities
           /\ Layered => entities[r[2]].tier = entities[r[1]].tier + 1
  BY DEF HierarchyTypeOK, Layered, FitsUnder

LEMMA ChildLink ==
    ASSUME HierarchyTypeOK, NEW i, NEW k \in Children(parts, i)
    PROVE  /\ k \in DOMAIN entities /\ i \in DOMAIN entities
           /\ Layered => entities[i].tier = entities[k].tier + 1
  BY LinkEnds DEF Children

LEMMA ParentLink ==
    ASSUME HierarchyTypeOK, NEW i, NEW p \in Parents(parts, i)
    PROVE  /\ p \in DOMAIN entities /\ i \in DOMAIN entities
           /\ Layered => entities[p].tier = entities[i].tier + 1
  BY LinkEnds DEF Parents

-----------------------------------------------------------------------------
(* One lemma per edit *)

LEMMA UpdateStep ==
    ASSUME IInv, NEW c \in Clients, NEW i \in DOMAIN entities,
           NEW newText \in BOOLEAN, NEW lock \in {"keep", "lock", "unlock"},
           UpdateEntity(c, i, newText, lock)
    PROVE  IInv' /\ (Layered => Layered')
<1> DEFINE text   == IF newText THEN writes + 1 ELSE entities[i].text
           locked == IF lock = "keep" THEN entities[i].locked ELSE lock = "lock"
           row    == [Edited(entities[i]) EXCEPT !.text = text, !.locked = locked]
<1>1. entities[i] \in Entity /\ text \in Nat /\ locked \in BOOLEAN
  <2>1. entities[i] \in Entity /\ writes \in Nat
    BY DEF IInv, HierarchyTypeOK
  <2>2. entities[i].text \in Nat /\ entities[i].locked \in BOOLEAN /\ writes + 1 \in Nat
    BY <2>1 DEF Entity
  <2>3. text \in Nat
    BY <2>2
  <2>4. (lock = "lock") \in BOOLEAN
    OBVIOUS
  <2>5. locked \in BOOLEAN
    BY <2>2, <2>4, Zenon
  <2> QED BY <2>1, <2>3, <2>5
<1>2. /\ row \in Entity /\ row.tier = entities[i].tier
      /\ row.born = entities[i].born /\ row.rev = entities[i].rev + 1
  <2> HIDE DEF text, locked
  <2> QED BY <1>1, UpdatedRow
<1>3. entities' = [k \in DOMAIN entities |-> IF k = i THEN row ELSE entities[k]]
  BY DEF UpdateEntity
<1> HIDE DEF row
<1>4. RowsTyped /\ RowsAdvance
  BY <1>2, <1>3 DEF IInv, HierarchyTypeOK, RowsTyped, RowsAdvance, Entity
<1>5. Joined(entities', parts') /\ (Layered => Layered')
  <2>1. parts' = parts
    BY DEF UpdateEntity
  <2>2. \A k \in DOMAIN entities : entities'[k].tier = entities[k].tier
    BY <1>2, <1>3
  <2> QED BY <1>3, <2>1, <2>2 DEF IInv, HierarchyTypeOK, Joined, Layered, FitsUnder
<1> QED BY <1>4, <1>5, EditKeepsIInv DEF UpdateEntity

LEMMA ReparentStep ==
    ASSUME IInv, NEW c \in Clients, NEW i \in DOMAIN entities,
           NEW p \in DOMAIN entities, ReparentEntity(c, i, p)
    PROVE  IInv' /\ (Layered => Layered')
<1>1. entities' = [k \in DOMAIN entities |->
                      IF k = i THEN Reassigned(entities[i]) ELSE entities[k]]
  BY DEF ReparentEntity
<1>2. /\ Reassigned(entities[i]) \in Entity
      /\ Reassigned(entities[i]).tier = entities[i].tier
      /\ Reassigned(entities[i]).born = entities[i].born
      /\ Reassigned(entities[i]).rev = entities[i].rev + 1
  BY ReassignedRow DEF IInv, HierarchyTypeOK
<1>3. RowsTyped /\ RowsAdvance
  BY <1>1, <1>2 DEF IInv, HierarchyTypeOK, RowsTyped, RowsAdvance, Entity
<1>4. Joined(entities', parts') /\ (Layered => Layered')
  <2>1. parts' = {r \in parts : r[1] # i} \cup {<<i, p>>}
    BY DEF ReparentEntity
  <2>2. DOMAIN entities' = DOMAIN entities
    BY <1>1
  <2>3. \A k \in DOMAIN entities : entities'[k].tier = entities[k].tier
    BY <1>1, <1>2
  <2>4. entities[p].tier = entities[i].tier + 1
    BY DEF ReparentEntity, FitsUnder
  <2>5. Joined(entities', parts')
    BY <2>1, <2>2 DEF IInv, HierarchyTypeOK, Joined
  <2>6. ASSUME Layered PROVE Layered'
    BY <2>1, <2>2, <2>3, <2>4, <2>6 DEF IInv, HierarchyTypeOK, Layered, FitsUnder
  <2> QED BY <2>5, <2>6
<1> QED BY <1>3, <1>4, EditKeepsIInv DEF ReparentEntity

LEMMA MergeStep ==
    ASSUME IInv, NEW c \in Clients, NEW s \in DOMAIN entities,
           NEW others \in SUBSET DOMAIN entities, MergeEntities(c, s, others)
    PROVE  IInv' /\ (Layered => Layered')
<1> DEFINE merged == others \cup {s}
           moved  == {k \in UNION {Children(parts, o) : o \in others} \ merged :
                         FitsUnder(entities, k, s)}
           row    == [Edited(entities[s]) EXCEPT !.text = writes + 1]
           into(i) == IF i \in others THEN s ELSE i
<1>1. entities' = [i \in DOMAIN entities \ others |->
                      IF i = s THEN row
                      ELSE IF i \in moved THEN Reassigned(entities[i])
                      ELSE entities[i]]
  BY DEF MergeEntities
<1>2. s \notin others /\ \A o \in others : entities[o].tier = entities[s].tier
  BY DEF MergeEntities
<1>3. /\ row \in Entity /\ row.tier = entities[s].tier
      /\ row.born = entities[s].born /\ row.rev = entities[s].rev + 1
  <2>1. entities[s] \in Entity /\ writes + 1 \in Nat
    BY DEF IInv, HierarchyTypeOK
  <2>2. Edited(entities[s]) \in Entity
    BY <2>1, EditedRow
  <2>3. \A e \in Entity : LET u == [e EXCEPT !.text = writes + 1]
                         IN  /\ u \in Entity /\ u.tier = e.tier
                             /\ u.born = e.born /\ u.rev = e.rev
    BY <2>1 DEF Entity
  <2> QED BY <2>1, <2>2, <2>3, EditedRow
<1>4. \A k \in DOMAIN entities :
          /\ Reassigned(entities[k]) \in Entity
          /\ Reassigned(entities[k]).tier = entities[k].tier
          /\ Reassigned(entities[k]).born = entities[k].born
          /\ Reassigned(entities[k]).rev = entities[k].rev + 1
  BY ReassignedRow DEF IInv, HierarchyTypeOK
<1>5. parts' = {<<into(r[1]), into(r[2])>> : r \in parts} \ {<<s, s>>}
  BY DEF MergeEntities, Rewired
<1>6. DOMAIN entities' = DOMAIN entities \ others
  BY <1>1
<1> HIDE DEF row, moved
<1>7. \A k \in DOMAIN entities' :
          \/ entities'[k] = entities[k]
          \/ k = s /\ entities'[k] = row
          \/ entities'[k] = Reassigned(entities[k])
  BY <1>1
<1>8. RowsTyped /\ RowsAdvance
  <2>1. RowsTyped
    BY <1>3, <1>4, <1>6, <1>7 DEF IInv, HierarchyTypeOK, RowsTyped
  <2>2. \A k \in DOMAIN entities : entities[k].rev \in Nat
    BY DEF IInv, HierarchyTypeOK, Entity
  <2>3. RowsAdvance
    BY <1>3, <1>4, <1>6, <1>7, <2>2 DEF RowsAdvance
  <2> QED BY <2>1, <2>3
<1>9. Joined(entities', parts') /\ (Layered => Layered')
  <2>1. \A k \in DOMAIN entities' : entities'[k].tier = entities[k].tier
    BY <1>3, <1>4, <1>6, <1>7
  <2>2. \A k \in DOMAIN entities : /\ into(k) \in DOMAIN entities'
                                 /\ entities[into(k)].tier = entities[k].tier
    BY <1>2, <1>6
  <2>3. ASSUME NEW q \in parts'
        PROVE  /\ q \in (DOMAIN entities') \X (DOMAIN entities')
               /\ Layered => entities'[q[2]].tier = entities'[q[1]].tier + 1
    <3>1. PICK r \in parts : q = <<into(r[1]), into(r[2])>>
      BY <1>5
    <3>2. /\ r[1] \in DOMAIN entities /\ r[2] \in DOMAIN entities
          /\ Layered => entities[r[2]].tier = entities[r[1]].tier + 1
      BY LinkEnds DEF IInv
    <3>3. /\ q[1] = into(r[1]) /\ q[2] = into(r[2])
      BY <3>1
    <3> HIDE DEF into
    <3> QED BY <2>1, <2>2, <3>1, <3>2, <3>3
  <2> QED BY <2>3 DEF Joined, Layered, FitsUnder
<1> QED BY <1>8, <1>9, EditKeepsIInv DEF MergeEntities

LEMMA SplitStep ==
    ASSUME IInv, NEW c \in Clients, NEW i \in DOMAIN entities, NEW n \in Ids,
           NEW first \in SUBSET Children(parts, i), SplitEntity(c, i, n, first)
    PROVE  IInv' /\ (Layered => Layered')
<1> DEFINE rest == Children(parts, i) \ first
           D    == (DOMAIN entities \ {i}) \cup {n, n + 1}
<1>1. entities' = [k \in D |->
                      IF k \in {n, n + 1} THEN SplitOff(entities[i])
                      ELSE IF k \in Children(parts, i) THEN Reassigned(entities[k])
                      ELSE entities[k]]
  BY DEF SplitEntity
<1>2. /\ n \in Ids /\ n + 1 \in Ids
      /\ n \notin DOMAIN entities /\ n + 1 \notin DOMAIN entities
  <2>1. \A k \in DOMAIN entities : k \in Int /\ k < n
    BY DEF IInv, HierarchyTypeOK, SplitEntity, IsNextId, Ids
  <2> QED BY <2>1 DEF SplitEntity, Ids
<1>3. /\ SplitOff(entities[i]) \in Entity
      /\ SplitOff(entities[i]).tier = entities[i].tier
      /\ SplitOff(entities[i]).born = writes + 1
  BY SplitOffRow DEF IInv, HierarchyTypeOK
<1>4. \A k \in DOMAIN entities :
          /\ Reassigned(entities[k]) \in Entity
          /\ Reassigned(entities[k]).tier = entities[k].tier
          /\ Reassigned(entities[k]).born = entities[k].born
          /\ Reassigned(entities[k]).rev = entities[k].rev + 1
  BY ReassignedRow DEF IInv, HierarchyTypeOK
<1>5. DOMAIN entities' = D
  BY <1>1
<1>6. \A k \in {n, n + 1} : entities'[k] = SplitOff(entities[i])
  BY <1>1
<1>7. \A k \in DOMAIN entities \ {i} :
          /\ k \in D /\ k \notin {n, n + 1}
          /\ entities'[k] \in {entities[k], Reassigned(entities[k])}
  BY <1>1, <1>2
<1>8. RowsTyped /\ RowsAdvance
  <2>1. RowsTyped
    BY <1>2, <1>3, <1>4, <1>5, <1>6, <1>7 DEF IInv, HierarchyTypeOK, RowsTyped
  <2>2. \A k \in DOMAIN entities : entities[k].rev \in Nat
    BY DEF IInv, HierarchyTypeOK, Entity
  <2>3. RowsAdvance
    BY <1>3, <1>4, <1>5, <1>6, <1>7, <2>2 DEF RowsAdvance
  <2> QED BY <2>1, <2>3
<1>9. Joined(entities', parts') /\ (Layered => Layered')
  <2>1. \A k \in DOMAIN entities \ {i} : entities'[k].tier = entities[k].tier
    BY <1>4, <1>7
  <2>2. \A k \in {n, n + 1} : k \in D /\ entities'[k].tier = entities[i].tier
    BY <1>3, <1>6
  <2>3. \A q \in parts' : /\ q[1] # i /\ q[2] # i
                          /\ q \in parts \cup (first \X {n}) \cup (rest \X {n + 1})
                                    \cup ({n, n + 1} \X Parents(parts, i))
    BY DEF SplitEntity, PartsOfSplit, Without
  <2>4. \A k \in Children(parts, i) :
            k \in DOMAIN entities /\ (Layered => entities[i].tier = entities[k].tier + 1)
    BY ChildLink DEF IInv
  <2>5. \A p \in Parents(parts, i) :
            p \in DOMAIN entities /\ (Layered => entities[p].tier = entities[i].tier + 1)
    BY ParentLink DEF IInv
  <2>6. ASSUME NEW q \in parts'
        PROVE  /\ q \in D \X D
               /\ Layered => entities'[q[2]].tier = entities'[q[1]].tier + 1
    <3>1. CASE q \in parts
      <4>1. /\ q = <<q[1], q[2]>> /\ q[1] \in DOMAIN entities \ {i}
            /\ q[2] \in DOMAIN entities \ {i}
            /\ Layered => entities[q[2]].tier = entities[q[1]].tier + 1
        BY <2>3, <3>1, LinkEnds DEF IInv
      <4> QED BY <4>1, <1>7, <2>1
    <3>2. ASSUME NEW m \in {n, n + 1}, NEW k \in Children(parts, i), q = <<k, m>>
          PROVE  /\ q \in D \X D
                 /\ Layered => entities'[q[2]].tier = entities'[q[1]].tier + 1
      <4>1. k \in DOMAIN entities \ {i}
        BY <2>3, <2>4, <3>2
      <4> QED BY <4>1, <1>7, <2>1, <2>2, <2>4, <3>2
    <3>3. CASE q \in (first \X {n}) \cup (rest \X {n + 1})
      BY <3>2, <3>3
    <3>4. CASE q \in {n, n + 1} \X Parents(parts, i)
      <4>1. PICK m \in {n, n + 1}, p \in Parents(parts, i) : q = <<m, p>>
        BY <3>4
      <4>2. p \in DOMAIN entities \ {i}
        BY <2>3, <2>5, <4>1
      <4> QED BY <4>1, <4>2, <1>7, <2>1, <2>2, <2>5
    <3> QED BY <2>3, <3>1, <3>3, <3>4
  <2> QED BY <1>5, <2>6 DEF Joined, Layered, FitsUnder
<1> QED BY <1>8, <1>9, EditKeepsIInv DEF SplitEntity

LEMMA DeleteStep ==
    ASSUME IInv, NEW c \in Clients, NEW i \in DOMAIN entities,
           NEW replacement \in DOMAIN entities \cup {NoId},
           DeleteEntity(c, i, replacement)
    PROVE  IInv' /\ (Layered => Layered')
<1> DEFINE kids  == Children(parts, i)
           D     == DOMAIN entities \ {i}
           added == IF replacement = NoId THEN {} ELSE kids \X {replacement}
<1>1. entities' = [k \in D |-> IF k \in kids THEN Reassigned(entities[k])
                              ELSE entities[k]]
  BY DEF DeleteEntity
<1>2. parts' = Without(parts, {i}) \cup added
  BY DEF DeleteEntity
<1>3. \A k \in DOMAIN entities :
          /\ Reassigned(entities[k]) \in Entity
          /\ Reassigned(entities[k]).tier = entities[k].tier
          /\ Reassigned(entities[k]).born = entities[k].born
          /\ Reassigned(entities[k]).rev = entities[k].rev + 1
  BY ReassignedRow DEF IInv, HierarchyTypeOK
<1>4. DOMAIN entities' = D /\ \A k \in D : entities'[k] \in {entities[k], Reassigned(entities[k])}
  BY <1>1
<1>5. RowsTyped /\ RowsAdvance
  <2>1. RowsTyped
    BY <1>3, <1>4 DEF IInv, HierarchyTypeOK, RowsTyped
  <2>2. \A k \in DOMAIN entities : entities[k].rev \in Nat
    BY DEF IInv, HierarchyTypeOK, Entity
  <2>3. RowsAdvance
    BY <1>3, <1>4, <2>2 DEF RowsAdvance
  <2> QED BY <2>1, <2>3
<1>6. Joined(entities', parts') /\ (Layered => Layered')
  <2>1. \A k \in D : entities'[k].tier = entities[k].tier
    BY <1>3, <1>4
  <2>2. \A k \in kids : k \in D /\ (Layered => entities[i].tier = entities[k].tier + 1)
    BY ChildLink DEF IInv, DeleteEntity
  <2>3. replacement # NoId => /\ replacement \in D
                              /\ entities[replacement].tier = entities[i].tier
    BY DEF DeleteEntity
  <2>4. ASSUME NEW q \in parts'
        PROVE  /\ q \in D \X D
               /\ Layered => entities'[q[2]].tier = entities'[q[1]].tier + 1
    <3>1. CASE q \in Without(parts, {i})
      <4>1. /\ q = <<q[1], q[2]>> /\ q[1] \in D /\ q[2] \in D
            /\ Layered => entities[q[2]].tier = entities[q[1]].tier + 1
        BY <3>1, LinkEnds DEF IInv, Without
      <4> QED BY <4>1, <2>1
    <3>2. CASE q \in added
      <4>1. replacement # NoId /\ q \in kids \X {replacement}
        BY <3>2
      <4>2. PICK k \in kids : q = <<k, replacement>>
        BY <4>1
      <4> QED BY <4>1, <4>2, <2>1, <2>2, <2>3
    <3> QED BY <1>2, <3>1, <3>2
  <2> QED BY <1>4, <2>4 DEF Joined, Layered, FitsUnder
<1> QED BY <1>5, <1>6, EditKeepsIInv DEF DeleteEntity

LEMMA CreateStep ==
    ASSUME IInv, NEW n \in Ids, NEW tier \in Tiers,
           NEW p \in DOMAIN entities \cup {NoId}, CreateEntity(n, tier, p)
    PROVE  IInv' /\ (Layered => Layered')
<1> DEFINE row == NewEntity(tier, TRUE, writes + 1)
<1>1. /\ entities' = [k \in DOMAIN entities \cup {n} |->
                          IF k = n THEN row ELSE entities[k]]
      /\ parts' = IF p = NoId THEN parts ELSE parts \cup {<<n, p>>}
  BY DEF CreateEntity
<1>2. row \in Entity /\ row.tier = tier /\ row.born = writes + 1
  <2>1. writes + 1 \in Nat
    BY DEF IInv, HierarchyTypeOK
  <2> QED BY <2>1, CreatedRow
<1>3. n \notin DOMAIN entities
  <2>1. \A k \in DOMAIN entities : k \in Int /\ k < n
    BY DEF IInv, HierarchyTypeOK, CreateEntity, IsNextId, Ids
  <2> QED BY <2>1 DEF Ids
<1> HIDE DEF row
<1>4. RowsTyped /\ RowsAdvance
  BY <1>1, <1>2 DEF IInv, HierarchyTypeOK, RowsTyped, RowsAdvance
<1>5. Joined(entities', parts') /\ (Layered => Layered')
  <2>1. /\ DOMAIN entities' = DOMAIN entities \cup {n}
        /\ entities'[n].tier = tier
        /\ \A k \in DOMAIN entities : entities'[k].tier = entities[k].tier
    BY <1>1, <1>2, <1>3
  <2>2. p # NoId => p \in DOMAIN entities /\ entities[p].tier = tier + 1
    BY DEF CreateEntity
  <2>3. Joined(entities', parts')
    BY <1>1, <2>1, <2>2 DEF IInv, HierarchyTypeOK, Joined
  <2>4. ASSUME Layered PROVE Layered'
    BY <1>1, <1>3, <2>1, <2>2, <2>4 DEF IInv, HierarchyTypeOK, Layered, FitsUnder
  <2> QED BY <2>3, <2>4
<1> QED BY <1>4, <1>5, EditKeepsIInv DEF CreateEntity

LEMMA LoadStep ==
    ASSUME IInv, NEW c \in Clients, Load(c)
    PROVE  IInv' /\ (Layered => Layered')
<1>1. /\ entities' = entities /\ parts' = parts /\ writes' = writes
      /\ view' = [d \in Clients |-> IF d = c THEN entities ELSE view[d]]
  BY DEF Load, IInv, HierarchyTypeOK
<1>2. HierarchyTypeOK' /\ (Layered => Layered')
  BY <1>1 DEF IInv, HierarchyTypeOK, Layered, FitsUnder
<1>3. CopiesBehind'
  BY <1>1 DEF IInv, HierarchyTypeOK, CopiesBehind, Entity
<1> QED BY <1>2, <1>3 DEF IInv

-----------------------------------------------------------------------------
(* The theorems *)

LEMMA InitIInv == HierarchyInit => IInv /\ Layered
<1> SUFFICES ASSUME HierarchyInit PROVE IInv /\ Layered
  OBVIOUS
<1> USE HierarchyAssumption DEF HierarchyInit
<1>1. \A i \in DOMAIN entities : /\ entities[i] \in Entity
                                /\ entities[i].tier = SeedTier[i]
                                /\ entities[i].born = 0
  BY CreatedRow
<1>2. DOMAIN entities = DOMAIN SeedTier
  OBVIOUS
<1>3. HierarchyTypeOK
  BY <1>1, <1>2 DEF HierarchyTypeOK
<1>4. Layered
  BY <1>1, <1>2 DEF Layered, FitsUnder
<1>5. CopiesBehind
  <2>1. \A c \in Clients : view[c] = entities
    OBVIOUS
  <2>2. \A i \in DOMAIN entities : /\ entities[i].born =< writes
                                  /\ entities[i].rev =< entities[i].rev
    <3> SUFFICES ASSUME NEW i \in DOMAIN entities
                 PROVE  entities[i].born =< writes /\ entities[i].rev =< entities[i].rev
      OBVIOUS
    <3>1. entities[i].born = 0 /\ entities[i].rev \in Nat /\ writes = 0
      BY <1>1 DEF Entity
    <3> QED BY ONLY <3>1
  <2> QED BY ONLY <2>1, <2>2 DEF CopiesBehind
<1> QED BY <1>3, <1>4, <1>5 DEF IInv

(* Every edit of the service and every read of it preserves the invariant, *)
(* and the layers of a layered graph.                                      *)
THEOREM IInvInductive ==
    IInv /\ [HierarchyNext]_hierVars => IInv' /\ (Layered => Layered')
<1> SUFFICES ASSUME IInv, [HierarchyNext]_hierVars PROVE IInv' /\ (Layered => Layered')
  OBVIOUS
<1>1. CASE Create
  BY <1>1, CreateStep DEF Create
<1>2. ASSUME NEW c \in Clients, Edit(c) PROVE IInv' /\ (Layered => Layered')
  BY <1>2, UpdateStep, ReparentStep, MergeStep, SplitStep, DeleteStep DEF Edit
<1>3. ASSUME NEW c \in Clients, Load(c) PROVE IInv' /\ (Layered => Layered')
  BY <1>3, LoadStep
<1>4. CASE UNCHANGED hierVars
  BY <1>4 DEF hierVars, IInv, HierarchyTypeOK, Layered, FitsUnder, CopiesBehind
<1> QED BY <1>1, <1>2, <1>3, <1>4 DEF HierarchyNext

\* The invariant holds in every state of the edits (hierarchy.py).
THEOREM Invariance == HierarchySpec => []IInv
  BY InitIInv, IInvInductive, PTL DEF HierarchySpec

(* The rows, the links and the clients' copies keep their types. *)
THEOREM HierarchyTypeCorrect == HierarchySpec => []HierarchyTypeOK
<1>1. IInv => HierarchyTypeOK
  BY DEF IInv
<1> QED BY <1>1, Invariance, PTL

(* Whatever edits are committed in whatever order, every link joins         *)
(* entities of neighbouring tiers, as long as no job decides.               *)
THEOREM StaysLayered == HierarchySpec => []Layered
  BY InitIInv, IInvInductive, PTL DEF HierarchySpec

(* An edit that _assert_revision accepts is made on the content its author  *)
(* has loaded: no client overwrites another's edit unseen.                  *)
THEOREM NoEditUnseen == HierarchySpec => []RevisionNamesContent
<1>1. IInv => RevisionNamesContent
  BY DEF IInv, CopiesBehind, RevisionNamesContent
<1> QED BY <1>1, Invariance, PTL

-----------------------------------------------------------------------------
(* The inductive invariant *)

\* What the job makes of a row is the row itself or a later revision of it.
LaterRow(e, f) ==
    /\ f.tier = e.tier /\ f.born = e.born
    /\ f.locked = e.locked /\ f.edited = e.edited /\ f.reassigned = e.reassigned
    /\ f = e \/ f.rev > e.rev

JobTypeOK ==
    /\ pending \in Seq(Ids)
    /\ job = [todo |-> job.todo, rows |-> job.rows, links |-> job.links, open |-> job.open,
              misled |-> job.misled]
    /\ job.todo \in Seq(Ids) /\ job.open \in BOOLEAN
    /\ DOMAIN job.rows \subseteq Ids
    /\ \A i \in DOMAIN job.rows : job.rows[i] \in Entity
    /\ Joined(job.rows, job.links)
    /\ job.misled \subseteq {"self", "tier"}

\* The candidates without a decision were pending, as the database still says.
TodoIsPending ==
    \A i \in Range(job.todo) : i \in Range(pending) /\ IsCandidate(i)

\* Every link joins neighbouring tiers.
Fitting(rows, links) == \A r \in links : FitsUnder(rows, r[1], r[2])

\* The working copy has rows of the database or later ones, in the same tiers,
\* layered if they were unless a decision named another tier.
CopyIsLater ==
    /\ DOMAIN job.rows \subseteq DOMAIN entities
    /\ \A k \in DOMAIN job.rows : LaterRow(entities[k], job.rows[k])
    /\ Layered /\ "tier" \notin job.misled => Fitting(job.rows, job.links)

\* It has what the user protects, worded as it was.
CopyProtects ==
    \A k \in DOMAIN entities \ Range(pending) : Guarded(entities[k]) =>
        k \in DOMAIN job.rows /\ job.rows[k].text = entities[k].text

\* It leaves a parent to what had one, if no candidate was its own target.
CopyKeepsParents ==
    "self" \notin job.misled => \A k \in DOMAIN job.rows :
        Parents(parts, k) # {} => Parents(job.links, k) # {}

ReconcileInv ==
    /\ IInv /\ JobTypeOK
    /\ job.open => TodoIsPending /\ CopyIsLater /\ CopyProtects /\ CopyKeepsParents

-----------------------------------------------------------------------------
(* Which ids a job takes: induction over the sequence, as the existence of a *)
(* least counterexample                                                     *)

LEMMA LeastElement ==
    ASSUME NEW S \in SUBSET Nat, S # {}
    PROVE  \E n \in S : \A m \in S : n <= m
<1>1. IsWellFoundedOn(OpToRel(<, Nat), Nat)
  BY NatLessThanWellFounded
<1>2. PICK n \in S : \A m \in S : ~ (<<m, n>> \in OpToRel(<, Nat))
  BY <1>1, WFMin
<1>3. \A m \in S : ~(m < n)
  BY <1>2 DEF OpToRel
<1> QED BY <1>3

\* What the recursive definition in Candidates says at n.
UpTo(s, f, n) ==
    IF n = 0 THEN <<>>
    ELSE IF IsCandidate(s[n]) THEN Append(f[n - 1], s[n]) ELSE f[n - 1]

\* It defines a function.
LEMMA PrefixesExist ==
    ASSUME NEW s, NEW k \in Nat
    PROVE  \E f : f = [n \in 0..k |-> UpTo(s, f, n)]
<1> DEFINE Bad == {m \in Nat : ~ \E f : f = [n \in 0..m |-> UpTo(s, f, n)]}
<1> SUFFICES ASSUME Bad # {} PROVE FALSE
  BY Zenon
<1>1. PICK m \in Bad : \A p \in Bad : m <= p
  BY LeastElement, Zenon
<1>2. m # 0
  <2> SUFFICES ASSUME m = 0 PROVE FALSE
    OBVIOUS
  <2> DEFINE f == [n \in 0..0 |-> <<>>]
  <2>1. \A n \in 0..0 : UpTo(s, f, n) = <<>>
    BY DEF UpTo
  <2>2. f = [n \in 0..0 |-> UpTo(s, f, n)]
    BY <2>1
  <2> QED BY <1>1, <2>2, Zenon
<1>3. m \in Nat /\ m - 1 \in Nat /\ m - 1 \notin Bad
  BY <1>1, <1>2
<1>4. PICK g : g = [n \in 0..(m - 1) |-> UpTo(s, g, n)]
  BY <1>3, Zenon
<1> DEFINE f == [n \in 0..m |-> IF n = m THEN UpTo(s, g, m) ELSE g[n]]
<1>5. \A n \in 0..m : UpTo(s, f, n) = f[n]
  <2> SUFFICES ASSUME NEW n \in 0..m PROVE UpTo(s, f, n) = f[n]
    OBVIOUS
  <2>1. n # 0 => n - 1 \in 0..(m - 1) /\ n - 1 \in 0..m /\ n - 1 # m
    BY <1>3
  <2>2. n # 0 => f[n - 1] = g[n - 1]
    BY <2>1
  <2>3. UpTo(s, f, n) = UpTo(s, g, n)
    BY <2>2 DEF UpTo
  <2>4. n # m => n \in 0..(m - 1)
    BY <1>3
  <2>5. n # m => g[n] = UpTo(s, g, n)
    BY <1>4, <2>4
  <2> QED BY <2>3, <2>5
<1>6. f = [n \in 0..m |-> UpTo(s, f, n)]
  <2> HIDE DEF f
  <2>1. f = [n \in 0..m |-> f[n]]
    BY DEF f
  <2> QED BY <1>5, <2>1
<1> HIDE DEF f
<1> QED BY <1>1, <1>6, Zenon

\* The candidates are pending ids that IsCandidate accepts.
LEMMA CandidatesFacts ==
    ASSUME NEW s \in Seq(Ids)
    PROVE  /\ Candidates(s) \in Seq(Ids)
           /\ \A x \in Range(Candidates(s)) : x \in Range(s) /\ IsCandidate(x)
<1> DEFINE kept == CHOOSE f : f = [n \in 0..Len(s) |-> UpTo(s, f, n)]
<1>1. Len(s) \in Nat /\ \A n \in 1..Len(s) : s[n] \in Ids /\ s[n] \in Range(s)
  BY LenProperties, ElementOfSeq DEF Range
<1>2. kept = [n \in 0..Len(s) |-> UpTo(s, kept, n)]
  BY <1>1, PrefixesExist, Zenon
<1>3. Candidates(s) = kept[Len(s)]
  BY Zenon DEF Candidates, UpTo
<1> HIDE DEF kept
<1> DEFINE Good(q) == q \in Seq(Ids) /\ \A x \in Range(q) : x \in Range(s) /\ IsCandidate(x)
           Bad == {n \in 0..Len(s) : ~Good(kept[n])}
<1>4. Good(<<>>)
  BY DEF Range
<1>5. ASSUME NEW q, Good(q), NEW n \in 1..Len(s), IsCandidate(s[n])
      PROVE  Good(Append(q, s[n]))
  <2>1. /\ Append(q, s[n]) \in Seq(Ids) /\ Len(q) \in Nat
        /\ DOMAIN Append(q, s[n]) = 1..(Len(q) + 1)
        /\ \A i \in 1..Len(q) : Append(q, s[n])[i] = q[i]
        /\ Append(q, s[n])[Len(q) + 1] = s[n]
        /\ DOMAIN q = 1..Len(q)
    BY <1>1, <1>5, AppendProperties, LenProperties
  <2>2. ASSUME NEW x \in Range(Append(q, s[n])) PROVE x \in Range(q) \/ x = s[n]
    <3>1. PICK i \in 1..(Len(q) + 1) : x = Append(q, s[n])[i]
      BY <2>1, <2>2 DEF Range
    <3>2. i \in 1..Len(q) \/ i = Len(q) + 1
      BY <2>1
    <3> QED BY <2>1, <3>1, <3>2 DEF Range
  <2> QED BY <1>1, <1>5, <2>1, <2>2
<1>6. ASSUME Bad # {} PROVE FALSE
  <2>1. Bad \in SUBSET Nat
    BY <1>1
  <2>2. PICK n \in Bad : \A p \in Bad : n <= p
    BY <1>6, <2>1, LeastElement, Zenon
  <2>3. n \in 0..Len(s) /\ ~Good(kept[n]) /\ kept[n] = UpTo(s, kept, n)
    BY <1>2, <2>2
  <2>4. n # 0
    BY <1>4, <2>3 DEF UpTo
  <2>5. n \in 1..Len(s) /\ n - 1 \in 0..Len(s) /\ n - 1 \notin Bad
    BY <1>1, <2>1, <2>2, <2>3, <2>4
  <2>6. Good(kept[n - 1])
    BY <2>5
  <2>7. kept[n] \in {Append(kept[n - 1], s[n]), kept[n - 1]} /\ (IsCandidate(s[n]) \/ kept[n] = kept[n - 1])
    BY <2>3, <2>4 DEF UpTo
  <2> HIDE DEF Good
  <2> QED BY <1>5, <2>3, <2>5, <2>6, <2>7
<1> QED BY <1>1, <1>3, <1>6

-----------------------------------------------------------------------------
(* Rows *)

LEMMA LaterAgain ==
    ASSUME NEW e \in Entity, NEW f \in Entity, NEW g \in Entity,
           LaterRow(e, f), LaterRow(f, g)
    PROVE  LaterRow(e, g)
<1>1. e.rev \in Nat /\ f.rev \in Nat /\ g.rev \in Nat
  BY DEF Entity
<1> QED BY <1>1 DEF LaterRow

LEMMA BumpedRow ==
    ASSUME NEW e \in Entity, NEW n \in Nat, n > 0, NEW text \in Nat
    PROVE  LET u == [e EXCEPT !.rev = e.rev + n, !.text = text]
           IN  u \in Entity /\ LaterRow(e, u) /\ u.text = text
<1>1. e.rev + n \in Nat /\ e.rev + n > e.rev /\ e.rev \in Nat
  BY DEF Entity
<1> DEFINE u == [e EXCEPT !.rev = e.rev + n, !.text = text]
<1>2. u \in Entity
  BY <1>1 DEF Entity
<1>3. /\ u.tier = e.tier /\ u.born = e.born /\ u.locked = e.locked
      /\ u.edited = e.edited /\ u.reassigned = e.reassigned
      /\ u.rev = e.rev + n /\ u.text = text
  BY DEF Entity
<1> QED BY <1>1, <1>2, <1>3 DEF LaterRow

LEMMA ReassignedText ==
    ASSUME NEW e \in Entity
    PROVE  Reassigned(e).text = e.text
BY DEF Entity, Reassigned, Edited

-----------------------------------------------------------------------------
(* Links *)

LEMMA RelativesOf ==
    ASSUME NEW links, NEW i
    PROVE  /\ \A r \in links : r[2] = i => r[1] \in Children(links, i)
           /\ \A r \in links : r[1] = i => r[2] \in Parents(links, i)
           /\ \A k \in Children(links, i) : \E r \in links : r[1] = k /\ r[2] = i
           /\ \A p \in Parents(links, i) : \E r \in links : r[1] = i /\ r[2] = p
BY DEF Children, Parents

\* Moving children from one entity to another keeps links between rows, and
\* layered ones layered if both are of one tier.
LEMMA MovedWellLinked ==
    ASSUME NEW rows, NEW links, Joined(rows, links), NEW source,
           NEW target \in DOMAIN rows
    PROVE  /\ Joined(rows, Moved(links, source, target))
           /\ /\ Fitting(rows, links)
              /\ source \in DOMAIN rows => rows[source].tier = rows[target].tier
              => Fitting(rows, Moved(links, source, target))
<1> DEFINE SameTier == source \in DOMAIN rows => rows[source].tier = rows[target].tier
<1> SUFFICES ASSUME NEW q \in Moved(links, source, target)
             PROVE  /\ q \in (DOMAIN rows) \X (DOMAIN rows)
                    /\ Fitting(rows, links) /\ SameTier => FitsUnder(rows, q[1], q[2])
  BY DEF Joined, Fitting
<1>1. q \in links \/ q \in Children(links, source) \X {target}
  BY DEF Moved
<1>2. CASE q \in links
  BY <1>2 DEF Joined, Fitting
<1>3. CASE q \in Children(links, source) \X {target}
  <2>1. PICK k \in Children(links, source) : q = <<k, target>>
    BY <1>3
  <2>2. PICK r \in links : r[1] = k /\ r[2] = source
    BY RelativesOf
  <2>3. /\ k \in DOMAIN rows /\ source \in DOMAIN rows
        /\ Fitting(rows, links) => rows[source].tier = rows[k].tier + 1
    BY <2>2 DEF Joined, Fitting, FitsUnder
  <2> QED BY <2>1, <2>3 DEF FitsUnder
<1> QED BY <1>1, <1>2, <1>3

LEMMA WithoutWellLinked ==
    ASSUME NEW rows, NEW links, Joined(rows, links), NEW gone, NEW later,
           DOMAIN later = DOMAIN rows \ gone,
           \A k \in DOMAIN later : later[k].tier = rows[k].tier
    PROVE  /\ Joined(later, Without(links, gone))
           /\ Fitting(rows, links) => Fitting(later, Without(links, gone))
<1> SUFFICES ASSUME NEW q \in Without(links, gone)
             PROVE  /\ q \in (DOMAIN later) \X (DOMAIN later)
                    /\ Fitting(rows, links) => FitsUnder(later, q[1], q[2])
  BY DEF Joined, Fitting
<1>1. /\ q \in links /\ q[1] \notin gone /\ q[2] \notin gone
  BY DEF Without
<1>2. /\ q \in (DOMAIN rows) \X (DOMAIN rows)
      /\ Fitting(rows, links) => FitsUnder(rows, q[1], q[2])
  BY <1>1 DEF Joined, Fitting
<1> QED BY <1>1, <1>2 DEF FitsUnder

\* What has a parent has one afterwards, and not the one whose children moved.
LEMMA MovedKeepsParents ==
    ASSUME NEW links, NEW source, NEW target, source # target
    PROVE  /\ \A r \in Moved(links, source, target) :
                  r[2] # source /\ (r \in links \/ r[2] = target)
           /\ \A k : Parents(links, k) # {} => Parents(Moved(links, source, target), k) # {}
<1> DEFINE moved == Moved(links, source, target)
<1>1. \A r \in moved : r[2] # source /\ (r \in links \/ r[2] = target)
  BY DEF Moved
<1>2. ASSUME NEW k, NEW p \in Parents(links, k) PROVE Parents(moved, k) # {}
  <2>1. PICK r \in links : r[1] = k /\ r[2] = p
    BY RelativesOf
  <2>2. CASE p # source
    <3>1. r \in moved
      BY <2>1, <2>2 DEF Moved
    <3> QED BY <2>1, <3>1, RelativesOf
  <2>3. CASE p = source
    <3>1. k \in Children(links, source)
      BY <2>1, <2>3, RelativesOf
    <3>2. <<k, target>> \in moved /\ <<k, target>>[1] = k
      BY <3>1 DEF Moved
    <3> QED BY <3>2, RelativesOf, Zenon
  <2> QED BY <2>2, <2>3
<1> QED BY <1>1, <1>2

-----------------------------------------------------------------------------
(* The steps that leave the database alone *)

LEMMA StillKeepsIInv == IInv /\ UNCHANGED hierVars => IInv' /\ (Layered <=> Layered')
BY DEF IInv, HierarchyTypeOK, Layered, FitsUnder, CopiesBehind, hierVars

\* A job takes the candidates and a copy of the rows and the links.
LEMMA StartJobStep ==
    ASSUME ReconcileInv, StartJob
    PROVE  ReconcileInv'
<1>1. IInv'
  BY StillKeepsIInv DEF ReconcileInv, StartJob
<1>2. /\ job' = [todo |-> Candidates(pending), rows |-> entities, links |-> parts,
                 open |-> TRUE, misled |-> {}]
      /\ entities' = entities /\ parts' = parts /\ pending' = pending
  BY DEF StartJob, hierVars
<1>3. /\ job'.todo = Candidates(pending) /\ job'.rows = entities
      /\ job'.links = parts /\ job'.open = TRUE /\ job'.misled = {}
  BY <1>2
<1>4. /\ pending \in Seq(Ids) /\ Candidates(pending) \in Seq(Ids)
      /\ \A x \in Range(Candidates(pending)) : x \in Range(pending) /\ IsCandidate(x)
  BY CandidatesFacts DEF ReconcileInv, JobTypeOK
<1>5. JobTypeOK'
  BY <1>2, <1>3, <1>4 DEF JobTypeOK, Joined, ReconcileInv, IInv, HierarchyTypeOK
<1>6. TodoIsPending'
  BY <1>2, <1>3, <1>4 DEF TodoIsPending, IsCandidate
<1>7. CopyIsLater'
  BY <1>2, <1>3 DEF CopyIsLater, LaterRow, Layered, Fitting, FitsUnder
<1>8. CopyProtects' /\ CopyKeepsParents'
  BY <1>2, <1>3 DEF CopyProtects, CopyKeepsParents
<1> QED BY <1>1, <1>5, <1>6, <1>7, <1>8 DEF ReconcileInv

\* What any decision leaves: the rest of the candidates, later rows, links
\* between rows, layered and with all parents if it was not misled.
LEMMA DecisionKeepsInv ==
    ASSUME ReconcileInv, job.open, job.todo # <<>>,
           UNCHANGED <<hierVars, pending>>,
           NEW rows, NEW links, NEW misled \in SUBSET {"self", "tier"},
           job' = [todo |-> Tail(job.todo), rows |-> rows, links |-> links,
                   open |-> job.open, misled |-> misled],
           job.misled \subseteq misled,
           DOMAIN rows \subseteq DOMAIN job.rows,
           \A k \in DOMAIN rows : rows[k] \in Entity /\ LaterRow(job.rows[k], rows[k]),
           Joined(rows, links),
           "tier" \notin misled /\ Fitting(job.rows, job.links) => Fitting(rows, links),
           \A k \in DOMAIN job.rows \ Range(pending) : Guarded(job.rows[k]) =>
               k \in DOMAIN rows /\ rows[k].text = job.rows[k].text,
           "self" \notin misled => \A k \in DOMAIN rows :
               Parents(job.links, k) # {} => Parents(links, k) # {}
    PROVE  ReconcileInv'
<1>1. IInv' /\ (Layered <=> Layered')
  BY StillKeepsIInv DEF ReconcileInv
<1>2. /\ job'.todo = Tail(job.todo) /\ job'.rows = rows
      /\ job'.links = links /\ job'.open = job.open /\ job'.misled = misled
  OBVIOUS
<1>3. /\ entities' = entities /\ parts' = parts /\ pending' = pending
  BY DEF hierVars
<1>4. JobTypeOK /\ TodoIsPending /\ CopyIsLater /\ CopyProtects /\ CopyKeepsParents
  BY DEF ReconcileInv
<1>5. /\ job.todo \in Seq(Ids) /\ Tail(job.todo) \in Seq(Ids)
      /\ Range(Tail(job.todo)) \subseteq Range(job.todo)
  <2>1. job.todo \in Seq(Ids)
    BY <1>4 DEF JobTypeOK
  <2>2. /\ Tail(job.todo) \in Seq(Ids) /\ Len(job.todo) \in Nat \ {0}
        /\ Len(Tail(job.todo)) = Len(job.todo) - 1
        /\ \A i \in 1..Len(Tail(job.todo)) : Tail(job.todo)[i] = job.todo[i + 1]
    BY <2>1, HeadTailProperties, EmptySeq, LenProperties
  <2>3. DOMAIN Tail(job.todo) = 1..(Len(job.todo) - 1) /\ DOMAIN job.todo = 1..Len(job.todo)
    BY <2>1, <2>2, LenProperties
  <2>4. ASSUME NEW x \in Range(Tail(job.todo)) PROVE x \in Range(job.todo)
    <3>1. PICK i \in 1..(Len(job.todo) - 1) : x = Tail(job.todo)[i]
      BY <2>3, <2>4 DEF Range
    <3>2. i + 1 \in 1..Len(job.todo) /\ x = job.todo[i + 1]
      BY <2>2, <3>1
    <3> QED BY <2>3, <3>2 DEF Range
  <2> QED BY <2>1, <2>2, <2>4
<1>6. JobTypeOK'
  BY <1>2, <1>3, <1>4, <1>5 DEF JobTypeOK
<1>7. TodoIsPending'
  BY <1>2, <1>3, <1>4, <1>5 DEF TodoIsPending, IsCandidate
<1>8. CopyIsLater'
  <2>1. ASSUME NEW k \in DOMAIN rows PROVE LaterRow(entities[k], rows[k])
    <3>1. k \in DOMAIN job.rows /\ k \in DOMAIN entities
      BY <1>4 DEF CopyIsLater
    <3>2. entities[k] \in Entity /\ job.rows[k] \in Entity /\ rows[k] \in Entity
      BY <1>4, <3>1 DEF JobTypeOK, ReconcileInv, IInv, HierarchyTypeOK
    <3>3. LaterRow(entities[k], job.rows[k]) /\ LaterRow(job.rows[k], rows[k])
      BY <1>4, <3>1 DEF CopyIsLater
    <3> QED BY <3>2, <3>3, LaterAgain
  <2>2. Layered' /\ "tier" \notin misled => Fitting(rows, links)
    BY <1>1, <1>4 DEF CopyIsLater
  <2> QED BY <1>2, <1>3, <1>4, <2>1, <2>2 DEF CopyIsLater
<1>9. CopyProtects'
  <2>1. ASSUME NEW k \in DOMAIN entities \ Range(pending), Guarded(entities[k])
        PROVE  k \in DOMAIN rows /\ rows[k].text = entities[k].text
    <3>1. k \in DOMAIN job.rows /\ job.rows[k].text = entities[k].text
      BY <1>4, <2>1 DEF CopyProtects
    <3>2. Guarded(job.rows[k])
      BY <1>4, <2>1, <3>1 DEF CopyIsLater, LaterRow, Guarded
    <3> QED BY <3>1, <3>2
  <2> QED BY <1>2, <1>3, <2>1 DEF CopyProtects
<1>10. CopyKeepsParents'
  BY <1>2, <1>3, <1>4 DEF CopyKeepsParents
<1> QED BY <1>1, <1>6, <1>7, <1>8, <1>9, <1>10 DEF ReconcileInv

\* The candidate that a decision is about.
LEMMA HeadIsPending ==
    ASSUME ReconcileInv, job.open, job.todo # <<>>
    PROVE  /\ Head(job.todo) \in Range(pending)
           /\ Head(job.todo) \in DOMAIN entities
           /\ entities[Head(job.todo)].tier = ActivityTier
           /\ Head(job.todo) \in DOMAIN job.rows =>
                  job.rows[Head(job.todo)].tier = ActivityTier
<1>1. JobTypeOK /\ TodoIsPending /\ CopyIsLater
  BY DEF ReconcileInv
<1>2. Head(job.todo) \in Range(job.todo)
  <2>1. Len(job.todo) \in Nat \ {0} /\ DOMAIN job.todo = 1..Len(job.todo)
        /\ Head(job.todo) = job.todo[1]
    BY <1>1, HeadTailProperties, EmptySeq, LenProperties DEF JobTypeOK
  <2> QED BY <2>1 DEF Range
<1> QED BY <1>1, <1>2 DEF TodoIsPending, CopyIsLater, LaterRow, IsCandidate

LEMMA JobShape ==
    ASSUME JobTypeOK, NEW todo, NEW rows, NEW links, NEW misled
    PROVE  /\ [job EXCEPT !.todo = todo] =
                  [todo |-> todo, rows |-> job.rows, links |-> job.links,
                   open |-> job.open, misled |-> job.misled]
           /\ [job EXCEPT !.todo = todo, !.rows = rows] =
                  [todo |-> todo, rows |-> rows, links |-> job.links,
                   open |-> job.open, misled |-> job.misled]
           /\ [job EXCEPT !.todo = todo, !.links = links, !.misled = misled, !.rows = rows] =
                  [todo |-> todo, rows |-> rows, links |-> links,
                   open |-> job.open, misled |-> misled]
<1>1. PICK t, r, l, o, m :
          job = [todo |-> t, rows |-> r, links |-> l, open |-> o, misled |-> m]
  BY Zenon DEF JobTypeOK
<1>2. job.rows = r /\ job.links = l /\ job.open = o /\ job.misled = m
  BY <1>1
<1> DEFINE f == [job EXCEPT !.todo = todo]
           g == [f EXCEPT !.links = links]
           h == [g EXCEPT !.misled = misled]
<1>3. f = [todo |-> todo, rows |-> r, links |-> l, open |-> o, misled |-> m]
  BY <1>1
<1>4. /\ [job EXCEPT !.todo = todo, !.rows = rows] = [f EXCEPT !.rows = rows]
      /\ [job EXCEPT !.todo = todo, !.links = links, !.misled = misled, !.rows = rows]
             = [h EXCEPT !.rows = rows]
  BY Zenon
<1>5. f = [job EXCEPT !.todo = todo]
  OBVIOUS
<1> HIDE DEF f
<1>6. [f EXCEPT !.rows = rows] =
          [todo |-> todo, rows |-> rows, links |-> l, open |-> o, misled |-> m]
  BY <1>3
<1>7. g = [todo |-> todo, rows |-> r, links |-> links, open |-> o, misled |-> m]
  BY <1>3
<1> HIDE DEF g
<1>9. h = [todo |-> todo, rows |-> r, links |-> links, open |-> o, misled |-> misled]
  BY <1>7
<1> HIDE DEF h
<1>8. [h EXCEPT !.rows = rows] =
          [todo |-> todo, rows |-> rows, links |-> links, open |-> o, misled |-> misled]
  BY <1>9
<1> QED BY ONLY <1>2, <1>3, <1>4, <1>5, <1>6, <1>8, Zenon

LEMMA SkipCandidateStep ==
    ASSUME ReconcileInv, job.open, job.todo # <<>>, SkipCandidate,
           UNCHANGED <<hierVars, pending>>
    PROVE  ReconcileInv'
<1>1. JobTypeOK /\ CopyIsLater
  BY DEF ReconcileInv
<1>2. job' = [todo |-> Tail(job.todo), rows |-> job.rows, links |-> job.links,
              open |-> job.open, misled |-> job.misled]
  BY <1>1, JobShape DEF SkipCandidate
<1>3. Joined(job.rows, job.links) /\ job.misled \subseteq {"self", "tier"}
  BY <1>1 DEF JobTypeOK
<1>4. \A k \in DOMAIN job.rows : job.rows[k] \in Entity /\ LaterRow(job.rows[k], job.rows[k])
  BY <1>1 DEF JobTypeOK, LaterRow
<1> QED BY <1>2, <1>3, <1>4, DecisionKeepsInv

LEMMA DecideNewStep ==
    ASSUME ReconcileInv, job.open, job.todo # <<>>, NEW relabel \in BOOLEAN,
           DecideNew(relabel), UNCHANGED <<hierVars, pending>>
    PROVE  ReconcileInv'
<1> DEFINE cand == Head(job.todo)
           text == IF relabel THEN writes + 1 ELSE job.rows[cand].text
           by   == 1 + MarkIf(relabel)
           row  == [job.rows[cand] EXCEPT !.rev = job.rows[cand].rev + by, !.text = text]
           rows == [job.rows EXCEPT ![cand] = row]
<1>1. JobTypeOK /\ CopyIsLater /\ cand \in DOMAIN job.rows /\ writes \in Nat
  BY DEF ReconcileInv, DecideNew, IInv, HierarchyTypeOK
<1>2. job.rows[cand] \in Entity /\ by \in Nat /\ by > 0 /\ text \in Nat
  BY <1>1 DEF JobTypeOK, MarkIf, Entity
<1>3. row \in Entity /\ LaterRow(job.rows[cand], row)
  <2> HIDE DEF text, by
  <2> QED BY <1>2, BumpedRow
<1>4. job' = [job EXCEPT !.todo = Tail(job.todo), !.rows = rows]
  <2>1. job' = [job EXCEPT !.todo = Tail(@), !.rows[cand].rev  = @ + 1 + MarkIf(relabel),
                           !.rows[cand].text = IF relabel THEN writes + 1 ELSE @]
    BY DEF DecideNew
  <2>2. job.rows[cand].rev + 1 + MarkIf(relabel) = job.rows[cand].rev + by
    BY <1>2 DEF Entity, MarkIf
  <2> QED BY <1>1, <1>2, <2>1, <2>2 DEF JobTypeOK, Entity
<1> HIDE DEF row
<1>5. /\ DOMAIN rows = DOMAIN job.rows /\ rows[cand] = row
      /\ \A k \in DOMAIN rows : k # cand => rows[k] = job.rows[k]
  BY <1>1
<1> HIDE DEF rows
<1>6. job' = [todo |-> Tail(job.todo), rows |-> rows, links |-> job.links,
              open |-> job.open, misled |-> job.misled]
  BY <1>1, <1>4, JobShape
<1>7. \A k \in DOMAIN rows : rows[k] \in Entity /\ LaterRow(job.rows[k], rows[k])
  BY <1>1, <1>3, <1>5 DEF JobTypeOK, LaterRow
<1>8. /\ Joined(rows, job.links) /\ job.misled \subseteq {"self", "tier"}
      /\ Fitting(job.rows, job.links) => Fitting(rows, job.links)
  BY <1>1, <1>5, <1>7 DEF Joined, Fitting, JobTypeOK, FitsUnder, LaterRow
<1>9. cand \in Range(pending)
  BY HeadIsPending
<1>10. \A k \in DOMAIN job.rows \ Range(pending) : Guarded(job.rows[k]) =>
            k \in DOMAIN rows /\ rows[k].text = job.rows[k].text
  BY <1>5, <1>9
<1>11. \A k \in DOMAIN rows : Parents(job.links, k) # {} => Parents(job.links, k) # {}
  OBVIOUS
<1> QED BY <1>5, <1>6, <1>7, <1>8, <1>10, <1>11, DecisionKeepsInv

LEMMA DecideTargetStep ==
    ASSUME ReconcileInv, job.open, job.todo # <<>>,
           NEW decision, NEW target \in DOMAIN job.rows, NEW relabel \in BOOLEAN,
           NEW other \in (DOMAIN job.rows \ {target, Head(job.todo)}) \cup {NoId},
           DecideTarget(decision, target, relabel, other),
           UNCHANGED <<hierVars, pending>>
    PROVE  ReconcileInv'
<1> DEFINE cand  == Head(job.todo)
           meant == IF target = cand THEN "new"
                    ELSE IF decision = "merge" /\ (entities[cand].locked \/ job.rows[target].locked)
                         THEN "match" ELSE decision
           named == /\ relabel /\ meant \in {"revise", "merge"}
                    /\ ~Guarded(job.rows[target])
           links1 == Moved(job.links, cand, target)
           takes  == /\ other # NoId /\ ~RefusesMerge(job.rows[other], job.rows[target])
           links2 == IF takes THEN Moved(links1, other, target) ELSE links1
           gone   == {cand} \cup (IF takes THEN {other} ELSE {})
           away   == {k \in {target} \cup (IF takes THEN {other} ELSE {}) :
                          job.rows[k].tier # ActivityTier}
           misled == job.misled \cup (IF target = cand THEN {"self"} ELSE {})
                                \cup (IF away # {} THEN {"tier"} ELSE {})
           bumps  == 1 + MarkIf(MovesAny(job.links, cand, target)) + MarkIf(named)
                       + (IF takes THEN 1 + MarkIf(MovesAny(links1, other, target)) ELSE 0)
           text   == IF named THEN writes + 1 ELSE job.rows[target].text
           row    == [job.rows[target] EXCEPT !.rev = job.rows[target].rev + bumps, !.text = text]
           rows   == [k \in DOMAIN job.rows \ gone |-> IF k = target THEN row ELSE job.rows[k]]
<1>1. JobTypeOK /\ CopyIsLater /\ writes \in Nat
  BY DEF ReconcileInv, IInv, HierarchyTypeOK
<1>2. job.rows[target] \in Entity
  BY <1>1 DEF JobTypeOK
<1>3. takes => /\ other \in DOMAIN job.rows
               /\ other # target /\ other # cand /\ ~Guarded(job.rows[other])
  BY DEF RefusesMerge
<1>16. /\ misled \in SUBSET {"self", "tier"} /\ job.misled \subseteq misled
       /\ "self" \notin misled => target # cand
       /\ "tier" \notin misled => /\ job.rows[target].tier = ActivityTier
                                  /\ takes => job.rows[other].tier = ActivityTier
  <2> HIDE DEF takes
  <2> QED BY <1>1 DEF JobTypeOK
<1>4. /\ cand \in Range(pending)
      /\ cand \in DOMAIN job.rows => job.rows[cand].tier = ActivityTier
  BY HeadIsPending
<1>5. bumps \in Nat /\ bumps > 0
  <2>1. \A b : MarkIf(b) \in {0, 1}
    BY DEF MarkIf
  <2> DEFINE x == MarkIf(MovesAny(job.links, cand, target))
             y == MarkIf(named)
             z == MarkIf(MovesAny(links1, other, target))
  <2>2. x \in {0, 1} /\ y \in {0, 1} /\ z \in {0, 1}
    BY ONLY <2>1, Zenon
  <2>3. bumps = 1 + x + y + (IF takes THEN 1 + z ELSE 0)
    OBVIOUS
  <2> HIDE DEF x, y, z
  <2> HIDE DEF bumps, takes
  <2> QED BY <2>2, <2>3
<1>6. text \in Nat /\ (text = job.rows[target].text \/ ~Guarded(job.rows[target]))
  BY <1>1, <1>2 DEF Entity
<1>7. job' = [job EXCEPT !.todo = Tail(job.todo), !.links = Without(links2, gone),
                         !.misled = misled, !.rows = rows]
  BY Zenon DEF DecideTarget
<1> HIDE DEF bumps, text, named, meant, takes, misled
<1>8. row \in Entity /\ LaterRow(job.rows[target], row) /\ row.text = text
  BY <1>2, <1>5, <1>6, BumpedRow
<1>9. /\ DOMAIN rows = DOMAIN job.rows \ gone
      /\ \A k \in DOMAIN rows : k # target => rows[k] = job.rows[k]
      /\ target \in DOMAIN rows => rows[target] = row
  <2> HIDE DEF row, gone
  <2> QED OBVIOUS
<1> HIDE DEF row, rows
<1>10. \A k \in DOMAIN rows : rows[k] \in Entity /\ LaterRow(job.rows[k], rows[k])
  BY <1>1, <1>8, <1>9 DEF JobTypeOK, LaterRow
<1>11. /\ Joined(rows, Without(links2, gone))
       /\ "tier" \notin misled /\ Fitting(job.rows, job.links)
              => Fitting(rows, Without(links2, gone))
  <2> DEFINE Fits == "tier" \notin misled /\ Fitting(job.rows, job.links)
  <2>1. Joined(job.rows, job.links)
    BY <1>1 DEF JobTypeOK
  <2>2. Joined(job.rows, links1) /\ (Fits => Fitting(job.rows, links1))
    BY <1>4, <1>16, <2>1, MovedWellLinked
  <2> HIDE DEF links1
  <2>3. Joined(job.rows, links2) /\ (Fits => Fitting(job.rows, links2))
    <3>1. CASE takes
      BY <1>3, <1>16, <2>2, <3>1, MovedWellLinked
    <3> QED BY <2>2, <3>1
  <2>4. \A k \in DOMAIN rows : rows[k].tier = job.rows[k].tier
    BY <1>10 DEF LaterRow
  <2> HIDE DEF links2, gone
  <2> QED BY <1>9, <2>3, <2>4, WithoutWellLinked
<1>12. \A k \in DOMAIN job.rows \ Range(pending) : Guarded(job.rows[k]) =>
           k \in DOMAIN rows /\ rows[k].text = job.rows[k].text
  <2> SUFFICES ASSUME NEW k \in DOMAIN job.rows \ Range(pending), Guarded(job.rows[k])
               PROVE  k \in DOMAIN rows /\ rows[k].text = job.rows[k].text
    OBVIOUS
  <2>1. k \notin gone
    BY <1>3, <1>4
  <2> QED BY <1>6, <1>8, <1>9, <2>1
<1>13. ASSUME "self" \notin misled, NEW k \in DOMAIN rows, Parents(job.links, k) # {}
       PROVE  Parents(Without(links2, gone), k) # {}
  <2>1. target # cand
    BY <1>13, <1>16
  <2>2. /\ \A r \in links1 : r[2] # cand
        /\ Parents(links1, k) # {}
    BY <1>13, <2>1, MovedKeepsParents
  <2> HIDE DEF links1
  <2>3. /\ \A r \in links2 : r[2] \notin gone
        /\ Parents(links2, k) # {}
    <3>1. CASE takes
      BY <1>3, <2>1, <2>2, <3>1, MovedKeepsParents
    <3> QED BY <2>2, <3>1
  <2>4. PICK r \in links2 : r[1] = k
    BY <2>3, RelativesOf
  <2>5. r \in Without(links2, gone)
    BY <1>9, <1>13, <2>3, <2>4 DEF Without
  <2> HIDE DEF links2, gone
  <2> QED BY <2>4, <2>5, RelativesOf
<1>14. job' = [todo |-> Tail(job.todo), rows |-> rows, links |-> Without(links2, gone),
               open |-> job.open, misled |-> misled]
  <2> HIDE DEF links2, gone
  <2> QED BY <1>1, <1>7, JobShape
<1>15. DOMAIN rows \subseteq DOMAIN job.rows
  BY <1>9
<1> HIDE DEF links2, gone
<1> QED BY <1>10, <1>11, <1>12, <1>13, <1>14, <1>15, <1>16, DecisionKeepsInv

LEMMA DecideStep ==
    ASSUME ReconcileInv, Decide
    PROVE  ReconcileInv'
BY DecideTargetStep, DecideNewStep, SkipCandidateStep DEF Decide

-----------------------------------------------------------------------------
(* The steps that write *)

LEMMA IdleFacts ==
    /\ Idle = [todo |-> Idle.todo, rows |-> Idle.rows, links |-> Idle.links, open |-> Idle.open,
               misled |-> Idle.misled]
    /\ Idle.todo \in Seq(Ids) /\ ~Idle.open /\ Idle.open \in BOOLEAN
    /\ DOMAIN Idle.rows = {} /\ Idle.links = {} /\ Idle.misled = {}
BY EmptySeq DEF Idle

\* Afterwards no job holds the session.
LEMMA JobEnds ==
    ASSUME JobTypeOK, pending' \in {<<>>, pending}, job' = Idle
    PROVE  JobTypeOK' /\ ~job'.open
<1>1. pending' \in Seq(Ids)
  BY EmptySeq DEF JobTypeOK
<1> QED BY <1>1, IdleFacts DEF JobTypeOK, Joined

\* A commit is one more edit: what the copy says are rows that advance.
LEMMA CommitJobStep ==
    ASSUME ReconcileInv, CommitJob
    PROVE  ReconcileInv' /\ (Layered => Layered' \/ "tier" \in job.misled)
<1>1. /\ IInv /\ JobTypeOK /\ CopyIsLater
      /\ entities' = job.rows /\ parts' = job.links /\ Committed /\ view' = view
      /\ pending' \in {<<>>, pending} /\ job' = Idle
  BY DEF ReconcileInv, CommitJob
<1>2. RowsTyped /\ RowsAdvance
  BY <1>1 DEF RowsTyped, RowsAdvance, JobTypeOK, CopyIsLater, LaterRow
<1>3. /\ Joined(entities', parts')
      /\ Layered => Layered' \/ "tier" \in job.misled
  BY <1>1 DEF Layered, JobTypeOK, CopyIsLater, Fitting, FitsUnder
<1>4. IInv'
  BY <1>1, <1>2, <1>3, EditKeepsIInv
<1>5. JobTypeOK' /\ ~job'.open
  BY <1>1, JobEnds
<1> QED BY <1>3, <1>4, <1>5 DEF ReconcileInv

LEMMA EndWithoutCommit ==
    ASSUME ReconcileInv, FailJob \/ CancelJob
    PROVE  ReconcileInv'
<1>1. /\ UNCHANGED hierVars
      /\ pending' \in {<<>>, pending} /\ job' = Idle
  BY DEF FailJob, CancelJob
<1>2. IInv' /\ JobTypeOK
  BY <1>1, StillKeepsIInv DEF ReconcileInv
<1>3. JobTypeOK' /\ ~job'.open
  BY <1>1, <1>2, JobEnds
<1> QED BY <1>2, <1>3 DEF ReconcileInv

\* A proposed activity is a new row above its actions.
LEMMA ProposeStep ==
    ASSUME ReconcileInv, Propose
    PROVE  ReconcileInv' /\ (Layered => Layered')
<1>1. PICK n \in Ids, actions \in SUBSET Actions \ {{}} :
          \E rev \in Cardinality(actions)..(2 * Cardinality(actions)) :
              ProposeActivity(n, actions, rev)
  BY DEF Propose
<1>2. PICK rev \in Cardinality(actions)..(2 * Cardinality(actions)) :
          ProposeActivity(n, actions, rev)
  BY <1>1
<1> DEFINE new == NewEntity(ActivityTier, FALSE, writes + 1)
           row == [new EXCEPT !.rev = rev]
<1>3. /\ IInv /\ HierarchyTypeOK /\ JobTypeOK
  BY DEF ReconcileInv, IInv
<1>4. rev \in Nat
  <2>1. IsFiniteSet(Ids)
    BY HierarchyAssumption, FS_Interval DEF Ids
  <2>2. actions \subseteq Ids
    BY <1>3 DEF Actions, HierarchyTypeOK
  <2>3. Cardinality(actions) \in Nat
    BY <2>1, <2>2, FS_Subset, FS_CardinalityType
  <2> QED BY <2>3
<1>5. row \in Entity /\ row.tier = ActivityTier /\ row.born = writes + 1
  <2>1. writes + 1 \in Nat /\ ActivityTier \in Tiers
    BY <1>3, ReconcileAssumption DEF HierarchyTypeOK
  <2>2. new \in Entity /\ new.tier = ActivityTier /\ new.born = writes + 1
    BY <2>1, CreatedRow
  <2> HIDE DEF new
  <2> QED BY <1>4, <2>2 DEF Entity
<1>6. /\ entities' = [k \in DOMAIN entities \cup {n} |-> IF k = n THEN row ELSE entities[k]]
      /\ parts' = parts \cup (actions \X {n}) /\ Committed /\ view' = view
      /\ ~job.open /\ job' = job /\ pending' = Append(pending, n)
  BY <1>2 DEF ProposeActivity
<1>7. n \notin DOMAIN entities
  <2>1. \A k \in DOMAIN entities : k \in Int /\ k < n
    BY <1>2, <1>3 DEF HierarchyTypeOK, ProposeActivity, IsNextId, Ids
  <2> QED BY <2>1 DEF Ids
<1> HIDE DEF row
<1>8. /\ DOMAIN entities' = DOMAIN entities \cup {n} /\ entities'[n] = row
      /\ \A k \in DOMAIN entities : entities'[k] = entities[k]
  BY <1>6, <1>7
<1>9. RowsTyped /\ RowsAdvance
  BY <1>3, <1>5, <1>8 DEF RowsTyped, RowsAdvance, HierarchyTypeOK
<1>10. Joined(entities', parts') /\ (Layered => Layered')
  <2>1. \A k \in actions : /\ k \in DOMAIN entities
                           /\ entities'[n].tier = entities'[k].tier + 1
    <3>1. ActivityTier \in Int
      BY ReconcileAssumption DEF Tiers
    <3> QED BY <1>5, <1>8, <3>1 DEF Actions
  <2>2. ASSUME NEW q \in parts'
        PROVE  /\ q \in (DOMAIN entities') \X (DOMAIN entities')
               /\ Layered => entities'[q[2]].tier = entities'[q[1]].tier + 1
    <3>1. CASE q \in parts
      BY <1>3, <1>8, <3>1, LinkEnds
    <3>2. CASE q \in actions \X {n}
      <4>1. PICK k \in actions : q = <<k, n>>
        BY <3>2
      <4> QED BY <1>8, <2>1, <4>1
    <3> QED BY <1>6, <3>1, <3>2
  <2> QED BY <2>2 DEF Joined, Layered, FitsUnder
<1>11. IInv'
  BY <1>3, <1>6, <1>9, <1>10, EditKeepsIInv
<1>12. JobTypeOK' /\ ~job'.open
  <2>1. Append(pending, n) \in Seq(Ids)
    BY <1>3, AppendProperties DEF JobTypeOK
  <2> QED BY <1>3, <1>6, <2>1 DEF JobTypeOK
<1> QED BY <1>10, <1>11, <1>12 DEF ReconcileInv

LEMMA UserStepKeepsInv ==
    ASSUME ReconcileInv, UserStep
    PROVE  ReconcileInv' /\ (Layered => Layered')
<1>1. ~job.open /\ HierarchyNext /\ job' = job /\ pending' = pending
  BY DEF UserStep
<1>2. IInv' /\ (Layered => Layered')
  BY <1>1, IInvInductive DEF ReconcileInv
<1>3. JobTypeOK'
  BY <1>1 DEF ReconcileInv, JobTypeOK
<1> QED BY <1>1, <1>2, <1>3 DEF ReconcileInv

-----------------------------------------------------------------------------
(* Invariance *)

LEMMA InitReconcileInv == ReconcileInit => ReconcileInv
<1> SUFFICES ASSUME ReconcileInit PROVE ReconcileInv
  OBVIOUS
<1>1. HierarchyInit /\ pending = SeedPending /\ job = Idle
  BY DEF ReconcileInit
<1>2. IInv
  BY <1>1, InitIInv
<1>3. SeedPending \in Seq(Ids)
  <2>1. SeedPending \in Seq(DOMAIN SeedTier) /\ DOMAIN SeedTier \subseteq Ids
    BY ReconcileAssumption, HierarchyAssumption
  <2> QED BY <2>1, SeqMonotonic
<1>4. JobTypeOK /\ ~job.open
  BY <1>1, <1>3, IdleFacts DEF JobTypeOK, Joined
<1> QED BY <1>2, <1>4 DEF ReconcileInv

(* Every edit, every proposal and every step of the job preserves the        *)
(* invariant of the edits and what it takes beside them.                     *)
THEOREM ReconcileInvInductive ==
    ReconcileInv /\ [ReconcileNext]_allVars => ReconcileInv'
<1> SUFFICES ASSUME ReconcileInv, [ReconcileNext]_allVars PROVE ReconcileInv'
  OBVIOUS
<1>1. CASE UserStep
  BY <1>1, UserStepKeepsInv
<1>2. CASE Propose
  BY <1>2, ProposeStep
<1>3. CASE StartJob
  BY <1>3, StartJobStep
<1>4. CASE Decide
  BY <1>4, DecideStep
<1>5. CASE CommitJob
  BY <1>5, CommitJobStep
<1>6. CASE FailJob \/ CancelJob
  BY <1>6, EndWithoutCommit
<1>7. CASE UNCHANGED allVars
  <2>1. UNCHANGED hierVars /\ pending' = pending /\ job' = job
    BY <1>7 DEF allVars
  <2>2. entities' = entities /\ parts' = parts
    BY <2>1 DEF hierVars
  <2>3. IInv' /\ (Layered <=> Layered')
    BY <2>1, StillKeepsIInv DEF ReconcileInv
  <2>4. JobTypeOK'
    BY <2>1 DEF ReconcileInv, JobTypeOK
  <2>5. ASSUME job.open
        PROVE  (TodoIsPending /\ CopyIsLater /\ CopyProtects /\ CopyKeepsParents)'
    <3>1. (TodoIsPending /\ CopyProtects /\ CopyKeepsParents)'
      BY <2>1, <2>2, <2>5 DEF ReconcileInv, TodoIsPending, CopyProtects,
                              CopyKeepsParents, IsCandidate, Guarded
    <3>2. CopyIsLater'
      BY <2>1, <2>2, <2>3, <2>5 DEF ReconcileInv, CopyIsLater, LaterRow, Fitting, FitsUnder
    <3> QED BY <3>1, <3>2
  <2> QED BY <2>1, <2>3, <2>4, <2>5 DEF ReconcileInv
<1> QED BY <1>1, <1>2, <1>3, <1>4, <1>5, <1>6, <1>7 DEF ReconcileNext

\* The invariant holds in every state of edits, proposals and jobs.
THEOREM ReconcileInvariance == ReconcileSpec => []ReconcileInv
  BY InitReconcileInv, ReconcileInvInductive, PTL DEF ReconcileSpec

-----------------------------------------------------------------------------
(* What the edits leave *)

ParentsKept ==
    \A k \in DOMAIN entities \cap DOMAIN entities' :
        Parents(parts, k) # {} => Parents(parts', k) # {}

LockedKept ==
    \A i \in DOMAIN entities : entities[i].locked =>
        /\ i \in DOMAIN entities'
        /\ entities'[i].text = entities[i].text /\ entities'[i].born = entities[i].born

\* A row that is not locked, or is itself or reassigned, is no concern of LockedKept.
LEMMA LockedRowsKept ==
    ASSUME HierarchyTypeOK,
           \A i \in DOMAIN entities : entities[i].locked =>
               /\ i \in DOMAIN entities'
               /\ entities'[i] \in {entities[i], Reassigned(entities[i])}
    PROVE  LockedKept
<1>1. \A i \in DOMAIN entities : entities[i] \in Entity
  BY DEF HierarchyTypeOK
<1>2. \A i \in DOMAIN entities : /\ Reassigned(entities[i]).text = entities[i].text
                                /\ Reassigned(entities[i]).born = entities[i].born
  BY <1>1, ReassignedText, ReassignedRow
<1> QED BY <1>2 DEF LockedKept

\* A link that is kept keeps its child's parent.
LEMMA LinksKept ==
    ASSUME \A r \in parts : r[1] \in DOMAIN entities' =>
               \E q \in parts' : q[1] = r[1]
    PROVE  ParentsKept
<1> SUFFICES ASSUME NEW k \in DOMAIN entities \cap DOMAIN entities', Parents(parts, k) # {}
             PROVE  Parents(parts', k) # {}
  BY DEF ParentsKept
<1>1. PICK r \in parts : r[1] = k
  BY RelativesOf
<1>2. PICK q \in parts' : q[1] = k
  BY <1>1
<1> QED BY <1>2, RelativesOf

LEMMA UpdateKeeps ==
    ASSUME IInv, NEW c \in Clients, NEW i \in DOMAIN entities,
           NEW newText \in BOOLEAN, NEW lock \in {"keep", "lock", "unlock"},
           UpdateEntity(c, i, newText, lock)
    PROVE  ParentsKept /\ LockedKept
<1> DEFINE row == [Edited(entities[i]) EXCEPT
                      !.text   = IF newText THEN writes + 1 ELSE entities[i].text,
                      !.locked = IF lock = "keep" THEN entities[i].locked ELSE lock = "lock"]
<1>1. /\ entities' = [entities EXCEPT ![i] = row] /\ parts' = parts
      /\ entities[i].locked => ~newText
  BY DEF UpdateEntity
<1>2. row.text = (IF newText THEN writes + 1 ELSE entities[i].text) /\ row.born = entities[i].born
  <2>1. entities[i] \in Entity
    BY DEF IInv, HierarchyTypeOK
  <2> QED BY <2>1 DEF Edited, Entity
<1> HIDE DEF row
<1>3. /\ DOMAIN entities' = DOMAIN entities /\ entities'[i] = row
      /\ \A k \in DOMAIN entities : k # i => entities'[k] = entities[k]
  BY <1>1
<1>4. LockedKept
  BY <1>1, <1>2, <1>3 DEF LockedKept
<1> QED BY <1>1, <1>4, LinksKept

LEMMA ReparentKeeps ==
    ASSUME IInv, NEW c \in Clients, NEW i \in DOMAIN entities,
           NEW p \in DOMAIN entities, ReparentEntity(c, i, p)
    PROVE  ParentsKept /\ LockedKept
<1>1. /\ entities' = [entities EXCEPT ![i] = Reassigned(entities[i])]
      /\ parts' = {r \in parts : r[1] # i} \cup {<<i, p>>}
  BY DEF ReparentEntity
<1>2. LockedKept
  BY <1>1, LockedRowsKept DEF IInv
<1>3. ASSUME NEW r \in parts PROVE \E q \in parts' : q[1] = r[1]
  <2>1. CASE r[1] # i
    BY <1>1, <2>1
  <2>2. CASE r[1] = i
    <3>1. <<i, p>> \in parts' /\ <<i, p>>[1] = i
      BY <1>1
    <3> QED BY <2>2, <3>1, Zenon
  <2> QED BY <2>1, <2>2
<1> QED BY <1>2, <1>3, LinksKept

LEMMA MergeKeeps ==
    ASSUME IInv, NEW c \in Clients, NEW s \in DOMAIN entities,
           NEW others \in SUBSET DOMAIN entities, MergeEntities(c, s, others)
    PROVE  (Layered => ParentsKept) /\ LockedKept
<1> DEFINE merged == others \cup {s}
           moved  == {k \in UNION {Children(parts, o) : o \in others} \ merged :
                         FitsUnder(entities, k, s)}
           row    == [Edited(entities[s]) EXCEPT !.text = writes + 1]
           into(i) == IF i \in others THEN s ELSE i
<1>1. entities' = [i \in DOMAIN entities \ others |->
                      IF i = s THEN row
                      ELSE IF i \in moved THEN Reassigned(entities[i])
                      ELSE entities[i]]
  BY DEF MergeEntities
<1>2. /\ s \notin others
      /\ \A i \in merged : ~entities[i].locked /\ entities[i].tier = entities[s].tier
  BY DEF MergeEntities, Unlocked
<1>3. parts' = {<<into(r[1]), into(r[2])>> : r \in parts} \ {<<s, s>>}
  BY DEF MergeEntities, Rewired
<1> HIDE DEF row, moved
<1>4. LockedKept
  BY <1>1, <1>2, LockedRowsKept DEF IInv
<1>5. ASSUME Layered, NEW r \in parts, r[1] \in DOMAIN entities'
      PROVE  \E q \in parts' : q[1] = r[1]
  <2>1. r[1] \notin others /\ into(r[1]) = r[1]
    BY <1>1, <1>5
  <2>2. /\ r[1] \in DOMAIN entities /\ r[2] \in DOMAIN entities
        /\ entities[r[2]].tier = entities[r[1]].tier + 1
        /\ entities[r[1]].tier \in Int
    BY <1>5, LinkEnds DEF IInv, HierarchyTypeOK, Entity, Tiers
  <2>3. ~(r[1] = s /\ into(r[2]) = s)
    BY <1>2, <2>2
  <2>4. <<into(r[1]), into(r[2])>> \in parts'
    <3>1. <<into(r[1]), into(r[2])>> # <<s, s>>
      BY <2>1, <2>3
    <3> QED BY <1>3, <3>1
  <2> QED BY <2>1, <2>4
<1> QED BY <1>4, <1>5, LinksKept

LEMMA SplitKeeps ==
    ASSUME IInv, NEW c \in Clients, NEW i \in DOMAIN entities, NEW n \in Ids,
           NEW first \in SUBSET Children(parts, i), SplitEntity(c, i, n, first)
    PROVE  ParentsKept /\ LockedKept
<1> DEFINE D == (DOMAIN entities \ {i}) \cup {n, n + 1}
<1>1. entities' = [k \in D |->
                      IF k \in {n, n + 1} THEN SplitOff(entities[i])
                      ELSE IF k \in Children(parts, i) THEN Reassigned(entities[k])
                      ELSE entities[k]]
  BY DEF SplitEntity
<1>2. n \notin DOMAIN entities /\ n + 1 \notin DOMAIN entities /\ ~entities[i].locked
  <2>1. \A k \in DOMAIN entities : k \in Int /\ k < n
    BY DEF IInv, HierarchyTypeOK, SplitEntity, IsNextId, Ids
  <2> QED BY <2>1 DEF SplitEntity, Unlocked, Ids
<1>3. \A q \in parts \cup (first \X {n}) \cup ((Children(parts, i) \ first) \X {n + 1}) :
          q[1] # i /\ q[2] # i => q \in parts'
  BY DEF SplitEntity, PartsOfSplit, Without
<1>4. LockedKept
  <2>1. \A k \in DOMAIN entities : entities[k].locked =>
            /\ k \in DOMAIN entities'
            /\ entities'[k] \in {entities[k], Reassigned(entities[k])}
    BY <1>1, <1>2
  <2> QED BY <2>1, LockedRowsKept DEF IInv
<1>5. ASSUME NEW r \in parts, r[1] \in DOMAIN entities' PROVE \E q \in parts' : q[1] = r[1]
  <2>1. r[1] \in DOMAIN entities \ {i}
    <3>1. r[1] \in DOMAIN entities
      BY LinkEnds DEF IInv
    <3> QED BY <1>1, <1>2, <1>5, <3>1
  <2>2. CASE r[2] # i
    BY <1>3, <2>1, <2>2
  <2>3. CASE r[2] = i
    <3>1. r[1] \in Children(parts, i)
      BY <2>3, RelativesOf
    <3>2. <<r[1], n>> \in parts' \/ <<r[1], n + 1>> \in parts'
      BY <1>2, <1>3, <2>1, <3>1
    <3> QED BY <3>2
  <2> QED BY <2>2, <2>3
<1> QED BY <1>4, <1>5, LinksKept

\* What hung below the deleted entity goes to the replacement, if there is one.
LEMMA DeleteKeeps ==
    ASSUME IInv, NEW c \in Clients, NEW i \in DOMAIN entities,
           NEW replacement \in DOMAIN entities \cup {NoId},
           DeleteEntity(c, i, replacement)
    PROVE  /\ LockedKept
           /\ replacement # NoId => ParentsKept
           /\ \A k \in DOMAIN entities' : Parents(parts, k) # {} /\ i \notin Parents(parts, k)
                  => Parents(parts', k) # {}
<1> DEFINE kids  == Children(parts, i)
           added == IF replacement = NoId THEN {} ELSE kids \X {replacement}
<1>1. /\ entities' = [k \in DOMAIN entities \ {i} |->
                          IF k \in kids THEN Reassigned(entities[k]) ELSE entities[k]]
      /\ parts' = Without(parts, {i}) \cup added
      /\ ~entities[i].locked
  BY DEF DeleteEntity, Unlocked
<1>2. LockedKept
  BY <1>1, LockedRowsKept DEF IInv
<1>3. ASSUME NEW r \in parts, r[1] \in DOMAIN entities', r[2] # i \/ replacement # NoId
      PROVE  \E q \in parts' : q[1] = r[1]
  <2>1. r[1] # i
    BY <1>1, <1>3
  <2>2. CASE r[2] # i
    BY <1>1, <2>1, <2>2 DEF Without
  <2>3. CASE r[2] = i
    <3>1. r[1] \in kids /\ replacement # NoId
      BY <1>3, <2>3, RelativesOf
    <3>2. <<r[1], replacement>> \in parts'
      BY <1>1, <3>1
    <3> QED BY <3>2
  <2> QED BY <2>2, <2>3
<1>4. replacement # NoId => ParentsKept
  BY <1>3, LinksKept
<1>5. ASSUME NEW k \in DOMAIN entities', Parents(parts, k) # {}, i \notin Parents(parts, k)
      PROVE  Parents(parts', k) # {}
  <2>1. PICK r \in parts : r[1] = k /\ r[2] \in Parents(parts, k)
    BY <1>5, RelativesOf
  <2>2. PICK q \in parts' : q[1] = k
    BY <1>3, <1>5, <2>1
  <2> QED BY <2>2, RelativesOf
<1> QED BY <1>2, <1>4, <1>5

LEMMA CreateKeeps ==
    ASSUME IInv, NEW n \in Ids, NEW row, ~(n \in DOMAIN entities),
           entities' = [k \in DOMAIN entities \cup {n} |-> IF k = n THEN row ELSE entities[k]],
           parts \subseteq parts'
    PROVE  ParentsKept /\ LockedKept
<1>1. \A r \in parts : \E q \in parts' : q[1] = r[1]
  OBVIOUS
<1>2. LockedKept
  BY DEF LockedKept
<1> QED BY <1>1, <1>2, LinksKept

(* The rows and links, the clients' copies, the candidates and the job's own *)
(* copy of the graph keep their types.                                       *)
THEOREM ReconcileTypeCorrect == ReconcileSpec => []ReconcileTypeOK
<1>1. ReconcileInv => ReconcileTypeOK
  BY DEF ReconcileInv, IInv, JobTypeOK, Joined, ReconcileTypeOK
<1> QED BY <1>1, ReconcileInvariance, PTL

(* A job's writes are revisions too: beside it as well an edit that the       *)
(* revision check accepts is made on the content its author has loaded.       *)
THEOREM NoEditUnseenBesideJob == ReconcileSpec => []RevisionNamesContent
<1>1. ReconcileInv => RevisionNamesContent
  BY DEF ReconcileInv, IInv, CopiesBehind, RevisionNamesContent
<1> QED BY <1>1, ReconcileInvariance, PTL

-----------------------------------------------------------------------------
(* What a step may never do *)

Orphaned(k) == Parents(parts, k) # {} /\ Parents(parts', k) = {}

DeletedAbove(k) == \E c \in Clients, i \in Parents(parts, k) : DeleteEntity(c, i, NoId)

\* Every edit of the user.
LEMMA EditsLeave ==
    ASSUME IInv, HierarchyNext
    PROVE  /\ LockedKept
           /\ Layered => \A k \in DOMAIN entities \cap DOMAIN entities' :
                             Orphaned(k) => DeletedAbove(k)
<1>1. CASE Create
  <2>1. PICK n \in Ids, tier \in Tiers, p \in DOMAIN entities \cup {NoId} : CreateEntity(n, tier, p)
    BY <1>1 DEF Create
  <2> DEFINE row == NewEntity(tier, TRUE, writes + 1)
  <2>2. /\ entities' = [k \in DOMAIN entities \cup {n} |-> IF k = n THEN row ELSE entities[k]]
        /\ parts \subseteq parts'
    BY <2>1 DEF CreateEntity
  <2>3. ~(n \in DOMAIN entities)
    <3>1. \A k \in DOMAIN entities : k \in Int /\ k < n
      BY <2>1 DEF IInv, HierarchyTypeOK, CreateEntity, IsNextId, Ids
    <3> QED BY <3>1 DEF Ids
  <2> HIDE DEF row
  <2> QED BY <2>2, <2>3, CreateKeeps DEF ParentsKept, Orphaned
<1>2. CASE \E c \in Clients : Load(c)
  <2>1. entities' = entities /\ parts' = parts
    BY <1>2 DEF Load
  <2> QED BY <2>1 DEF LockedKept, Orphaned
<1>3. ASSUME NEW c \in Clients, Edit(c)
      PROVE  /\ LockedKept
             /\ Layered => \A k \in DOMAIN entities \cap DOMAIN entities' :
                               Orphaned(k) => DeletedAbove(k)
  <2>1. CASE (Layered => ParentsKept) /\ LockedKept
    BY <2>1 DEF ParentsKept, Orphaned
  <2>2. ASSUME NEW i \in DOMAIN entities, NEW replacement \in DOMAIN entities \cup {NoId},
               DeleteEntity(c, i, replacement)
        PROVE  /\ LockedKept
               /\ \A k \in DOMAIN entities \cap DOMAIN entities' : Orphaned(k) => DeletedAbove(k)
    <3>1. LockedKept
      BY <2>2, DeleteKeeps
    <3>2. ASSUME NEW k \in DOMAIN entities \cap DOMAIN entities', Orphaned(k)
          PROVE  DeletedAbove(k)
      <4>1. replacement = NoId /\ i \in Parents(parts, k)
        BY <2>2, <3>2, DeleteKeeps DEF Orphaned, ParentsKept
      <4> QED BY <2>2, <4>1 DEF DeletedAbove
    <3> QED BY <3>1, <3>2
  <2> QED BY <1>3, <2>1, <2>2, UpdateKeeps, ReparentKeeps, MergeKeeps, SplitKeeps DEF Edit
<1> QED BY <1>1, <1>2, <1>3 DEF HierarchyNext

LEMMA ProposalLeaves ==
    ASSUME ReconcileInv, Propose
    PROVE  ParentsKept /\ LockedKept
<1>1. PICK n \in Ids, actions \in SUBSET Actions \ {{}} :
          \E rev \in Cardinality(actions)..(2 * Cardinality(actions)) :
              ProposeActivity(n, actions, rev)
  BY DEF Propose
<1>2. PICK rev : ProposeActivity(n, actions, rev)
  BY <1>1
<1> DEFINE row == [NewEntity(ActivityTier, FALSE, writes + 1) EXCEPT !.rev = rev]
<1>3. /\ entities' = [k \in DOMAIN entities \cup {n} |-> IF k = n THEN row ELSE entities[k]]
      /\ parts \subseteq parts'
  BY <1>2 DEF ProposeActivity
<1>4. ~(n \in DOMAIN entities)
  <2>1. \A k \in DOMAIN entities : k \in Int /\ k < n
    BY <1>2 DEF ReconcileInv, IInv, HierarchyTypeOK, ProposeActivity, IsNextId, Ids
  <2> QED BY <2>1 DEF Ids
<1> HIDE DEF row
<1> QED BY <1>3, <1>4, CreateKeeps DEF ReconcileInv

(* No edit, no proposal and no job takes the layers from a layered graph, in  *)
(* whatever order they come, but a job one of whose decisions named an entity *)
(* of another tier.                                                           *)
THEOREM OnlyOtherTiersUnlayer == ReconcileSpec => LayersKept
<1> DEFINE Step == Layered => Layered' \/ (CommitJob /\ "tier" \in job.misled)
<1>1. ASSUME ReconcileInv, [ReconcileNext]_allVars PROVE Step
  <2>1. CASE UserStep
    BY <1>1, <2>1, UserStepKeepsInv
  <2>2. CASE Propose
    BY <1>1, <2>2, ProposeStep
  <2>3. CASE CommitJob
    BY <1>1, <2>3, CommitJobStep
  <2>4. CASE UNCHANGED hierVars
    BY <1>1, <2>4, StillKeepsIInv DEF ReconcileInv
  <2>5. StartJob \/ Decide \/ FailJob \/ CancelJob => UNCHANGED hierVars
    BY DEF StartJob, Decide, FailJob, CancelJob
  <2>6. UNCHANGED allVars => UNCHANGED hierVars
    BY DEF allVars
  <2> HIDE DEF Step
  <2> QED BY <1>1, <2>1, <2>2, <2>3, <2>4, <2>5, <2>6 DEF ReconcileNext
<1>2. ReconcileInv /\ [ReconcileNext]_allVars => [Step]_allVars
  BY <1>1
<1> QED BY <1>2, ReconcileInvariance, PTL DEF ReconcileSpec, LayersKept

(* Whatever is reparented, merged and split, and whatever the job decides, in *)
(* a layered graph an entity that had a parent has one, unless the user       *)
(* deletes its parent and names no replacement, or a decision of the job      *)
(* names its own candidate.                                                   *)
THEOREM OnlyDeletesOrphan == ReconcileSpec => OrphanedOnlyByDelete
<1> DEFINE Step == Layered => \A k \in DOMAIN entities \cap DOMAIN entities' :
                       Orphaned(k) => DeletedAbove(k) \/ (CommitJob /\ "self" \in job.misled)
<1>1. ASSUME ReconcileInv, [ReconcileNext]_allVars PROVE Step
  <2>1. CASE UserStep
    BY <1>1, <2>1, EditsLeave DEF UserStep, ReconcileInv
  <2>2. CASE Propose
    BY <1>1, <2>2, ProposalLeaves DEF ParentsKept, Orphaned
  <2>3. CASE UNCHANGED hierVars
    BY <2>3 DEF hierVars, Orphaned
  <2>4. CASE CommitJob
    <3>1. entities' = job.rows /\ parts' = job.links /\ CopyKeepsParents
      BY <1>1, <2>4 DEF CommitJob, ReconcileInv
    <3> QED BY <2>4, <3>1 DEF CopyKeepsParents, Orphaned
  <2>5. StartJob \/ Decide \/ FailJob \/ CancelJob => UNCHANGED hierVars
    BY DEF StartJob, Decide, FailJob, CancelJob
  <2>6. UNCHANGED allVars => UNCHANGED hierVars
    BY DEF allVars
  <2> QED BY <1>1, <2>1, <2>2, <2>3, <2>4, <2>5, <2>6 DEF ReconcileNext
<1>2. ReconcileInv /\ [ReconcileNext]_allVars =>
          [Layered => \A k \in DOMAIN entities \cap DOMAIN entities' :
               Parents(parts, k) # {} /\ Parents(parts', k) = {} =>
                   \/ \E c \in Clients, i \in Parents(parts, k) : DeleteEntity(c, i, NoId)
                   \/ CommitJob /\ "self" \in job.misled]_allVars
  BY <1>1 DEF Orphaned, DeletedAbove
<1> QED BY <1>2, ReconcileInvariance, PTL DEF ReconcileSpec, OrphanedOnlyByDelete

(* A locked entity outlives every edit and every job as it is worded, and a   *)
(* job leaves alone what the user has worded, unless it is a candidate of the *)
(* job; this holds whatever entities the decisions name.                      *)
THEOREM ProtectedSurvives == ReconcileSpec => ProtectedUnlessCandidate
<1> DEFINE Step == \A i \in DOMAIN entities \ Range(pending) :
                       entities[i].locked \/ (CommitJob /\ entities[i].edited) =>
                           /\ i \in DOMAIN entities'
                           /\ entities'[i].text = entities[i].text
                           /\ entities'[i].born = entities[i].born
<1>1. ASSUME ReconcileInv, [ReconcileNext]_allVars PROVE Step
  <2>1. CASE CommitJob
    <3>1. entities' = job.rows /\ CopyProtects /\ CopyIsLater
      BY <1>1, <2>1 DEF CommitJob, ReconcileInv
    <3> QED BY <3>1 DEF CopyProtects, CopyIsLater, LaterRow, Guarded
  <2>2. CASE LockedKept /\ ~CommitJob
    BY <2>2 DEF LockedKept
  <2>3. UserStep => LockedKept
    BY <1>1, EditsLeave DEF UserStep, ReconcileInv
  <2>4. Propose => LockedKept
    BY <1>1, ProposalLeaves
  <2>5. UNCHANGED hierVars => LockedKept
    BY DEF hierVars, LockedKept
  <2>6. StartJob \/ Decide \/ FailJob \/ CancelJob => UNCHANGED hierVars
    BY DEF StartJob, Decide, FailJob, CancelJob
  <2>7. UNCHANGED allVars => UNCHANGED hierVars
    BY DEF allVars
  <2> HIDE DEF Step
  <2> QED BY <1>1, <2>1, <2>2, <2>3, <2>4, <2>5, <2>6, <2>7 DEF ReconcileNext
<1>2. ReconcileInv /\ [ReconcileNext]_allVars => [Step]_allVars
  BY <1>1
<1> QED BY <1>2, ReconcileInvariance, PTL DEF ReconcileSpec, ProtectedUnlessCandidate
=============================================================================
