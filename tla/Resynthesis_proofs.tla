-------------------------- MODULE Resynthesis_proofs --------------------------
(***************************************************************************)
(* Proofs about what re-thinks the hierarchy, for any number of ids, any   *)
(* hierarchy at first, any batches of edits, proposals and answers of the  *)
(* model and any number of each: type correctness, that a pass keeps the   *)
(* goals the user owns and deletes others only after three missed passes,  *)
(* and that nothing loses its place but by what takes it away.             *)
(***************************************************************************)
EXTENDS Resynthesis, FiniteSetTheorems, SequenceTheorems, WellFoundedInduction, TLAPS

-----------------------------------------------------------------------------
(* The inductive invariant *)

\* The count of missed passes is right for the goals that it is used for.
MissesCounted ==
    \A g \in Tier("goal") : ~Owned(rows[g]) => rows[g].missed = unseen[g]

\* What was forgotten is of the last pass only.
OwedIsPaid == pass # <<>> => owed = {}

SynthesisInv == SynthesisTypeOK /\ MissesCounted /\ OwedIsPaid

\* Rows that have been edited: the same entities with all their marks, and maybe more.
RowsEdited(r, s) ==
    /\ DOMAIN s = DOMAIN r
    /\ \A i \in DOMAIN r :
          /\ s[i] \in EntityRow
          /\ s[i].tier = r[i].tier /\ s[i].missed = r[i].missed /\ r[i].marks \subseteq s[i].marks

TypedRows(r) == DOMAIN r \subseteq Ids /\ \A i \in DOMAIN r : r[i] \in EntityRow
LinkedIn(r, l) == l \subseteq (DOMAIN r) \X (DOMAIN r)

WellTyped(h) == TypedRows(h.rows) /\ LinkedIn(h.rows, h.links)

\* A hierarchy in a session, after some of the edits of a batch.
EditedFrom(h, g) == RowsEdited(h.rows, g.rows) /\ LinkedIn(h.rows, g.links)

-----------------------------------------------------------------------------
(* Numbers and ids *)

LEMMA LeastElement ==
    ASSUME NEW S \in SUBSET Nat, S # {}
    PROVE  \E n \in S : \A m \in S : n <= m
<1>1. IsWellFoundedOn(OpToRel(<, Nat), Nat)
  BY NatLessThanWellFounded
<1>2. PICK n \in S : \A m \in S : ~ (<<m, n>> \in OpToRel(<, Nat))
  BY <1>1, WFMin
<1>3. \A m \in S : ~(m < n)
  BY <1>2 DEF OpToRel
<1> QED BY <1>3

LEMMA MinOfSet ==
    ASSUME NEW S \in SUBSET Nat, S # {}
    PROVE  Min(S) \in S /\ \A m \in S : Min(S) <= m
BY LeastElement DEF Min

LEMMA MaxOfSet ==
    ASSUME NEW n \in Nat, NEW S \in SUBSET (0..n), S # {}
    PROVE  Max(S) \in S /\ Max(S) \in Nat /\ \A m \in S : m <= Max(S)
<1> DEFINE T == {n - m : m \in S}
<1>1. T \in SUBSET Nat /\ T # {}
  <2>1. \A m \in S : n - m \in Nat
    OBVIOUS
  <2>2. PICK m \in S : TRUE
    OBVIOUS
  <2>3. n - m \in T
    OBVIOUS
  <2> QED BY <2>1, <2>3
<1>2. PICK k \in T : \A j \in T : k <= j
  BY <1>1, LeastElement
<1>3. PICK m \in S : k = n - m
  BY <1>2
<1>4. \A j \in S : m >= j
  BY <1>2, <1>3
<1>5. \A j \in S : j \in Nat
  OBVIOUS
<1>6. Max(S) \in S /\ \A j \in S : Max(S) >= j
  BY <1>3, <1>4 DEF Max
<1> QED BY <1>5, <1>6

\* Some id is the greatest, and the next one is new.
LEMMA NextIdIsNew ==
    ASSUME SynthesisTypeOK
    PROVE  NextId \in Nat /\ NextId > 0 /\ \A i \in DOMAIN rows : i < NextId
<1> DEFINE S == {0} \cup DOMAIN rows
<1>1. MaxId \in Nat /\ S \in SUBSET (0..MaxId) /\ S # {}
  BY FirstAssumption DEF SynthesisTypeOK, Ids
<1>2. \A i \in DOMAIN rows : i \in S /\ i \in Nat
  BY FirstAssumption DEF SynthesisTypeOK, Ids
<1>3. NextId = 1 + Max(S)
  BY DEF NextId
<1> HIDE DEF S
<1>4. Max(S) \in Nat /\ \A i \in S : i <= Max(S)
  BY <1>1, MaxOfSet
<1> QED BY <1>2, <1>3, <1>4

\* The ids given out for the places of an answer are new and there is room for them.
LEMMA NewIdsFit ==
    ASSUME SynthesisTypeOK, NEW n \in Nat, NEW ps \in SUBSET (1..n), NEW i \in ps,
           NextId + Cardinality(ps) - 1 \in Ids
    PROVE  NewId(ps, i) \in Ids /\ NewId(ps, i) \notin DOMAIN rows
<1> DEFINE before == {j \in ps : j < i}
<1>1. IsFiniteSet(ps) /\ IsFiniteSet(before)
  <2>1. IsFiniteSet(1..n)
    BY FS_Interval
  <2>2. before \subseteq 1..n
    OBVIOUS
  <2> QED BY <2>1, <2>2, FS_Subset
<1>2. before \subseteq ps /\ before # ps
  <2>1. i \notin before
    OBVIOUS
  <2> QED BY <2>1
<1>3. Cardinality(before) \in Nat /\ Cardinality(ps) \in Nat /\ Cardinality(before) < Cardinality(ps)
  <2> HIDE DEF before
  <2>1. Cardinality(before) \in Nat /\ Cardinality(ps) \in Nat
    BY <1>1, FS_CardinalityType
  <2>2. Cardinality(before) <= Cardinality(ps)
    BY <1>1, <1>2, FS_Subset
  <2>3. Cardinality(before) # Cardinality(ps)
    BY <1>1, <1>2, FS_Subset
  <2> QED BY <2>1, <2>2, <2>3
<1>4. NewId(ps, i) = NextId + Cardinality(before)
  BY DEF NewId
<1> HIDE DEF before
<1>5. MaxId \in Nat /\ Ids = 1..MaxId /\ NextId \in Nat /\ \A j \in DOMAIN rows : j < NextId
  BY FirstAssumption, NextIdIsNew DEF Ids
<1>6. \A j \in DOMAIN rows : j \in Nat
  BY <1>5 DEF SynthesisTypeOK
<1>7. NextId > 0
  BY NextIdIsNew
<1>8. NewId(ps, i) \in Nat /\ NewId(ps, i) >= NextId /\ NewId(ps, i) <= NextId + Cardinality(ps) - 1
  BY <1>3, <1>4, <1>5
<1> QED BY <1>3, <1>5, <1>6, <1>7, <1>8

-----------------------------------------------------------------------------
(* The edits of a batch *)

LEMMA EditedTyped ==
    ASSUME NEW h, NEW g, WellTyped(h), EditedFrom(h, g)
    PROVE  WellTyped(g)
BY DEF WellTyped, EditedFrom, RowsEdited, TypedRows, LinkedIn

LEMMA EditedAgain ==
    ASSUME NEW h, NEW g, NEW k, EditedFrom(h, g), EditedFrom(g, k)
    PROVE  EditedFrom(h, k)
BY DEF EditedFrom, RowsEdited, LinkedIn

\* Marks are added to rows as they are.
LEMMA MarkedKeeps ==
    ASSUME NEW h, WellTyped(h), NEW ids, NEW marks \in SUBSET UserMarks
    PROVE  EditedFrom(h, Marked(h, ids, marks)) /\ Marked(h, ids, marks).links = h.links
<1> DEFINE r == [i \in DOMAIN h.rows |->
                    IF i \in ids THEN [h.rows[i] EXCEPT !.marks = @ \cup marks] ELSE h.rows[i]]
<1>1. ASSUME NEW i \in DOMAIN h.rows
      PROVE  /\ r[i] \in EntityRow /\ r[i].tier = h.rows[i].tier
             /\ r[i].missed = h.rows[i].missed /\ h.rows[i].marks \subseteq r[i].marks
  <2>1. h.rows[i] \in EntityRow
    BY DEF WellTyped, TypedRows
  <2>2. CASE i \notin ids
    BY <2>1, <2>2
  <2>3. CASE i \in ids
    <3>1. r[i] = [h.rows[i] EXCEPT !.marks = @ \cup marks]
      BY <2>3
    <3> HIDE DEF r
    <3> QED BY <2>1, <3>1 DEF EntityRow
  <2> QED BY <2>2, <2>3
<1>2. Marked(h, ids, marks).rows = r /\ Marked(h, ids, marks).links = h.links
  BY DEF Marked, Written
<1>3. DOMAIN r = DOMAIN h.rows
  OBVIOUS
<1> HIDE DEF r
<1> QED BY <1>1, <1>2, <1>3 DEF EditedFrom, RowsEdited, WellTyped

\* So are other links.
LEMMA RelinkedKeeps ==
    ASSUME NEW h, WellTyped(h), NEW l, LinkedIn(h.rows, l)
    PROVE  /\ EditedFrom(h, Written(h.rows, l)) /\ Written(h.rows, l).links = l
           /\ Written(h.rows, l).rows = h.rows
<1>1. Written(h.rows, l).rows = h.rows /\ Written(h.rows, l).links = l
  BY DEF Written
<1> QED BY <1>1 DEF EditedFrom, RowsEdited, WellTyped, TypedRows

LEMMA RelabelledKeeps ==
    ASSUME NEW h, WellTyped(h), NEW ids
    PROVE  EditedFrom(h, Relabelled(h, ids)) /\ Relabelled(h, ids).links = h.links
<1> DEFINE r == [i \in DOMAIN h.rows |->
                    IF i \in ids THEN [h.rows[i] EXCEPT !.text = 1 - @, !.marks = @ \cup {"edited"}]
                    ELSE h.rows[i]]
<1>1. ASSUME NEW i \in DOMAIN h.rows
      PROVE  /\ r[i] \in EntityRow /\ r[i].tier = h.rows[i].tier
             /\ r[i].missed = h.rows[i].missed /\ h.rows[i].marks \subseteq r[i].marks
  <2>1. h.rows[i] \in EntityRow
    BY DEF WellTyped, TypedRows
  <2>2. CASE i \notin ids
    BY <2>1, <2>2
  <2>3. CASE i \in ids
    <3>1. r[i] = [h.rows[i] EXCEPT !.text = 1 - @, !.marks = @ \cup {"edited"}]
      BY <2>3
    <3>2. 1 - h.rows[i].text \in 0..1 /\ "edited" \in UserMarks
      BY <2>1 DEF EntityRow, UserMarks
    <3> HIDE DEF r
    <3> QED BY <2>1, <3>1, <3>2 DEF EntityRow
  <2> QED BY <2>2, <2>3
<1>2. Relabelled(h, ids).rows = r /\ Relabelled(h, ids).links = h.links
  BY DEF Relabelled, Written
<1>3. DOMAIN r = DOMAIN h.rows
  OBVIOUS
<1> HIDE DEF r
<1> QED BY <1>1, <1>2, <1>3 DEF EditedFrom, RowsEdited, WellTyped

LEMMA DetachedKeeps ==
    ASSUME NEW h, WellTyped(h), NEW pairs \in SUBSET (Ids \X Ids)
    PROVE  EditedFrom(h, Detached(h, pairs)) /\ Detached(h, pairs).links = h.links \ pairs
<1> DEFINE notes(i) == {p[2] : p \in {p \in pairs : p[1] = i}}
           r == [i \in DOMAIN h.rows |-> [h.rows[i] EXCEPT !.apart = @ \cup notes(i)]]
<1>1. ASSUME NEW i \in DOMAIN h.rows
      PROVE  /\ r[i] \in EntityRow /\ r[i].tier = h.rows[i].tier
             /\ r[i].missed = h.rows[i].missed /\ h.rows[i].marks \subseteq r[i].marks
  <2>1. h.rows[i] \in EntityRow
    BY DEF WellTyped, TypedRows
  <2>2. notes(i) \subseteq Ids
    OBVIOUS
  <2>3. r[i] = [h.rows[i] EXCEPT !.apart = @ \cup notes(i)]
    OBVIOUS
  <2> HIDE DEF r, notes
  <2> QED BY <2>1, <2>2, <2>3 DEF EntityRow
<1>2. Detached(h, pairs).rows = r /\ Detached(h, pairs).links = h.links \ pairs
  BY DEF Detached, Written
<1>3. DOMAIN r = DOMAIN h.rows
  OBVIOUS
<1> HIDE DEF r
<1> QED BY <1>1, <1>2, <1>3 DEF EditedFrom, RowsEdited, WellTyped, LinkedIn

LEMMA DroppedKeeps ==
    ASSUME NEW h, WellTyped(h), NEW ids
    PROVE  /\ EditedFrom(h, DroppedActions(h, ids))
           /\ DroppedActions(h, ids).links = {l \in h.links : l[1] \notin ids}
<1> DEFINE l == {m \in h.links : m[1] \notin ids}
           g == Written(h.rows, l)
<1>1. LinkedIn(h.rows, l)
  BY DEF WellTyped, LinkedIn
<1> HIDE DEF l
<1>2. EditedFrom(h, g) /\ g.links = l
  BY <1>1, RelinkedKeeps
<1>3. WellTyped(g) /\ {"removed", "edited"} \in SUBSET UserMarks
  BY <1>2, EditedTyped DEF UserMarks
<1> HIDE DEF g
<1>4. EditedFrom(g, Marked(g, ids, {"removed", "edited"})) /\ Marked(g, ids, {"removed", "edited"}).links = l
  BY <1>2, <1>3, MarkedKeeps
<1>5. DroppedActions(h, ids) = Marked(g, ids, {"removed", "edited"})
  BY DEF DroppedActions, g, l
<1>6. l = {m \in h.links : m[1] \notin ids}
  BY DEF l
<1> QED BY <1>2, <1>4, <1>5, <1>6, EditedAgain

-----------------------------------------------------------------------------
(* Merges *)

\* What the recursive definition in Heir says at n.
HeirStep(h, pairs, f, n) ==
    IF n = 0 THEN [p \in Ids |-> p]
    ELSE [p \in Ids |->
             IF Alike(h, pairs[n]) /\ f[n - 1][p] = pairs[n][2] THEN pairs[n][1]
             ELSE f[n - 1][p]]

\* It defines a function.
LEMMA HeirsExist ==
    ASSUME NEW h, NEW pairs, NEW k \in Nat
    PROVE  \E f : f = [n \in 0..k |-> HeirStep(h, pairs, f, n)]
<1> DEFINE Bad == {m \in Nat : ~ \E f : f = [n \in 0..m |-> HeirStep(h, pairs, f, n)]}
<1> SUFFICES ASSUME Bad # {} PROVE FALSE
  BY Zenon
<1>1. PICK m \in Bad : \A p \in Bad : m <= p
  BY LeastElement, Zenon
<1>2. m # 0
  <2> SUFFICES ASSUME m = 0 PROVE FALSE
    OBVIOUS
  <2> DEFINE f == [n \in 0..0 |-> [p \in Ids |-> p]]
  <2>1. \A n \in 0..0 : HeirStep(h, pairs, f, n) = [p \in Ids |-> p]
    BY DEF HeirStep
  <2>2. f = [n \in 0..0 |-> HeirStep(h, pairs, f, n)]
    BY <2>1
  <2> QED BY <1>1, <2>2, Zenon
<1>3. m \in Nat /\ m - 1 \in Nat /\ m - 1 \notin Bad
  BY <1>1, <1>2
<1>4. PICK g : g = [n \in 0..(m - 1) |-> HeirStep(h, pairs, g, n)]
  BY <1>3, Zenon
<1> DEFINE f == [n \in 0..m |-> IF n = m THEN HeirStep(h, pairs, g, m) ELSE g[n]]
<1>5. \A n \in 0..m : HeirStep(h, pairs, f, n) = f[n]
  <2> SUFFICES ASSUME NEW n \in 0..m PROVE HeirStep(h, pairs, f, n) = f[n]
    OBVIOUS
  <2>1. n # 0 => n - 1 \in 0..(m - 1) /\ n - 1 \in 0..m /\ n - 1 # m
    BY <1>3
  <2>2. n # 0 => f[n - 1] = g[n - 1]
    BY <2>1
  <2> HIDE DEF f
  <2>3. HeirStep(h, pairs, f, n) = HeirStep(h, pairs, g, n)
    BY <2>2, Zenon DEF HeirStep
  <2>4. n # m => n \in 0..(m - 1)
    BY <1>3
  <2>5. n # m => g[n] = HeirStep(h, pairs, g, n)
    BY <1>4, <2>4
  <2> QED BY <2>3, <2>5 DEF f
<1>6. f = [n \in 0..m |-> HeirStep(h, pairs, f, n)]
  <2> HIDE DEF f
  <2>1. f = [n \in 0..m |-> f[n]]
    BY DEF f
  <2> QED BY <1>5, <2>1
<1> HIDE DEF f
<1> QED BY <1>1, <1>6, Zenon

\* The heir of an entity exists, and it is a survivor of one of its merges unless that
\* one is merged in its turn.
LEMMA HeirFacts ==
    ASSUME NEW h, TypedRows(h.rows), NEW pairs \in Seq(Twos), NEW p \in DOMAIN h.rows
    PROVE  /\ Heir(h, pairs)[p] \in DOMAIN h.rows
           /\ Heir(h, pairs)[p] \in Heirs(pairs, p) \/ HandedOn(pairs, p)
<1> DEFINE heir == CHOOSE f : f = [n \in 0..Len(pairs) |-> HeirStep(h, pairs, f, n)]
<1>1. Len(pairs) \in Nat /\ DOMAIN pairs = 1..Len(pairs) /\ p \in Ids
  BY LenProperties DEF TypedRows
<1>2. heir = [n \in 0..Len(pairs) |-> HeirStep(h, pairs, heir, n)]
  BY <1>1, HeirsExist, Zenon
<1>3. Heir(h, pairs) = heir[Len(pairs)]
  BY Zenon DEF Heir, HeirStep
<1> HIDE DEF heir
<1> DEFINE Good(q) == q \in DOMAIN h.rows /\ (q \in Heirs(pairs, p) \/ HandedOn(pairs, p))
           Bad == {n \in 0..Len(pairs) : ~Good(heir[n][p])}
<1>4. Good(p)
  BY DEF Heirs
<1>5. ASSUME NEW q, Good(q), NEW n \in DOMAIN pairs, Alike(h, pairs[n]), q = pairs[n][2]
      PROVE  Good(pairs[n][1])
  <2>1. pairs[n][1] \in DOMAIN h.rows
    BY <1>5 DEF Alike
  <2>2. CASE q = p
    BY <1>5, <2>1, <2>2 DEF Heirs
  <2>3. CASE q # p
    BY <1>5, <2>1, <2>3 DEF HandedOn
  <2> QED BY <2>2, <2>3
<1>6. ASSUME Bad # {} PROVE FALSE
  <2>1. Bad \in SUBSET Nat
    BY <1>1
  <2>2. PICK n \in Bad : \A m \in Bad : n <= m
    BY <1>6, <2>1, LeastElement, Zenon
  <2>3. n \in 0..Len(pairs) /\ ~Good(heir[n][p]) /\ heir[n] = HeirStep(h, pairs, heir, n)
    BY <1>2, <2>2
  <2>4. n # 0
    <3> SUFFICES ASSUME n = 0 PROVE FALSE
      OBVIOUS
    <3>1. heir[n][p] = p
      BY <1>1, <2>3 DEF HeirStep
    <3> QED BY <1>4, <2>3, <3>1
  <2>5. n \in DOMAIN pairs /\ n - 1 \in 0..Len(pairs) /\ n - 1 \notin Bad
    BY <1>1, <2>1, <2>2, <2>3, <2>4
  <2>6. Good(heir[n - 1][p])
    BY <2>5
  <2>7. heir[n][p] = IF Alike(h, pairs[n]) /\ heir[n - 1][p] = pairs[n][2] THEN pairs[n][1]
                     ELSE heir[n - 1][p]
    BY <1>1, <2>3, <2>4 DEF HeirStep
  <2> HIDE DEF Good
  <2> QED BY <1>5, <2>3, <2>5, <2>6, <2>7
<1>7. Len(pairs) \in 0..Len(pairs)
  BY <1>1
<1> QED BY <1>3, <1>6, <1>7

LEMMA MergedKeeps ==
    ASSUME NEW h, WellTyped(h), NEW pairs \in Seq(Twos)
    PROVE  /\ EditedFrom(h, Merged(h, pairs))
           /\ Merged(h, pairs).links = {<<l[1], Heir(h, pairs)[l[2]]>> : l \in h.links}
<1> DEFINE m == {<<l[1], Heir(h, pairs)[l[2]]>> : l \in h.links}
           done == Merging(h, pairs)
           g == Written(h.rows, m)
           k == Marked(g, {p[2] : p \in done}, {"removed", "edited"})
<1>1. LinkedIn(h.rows, m)
  <2>1. ASSUME NEW l \in h.links PROVE l[1] \in DOMAIN h.rows /\ Heir(h, pairs)[l[2]] \in DOMAIN h.rows
    <3>1. l[1] \in DOMAIN h.rows /\ l[2] \in DOMAIN h.rows /\ TypedRows(h.rows)
      BY DEF WellTyped, LinkedIn
    <3> QED BY <3>1, HeirFacts
  <2> QED BY <2>1 DEF LinkedIn
<1> HIDE DEF m, done
<1>2. EditedFrom(h, g) /\ g.links = m
  BY <1>1, RelinkedKeeps
<1>3. WellTyped(g) /\ {"removed", "edited"} \in SUBSET UserMarks /\ {"edited"} \in SUBSET UserMarks
  BY <1>2, EditedTyped DEF UserMarks
<1> HIDE DEF g
<1>4. EditedFrom(g, k) /\ k.links = m
  BY <1>2, <1>3, MarkedKeeps
<1>5. WellTyped(k)
  BY <1>3, <1>4, EditedTyped
<1> HIDE DEF k
<1>6. /\ EditedFrom(k, Marked(k, {p[1] : p \in done}, {"edited"}))
      /\ Marked(k, {p[1] : p \in done}, {"edited"}).links = m
  BY <1>3, <1>4, <1>5, MarkedKeeps
<1>7. Merged(h, pairs) = Marked(k, {p[1] : p \in done}, {"edited"})
  BY DEF Merged, MergeMarks, k, g, m, done
<1>8. EditedFrom(h, Merged(h, pairs))
  BY <1>2, <1>4, <1>6, <1>7, EditedAgain
<1> QED BY <1>6, <1>7, <1>8 DEF m

-----------------------------------------------------------------------------
(* Moves, and a whole batch *)

\* Links stay but those of children that are moved.
LEMMA ReparentedKeeps ==
    ASSUME NEW h, WellTyped(h), NEW pairs \in Seq(Twos)
    PROVE  /\ EditedFrom(h, Reparented(h, pairs))
           /\ \A l \in h.links :
                 \/ l \in Reparented(h, pairs).links
                 \/ \E k \in DOMAIN pairs : pairs[k][1] = l[1]
<1> DEFINE found == {k \in DOMAIN pairs : {pairs[k][1], pairs[k][2]} \subseteq DOMAIN h.rows}
           last  == {pairs[k] : k \in {k \in found : \A j \in found : pairs[j][1] = pairs[k][1] => j <= k}}
           moved == {p[1] : p \in last}
           m == {l \in h.links : l[1] \notin moved} \cup last
           g == Written(h.rows, m)
<1>1. ASSUME NEW p \in last
      PROVE  p \in (DOMAIN h.rows) \X (DOMAIN h.rows) /\ \E k \in DOMAIN pairs : pairs[k] = p
  <2>1. PICK k \in found : p = pairs[k]
    BY <1>1
  <2>2. pairs[k] \in Twos
    BY <2>1, ElementOfSeq, LenProperties
  <2>3. p \in Ids \X Ids /\ p[1] \in DOMAIN h.rows /\ p[2] \in DOMAIN h.rows
    BY <2>1, <2>2 DEF Twos
  <2> QED BY <2>1, <2>3
<1> HIDE DEF found, last
<1>2. LinkedIn(h.rows, m)
  BY <1>1 DEF LinkedIn, WellTyped
<1>3. \A l \in h.links : l \in m \/ \E k \in DOMAIN pairs : pairs[k][1] = l[1]
  BY <1>1
<1> HIDE DEF m, moved
<1>4. EditedFrom(h, g) /\ g.links = m
  BY <1>2, RelinkedKeeps
<1>5. WellTyped(g) /\ {"reassigned"} \in SUBSET UserMarks
  BY <1>4, EditedTyped DEF UserMarks
<1> HIDE DEF g
<1>6. EditedFrom(g, Marked(g, moved, {"reassigned"})) /\ Marked(g, moved, {"reassigned"}).links = m
  BY <1>4, <1>5, MarkedKeeps
<1>7. Reparented(h, pairs) = Marked(g, moved, {"reassigned"})
  BY DEF Reparented, g, m, moved, last, found
<1>8. EditedFrom(h, Reparented(h, pairs))
  BY <1>4, <1>6, <1>7, EditedAgain
<1> QED BY <1>3, <1>6, <1>7, <1>8

\* A batch keeps the rows with their marks, and of a link that it does not drop or move
\* the one to an heir, unless that one is detached.
LEMMA EditedKeeps ==
    ASSUME NEW h, WellTyped(h), NEW b, IsEdits(b)
    PROVE  /\ EditedFrom(h, Edited(h, b))
           /\ \A l \in h.links :
                 \/ l[1] \in b.dropped \/ HandedOn(b.merges, l[2])
                 \/ \E k \in DOMAIN b.reparents : b.reparents[k][1] = l[1]
                 \/ \E p \in Heirs(b.merges, l[2]) : <<l[1], p>> \in Edited(h, b).links \cup b.detached
<1> DEFINE worded  == Marked(Relabelled(h, b.texts), b.locks, {"locked"})
           merged  == Merged(worded, b.merges)
           apart   == Detached(merged, b.detached)
           removed == DroppedActions(apart, b.dropped)
           moved   == Reparented(removed, b.reparents)
           done    == Marked(moved, b.rejected, {"removed", "edited"})
<1>1. /\ b.detached \in SUBSET (Ids \X Ids)
      /\ b.merges \in Seq(Twos) /\ b.reparents \in Seq(Twos)
      /\ {"locked"} \in SUBSET UserMarks /\ {"removed", "edited"} \in SUBSET UserMarks
  BY DEF IsEdits, UserMarks
<1>2. EditedFrom(h, worded) /\ worded.links = h.links /\ WellTyped(worded)
  <2>1. EditedFrom(h, Relabelled(h, b.texts)) /\ Relabelled(h, b.texts).links = h.links
    BY RelabelledKeeps
  <2>2. WellTyped(Relabelled(h, b.texts))
    BY <2>1, EditedTyped
  <2>3. EditedFrom(Relabelled(h, b.texts), worded) /\ worded.links = Relabelled(h, b.texts).links
    BY <1>1, <2>2, MarkedKeeps
  <2> HIDE DEF worded
  <2>4. EditedFrom(h, worded)
    BY <2>1, <2>3, EditedAgain
  <2> QED BY <2>1, <2>3, <2>4, EditedTyped
<1> HIDE DEF worded
<1>3. /\ EditedFrom(worded, merged)
      /\ merged.links = {<<l[1], Heir(worded, b.merges)[l[2]]>> : l \in h.links}
  BY <1>1, <1>2, MergedKeeps
<1>4. EditedFrom(h, merged) /\ WellTyped(merged)
  BY <1>2, <1>3, EditedAgain, EditedTyped
<1> HIDE DEF merged
<1>5. EditedFrom(merged, apart) /\ apart.links = merged.links \ b.detached
  BY <1>1, <1>4, DetachedKeeps
<1>6. EditedFrom(h, apart) /\ WellTyped(apart)
  BY <1>4, <1>5, EditedAgain, EditedTyped
<1> HIDE DEF apart
<1>7. EditedFrom(apart, removed) /\ removed.links = {l \in apart.links : l[1] \notin b.dropped}
  BY <1>6, DroppedKeeps
<1>8. EditedFrom(h, removed) /\ WellTyped(removed)
  BY <1>6, <1>7, EditedAgain, EditedTyped
<1> HIDE DEF removed
<1>9. /\ EditedFrom(removed, moved)
      /\ \A l \in removed.links :
            l \in moved.links \/ \E k \in DOMAIN b.reparents : b.reparents[k][1] = l[1]
  BY <1>1, <1>8, ReparentedKeeps
<1>10. EditedFrom(h, moved) /\ WellTyped(moved)
  BY <1>8, <1>9, EditedAgain, EditedTyped
<1> HIDE DEF moved
<1>11. EditedFrom(moved, done) /\ done.links = moved.links
  BY <1>1, <1>10, MarkedKeeps
<1>12. EditedFrom(h, done)
  BY <1>10, <1>11, EditedAgain
<1>13. Edited(h, b) = done
  BY DEF Edited, done, moved, removed, apart, merged, worded
<1> HIDE DEF done
<1>14. ASSUME NEW l \in h.links, l[1] \notin b.dropped, ~HandedOn(b.merges, l[2]),
              ~ \E k \in DOMAIN b.reparents : b.reparents[k][1] = l[1]
       PROVE  \E p \in Heirs(b.merges, l[2]) : <<l[1], p>> \in done.links \cup b.detached
  <2> DEFINE p == Heir(worded, b.merges)[l[2]]
  <2>1. l[2] \in DOMAIN worded.rows /\ TypedRows(worded.rows)
    BY <1>2 DEF WellTyped, LinkedIn
  <2>2. p \in Heirs(b.merges, l[2])
    BY <1>1, <1>14, <2>1, HeirFacts
  <2> DEFINE m == <<l[1], p>>
  <2>3. m \in merged.links
    BY <1>3
  <2>4. m[1] = l[1]
    OBVIOUS
  <2> HIDE DEF p
  <2>5. m \in b.detached \/ m \in removed.links
    BY <1>5, <1>7, <1>14, <2>3, <2>4
  <2>6. m \in b.detached \/ m \in done.links
    BY <1>9, <1>11, <1>14, <2>4, <2>5
  <2> QED BY <2>2, <2>6
<1> QED BY <1>12, <1>13, <1>14

-----------------------------------------------------------------------------
(* Batches, proposals and first answers *)

LEMMA ApplyEditsStep ==
    ASSUME SynthesisInv, NEW b \in Batches, ApplyEdits(b)
    PROVE  SynthesisInv' /\ DOMAIN rows' = DOMAIN rows
<1> DEFINE h == Written(rows, links)
           g == Edited(h, b)
<1>1. h.rows = rows /\ h.links = links
  BY DEF Written
<1>2. WellTyped(h) /\ IsEdits(b)
  BY <1>1, BatchAssumption DEF WellTyped, TypedRows, LinkedIn, SynthesisInv, SynthesisTypeOK
<1> HIDE DEF h
<1>3. EditedFrom(h, g)
  BY <1>2, EditedKeeps
<1>4. rows' = g.rows /\ links' = g.links /\ owed' = {} /\ UNCHANGED <<rivals, pass, unseen>>
  BY DEF ApplyEdits, h
<1> HIDE DEF g
<1>5. /\ DOMAIN rows' = DOMAIN rows /\ links' \subseteq (DOMAIN rows) \X (DOMAIN rows)
      /\ \A i \in DOMAIN rows : /\ rows'[i] \in EntityRow
                                /\ rows'[i].tier = rows[i].tier /\ rows'[i].missed = rows[i].missed
                                /\ rows[i].marks \subseteq rows'[i].marks
  BY <1>1, <1>3, <1>4 DEF EditedFrom, RowsEdited, LinkedIn
<1>6. Tier("goal")' = Tier("goal")
  BY <1>5 DEF Tier
<1>7. SynthesisTypeOK'
  BY <1>4, <1>5, <1>6 DEF SynthesisInv, SynthesisTypeOK
<1>8. MissesCounted'
  <2> SUFFICES ASSUME NEW i \in Tier("goal"), ~Owned(rows'[i]) PROVE rows'[i].missed = unseen[i]
    BY <1>4, <1>6 DEF MissesCounted
  <2>1. i \in DOMAIN rows
    BY DEF Tier
  <2>2. ~Owned(rows[i])
    BY <1>5, <2>1 DEF Owned
  <2> QED BY <1>5, <2>1, <2>2 DEF SynthesisInv, MissesCounted
<1> QED BY <1>4, <1>5, <1>7, <1>8 DEF SynthesisInv, OwedIsPaid

LEMMA NewRowTyped ==
    ASSUME NEW tier \in {"action", "activity", "goal"}
    PROVE  NewRow(tier) \in EntityRow /\ NewRow(tier).tier = tier /\ NewRow(tier).missed = 0
BY DEF NewRow, EntityRow, ORPHAN_MISS_THRESHOLD

LEMMA ProposeActivitiesStep ==
    ASSUME SynthesisInv, NEW c \in Candidates, ProposeActivities(c)
    PROVE  SynthesisInv' /\ DOMAIN rows \subseteq DOMAIN rows'
<1> DEFINE active == Active(c)
           new == {NewId(active, i) : i \in active}
<1>1. PICK n \in Nat : DOMAIN c = 1..n
  <2>1. c \in Seq(SUBSET Ids)
    BY ProposalAssumption DEF IsProposal
  <2> QED BY <2>1, LenProperties
<1>2. active \in SUBSET (1..n) /\ NextId + Cardinality(active) - 1 \in Ids
  BY <1>1 DEF ProposeActivities, Active
<1> HIDE DEF active
<1>3. \A i \in active : NewId(active, i) \in Ids /\ NewId(active, i) \notin DOMAIN rows
  BY <1>2, NewIdsFit DEF SynthesisInv
<1>4. new \subseteq Ids /\ new \cap DOMAIN rows = {}
  BY <1>3
<1>5. ASSUME NEW i \in active PROVE Proposed(c, i) \subseteq (DOMAIN rows) \X new
  <2>1. \A x \in NamedActions(c, i) : x \in DOMAIN rows
    BY DEF NamedActions, Tier
  <2>2. NewId(active, i) \in new
    OBVIOUS
  <2>3. Active(c) = active
    BY DEF active
  <2> HIDE DEF new
  <2> QED BY <2>1, <2>2, <2>3 DEF Proposed
<1>6. /\ rows' = WithNew(new, "activity") /\ links' = links \cup UNION {Proposed(c, i) : i \in active}
      /\ owed' = {} /\ UNCHANGED <<rivals, pass, unseen>>
  BY DEF ProposeActivities, active
<1> HIDE DEF new
<1>7. /\ DOMAIN rows' = DOMAIN rows \cup new
      /\ \A i \in DOMAIN rows' : rows'[i] = IF i \in DOMAIN rows THEN rows[i] ELSE NewRow("activity")
  BY <1>6 DEF WithNew
<1>8. NewRow("activity") \in EntityRow /\ NewRow("activity").tier # "goal"
  BY NewRowTyped
<1>9. links' \subseteq (DOMAIN rows') \X (DOMAIN rows')
  BY <1>5, <1>6, <1>7 DEF SynthesisInv, SynthesisTypeOK
<1>10. Tier("goal")' = Tier("goal")
  BY <1>7, <1>8 DEF Tier
<1>11. DOMAIN rows' \subseteq Ids /\ \A i \in DOMAIN rows' : rows'[i] \in EntityRow
  BY <1>4, <1>7, <1>8 DEF SynthesisInv, SynthesisTypeOK
<1>12. SynthesisTypeOK'
  BY <1>6, <1>9, <1>10, <1>11 DEF SynthesisInv, SynthesisTypeOK
<1>13. MissesCounted'
  <2> SUFFICES ASSUME NEW i \in Tier("goal"), ~Owned(rows'[i]) PROVE rows'[i].missed = unseen[i]
    BY <1>6, <1>10 DEF MissesCounted
  <2>1. i \in DOMAIN rows /\ rows'[i] = rows[i]
    BY <1>7 DEF Tier
  <2> QED BY <2>1 DEF SynthesisInv, MissesCounted
<1> QED BY <1>6, <1>7, <1>12, <1>13 DEF SynthesisInv, OwedIsPaid

\* A synthesis that only begins or fails writes nothing.
LEMMA DraftAndFailStep ==
    ASSUME SynthesisInv, FailSynthesis \/ \E a \in FirstAnswers : DraftGoals(a)
    PROVE  SynthesisInv' /\ UNCHANGED <<rows, links>> /\ owed' = {}
<1>1. UNCHANGED <<rows, links, rivals, unseen>> /\ pass' \in FirstAnswers \cup {<<>>}
  BY DEF FailSynthesis, DraftGoals
<1>2. owed' = {}
  BY DEF SynthesisInv, OwedIsPaid, FailSynthesis, DraftGoals
<1>3. Tier("goal")' = Tier("goal")
  BY <1>1 DEF Tier
<1> QED BY <1>1, <1>2, <1>3 DEF SynthesisInv, SynthesisTypeOK, MissesCounted, OwedIsPaid

-----------------------------------------------------------------------------
(* The answer that counts *)

\* Answers as the goals' places see them.
IsAnswer(f) == f \in Seq(Item) /\ f # <<>>

LEMMA AnswerFacts ==
    ASSUME NEW f, IsAnswer(f)
    PROVE  /\ Len(f) \in Nat /\ DOMAIN f = 1..Len(f) /\ 1 \in DOMAIN f /\ Len(f) \in DOMAIN f
           /\ \A i \in DOMAIN f : f[i] \in Item /\ f[i].acts \subseteq Ids
           /\ Named(f) \subseteq Ids
<1>1. f \in Seq(Item) /\ Len(f) \in Nat /\ Len(f) # 0 /\ DOMAIN f = 1..Len(f)
  BY LenProperties, EmptySeq DEF IsAnswer
<1>2. \A i \in DOMAIN f : f[i] \in Item
  BY <1>1, ElementOfSeq
<1>3. \A i \in DOMAIN f : f[i].acts \subseteq Ids
  BY <1>2 DEF Item
<1>4. Named(f) \subseteq Ids
  BY <1>3 DEF Named
<1> QED BY <1>1, <1>2, <1>3, <1>4

LEMMA ItemsMakeAnswer ==
    ASSUME NEW f, NEW n \in Nat, n # 0, DOMAIN f = 1..n, f = [i \in 1..n |-> f[i]],
           \A i \in 1..n : f[i] \in Item
    PROVE  IsAnswer(f)
<1>1. f \in Seq(Item)
  OBVIOUS
<1>2. f # <<>>
  <2>1. 1 \in DOMAIN f
    OBVIOUS
  <2> QED BY <2>1
<1> QED BY <1>1, <1>2 DEF IsAnswer

\* What the refined items get back are ids.
LEMMA BackTyped ==
    ASSUME NEW first, NEW refined, IsAnswer(first), IsAnswer(refined), NEW i \in DOMAIN refined
    PROVE  /\ DOMAIN RecoveredByMatch(first, refined) = DOMAIN refined
           /\ RecoveredByMatch(first, refined)[i] \in Item
<1> DEFINE same == {j \in DOMAIN first : first[j].matches = refined[i].matches}
           acts == IF refined[i].matches # NoGoal /\ same # {} THEN first[Max(same)].acts
                   ELSE IF Len(refined) = Len(first) THEN first[i].acts ELSE {}
<1>1. refined[i] \in Item
  BY AnswerFacts
<1>2. acts \subseteq Ids
  <2>1. CASE refined[i].matches # NoGoal /\ same # {}
    <3>1. Len(first) \in Nat /\ same \in SUBSET (0..Len(first)) /\ same # {}
      BY <2>1, AnswerFacts
    <3> HIDE DEF same
    <3>2. Max(same) \in same
      BY <3>1, MaxOfSet
    <3>3. Max(same) \in DOMAIN first
      BY <3>2 DEF same
    <3>4. acts = first[Max(same)].acts
      BY <2>1
    <3> QED BY <3>3, <3>4, AnswerFacts
  <2>2. CASE ~(refined[i].matches # NoGoal /\ same # {}) /\ Len(refined) = Len(first)
    <3>1. i \in DOMAIN first
      BY <2>2, AnswerFacts
    <3>2. acts = first[i].acts
      BY <2>2
    <3> QED BY <3>1, <3>2, AnswerFacts
  <2>3. CASE ~(refined[i].matches # NoGoal /\ same # {}) /\ Len(refined) # Len(first)
    <3>1. acts = {}
      BY <2>3
    <3> QED BY <3>1
  <2> QED BY <2>1, <2>2, <2>3
<1>3. RecoveredByMatch(first, refined)[i] = [refined[i] EXCEPT !.acts = acts]
  BY DEF RecoveredByMatch
<1>4. DOMAIN RecoveredByMatch(first, refined) = DOMAIN refined
  BY DEF RecoveredByMatch
<1> HIDE DEF acts
<1>5. [refined[i] EXCEPT !.acts = acts] \in Item
  BY <1>1, <1>2 DEF Item
<1> QED BY <1>3, <1>4, <1>5

\* Of a first answer nothing is forgotten in the end.
LEMMA RecoveredFacts ==
    ASSUME NEW first, NEW refined, IsAnswer(first), IsAnswer(refined)
    PROVE  IsAnswer(Recovered(first, refined)) /\ Named(first) \subseteq Named(Recovered(first, refined))
<1> DEFINE back == RecoveredByMatch(first, refined)
           rest == Named(first) \ Named(back)
           full == Recovered(first, refined)
<1>1. PICK n \in Nat : n # 0 /\ DOMAIN refined = 1..n
  BY AnswerFacts
<1>2. DOMAIN back = 1..n /\ \A i \in 1..n : back[i] \in Item
  <2>1. 1 \in DOMAIN refined
    BY <1>1
  <2> QED BY <1>1, <2>1, BackTyped
<1>3. rest \subseteq Ids
  BY AnswerFacts
<1>4. full = [i \in DOMAIN back |-> [back[i] EXCEPT !.acts = IF i = 1 THEN @ \cup rest ELSE @]]
  BY DEF Recovered
<1>5. Named(first) = rest \cup (Named(first) \cap Named(back))
  OBVIOUS
<1> HIDE DEF back, rest, full
<1>6. /\ DOMAIN full = 1..n
      /\ \A i \in 1..n : full[i] = [back[i] EXCEPT !.acts = IF i = 1 THEN @ \cup rest ELSE @]
  BY <1>2, <1>4
<1>7. ASSUME NEW i \in 1..n
      PROVE  full[i] \in Item /\ full[i].acts = IF i = 1 THEN back[i].acts \cup rest ELSE back[i].acts
  <2>1. back[i] \in Item /\ full[i] = [back[i] EXCEPT !.acts = IF i = 1 THEN @ \cup rest ELSE @]
    BY <1>2, <1>6
  <2>2. CASE i = 1
    BY <1>3, <2>1, <2>2 DEF Item
  <2>3. CASE i # 1
    BY <1>3, <2>1, <2>3 DEF Item
  <2> QED BY <2>2, <2>3
<1>8. full = [i \in 1..n |-> full[i]]
  BY <1>2, <1>4
<1>9. IsAnswer(full)
  BY <1>1, <1>6, <1>7, <1>8, ItemsMakeAnswer
<1>10. \A i \in 1..n : back[i].acts \subseteq full[i].acts
  BY <1>7
<1>11. 1 \in 1..n
  BY <1>1
<1>12. rest \subseteq full[1].acts
  BY <1>7, <1>11
<1>13. Named(back) \subseteq Named(full) /\ rest \subseteq Named(full)
  BY <1>2, <1>6, <1>10, <1>11, <1>12 DEF Named
<1> QED BY <1>5, <1>9, <1>13 DEF full

LEMMA FinalFacts ==
    ASSUME SynthesisInv, pass # <<>>, NEW refined \in RefinedAnswers
    PROVE  /\ IsAnswer(pass) /\ IsAnswer(FinalAnswer(pass, refined))
           /\ Forgot(pass, refined) => Named(pass) \subseteq Named(FinalAnswer(pass, refined))
<1>1. IsAnswer(pass)
  BY AnswerAssumption DEF SynthesisInv, SynthesisTypeOK, IsAnswer
<1>2. refined # <<>> => IsAnswer(refined)
  BY AnswerAssumption DEF IsAnswer
<1>3. CASE refined = <<>>
  BY <1>1, <1>3 DEF FinalAnswer, Forgot
<1>4. CASE refined # <<>> /\ Forgot(pass, refined)
  BY <1>1, <1>2, <1>4, RecoveredFacts DEF FinalAnswer
<1>5. CASE refined # <<>> /\ ~Forgot(pass, refined)
  BY <1>1, <1>2, <1>5 DEF FinalAnswer
<1> QED BY <1>3, <1>4, <1>5

-----------------------------------------------------------------------------
(* What a pass writes *)

\* The goal of each place is one that was there or one of a new id.
LEMMA GoalsFacts ==
    ASSUME SynthesisTypeOK, NEW f, IsAnswer(f), NextId + Cardinality(Unmatched(f)) - 1 \in Ids
    PROVE  /\ DOMAIN GoalsOf(f) = DOMAIN f
           /\ \A i \in DOMAIN f : /\ GoalsOf(f)[i] \in Ids
                                  /\ GoalsOf(f)[i] \in Tier("goal") \/ GoalsOf(f)[i] \notin DOMAIN rows
<1>1. DOMAIN GoalsOf(f) = DOMAIN f
  BY DEF GoalsOf
<1>2. PICK n \in Nat : DOMAIN f = 1..n
  BY AnswerFacts
<1>3. Unmatched(f) \in SUBSET (1..n)
  BY <1>2 DEF Unmatched
<1>4. ASSUME NEW i \in DOMAIN f
      PROVE  /\ GoalsOf(f)[i] \in Ids
             /\ GoalsOf(f)[i] \in Tier("goal") \/ GoalsOf(f)[i] \notin DOMAIN rows
  <2>1. CASE i \in Unmatched(f)
    <3>1. GoalsOf(f)[i] = NewId(Unmatched(f), i)
      BY <2>1 DEF GoalsOf
    <3>2. NewId(Unmatched(f), i) \in Ids /\ NewId(Unmatched(f), i) \notin DOMAIN rows
      BY <1>3, <2>1, NewIdsFit
    <3> QED BY <3>1, <3>2
  <2>2. CASE i \notin Unmatched(f)
    <3>1. GoalsOf(f)[i] = f[i].matches
      BY <2>2 DEF GoalsOf
    <3>2. f[i].matches \in Tier("goal")
      BY <2>2 DEF Unmatched
    <3>3. Tier("goal") \subseteq Ids
      BY DEF Tier, SynthesisTypeOK
    <3> QED BY <3>1, <3>2, <3>3
  <2> QED BY <2>1, <2>2
<1> QED BY <1>1, <1>4

LEMMA PutLinksFacts ==
    ASSUME SynthesisTypeOK, NEW f, IsAnswer(f), Named(f) \subseteq DOMAIN rows,
           NEW goals, DOMAIN goals = DOMAIN f
    PROVE  /\ PutLinks(f, goals) \subseteq (DOMAIN rows) \X (DOMAIN rows \cup Range(goals))
           /\ IsInjective(goals) =>
                 \A i \in DOMAIN f : \A a \in f[i].acts : <<a, goals[i]>> \in PutLinks(f, goals)
<1> DEFINE last == {i \in DOMAIN goals : \A j \in DOMAIN goals : goals[j] = goals[i] => j <= i}
           put == UNION {{<<a, goals[i]>> : a \in f[i].acts} : i \in last}
<1>1. PutLinks(f, goals) = {l \in links : l[2] \notin Range(goals)} \cup put
  BY DEF PutLinks
<1>2. put \subseteq (DOMAIN rows) \X (Range(goals))
  <2>1. ASSUME NEW i \in last, NEW a \in f[i].acts
        PROVE  a \in DOMAIN rows /\ goals[i] \in Range(goals)
    <3>1. i \in DOMAIN f
      OBVIOUS
    <3>2. a \in Named(f)
      BY <3>1 DEF Named
    <3> QED BY <3>1, <3>2 DEF Range
  <2> QED BY <2>1
<1>3. links \subseteq (DOMAIN rows) \X (DOMAIN rows)
  BY DEF SynthesisTypeOK
<1>4. ASSUME IsInjective(goals), NEW i \in DOMAIN f, NEW a \in f[i].acts
      PROVE  <<a, goals[i]>> \in put
  <2>1. i \in DOMAIN goals /\ \A j \in DOMAIN goals : goals[j] = goals[i] => j = i
    BY <1>4 DEF IsInjective
  <2>2. i \in Nat
    BY AnswerFacts
  <2>3. i \in last
    BY <2>1, <2>2
  <2> HIDE DEF last
  <2> QED BY <1>4, <2>3
<1> QED BY <1>1, <1>2, <1>3, <1>4

LEMMA MissesFacts ==
    ASSUME NEW row, NEW g, NEW S
    PROVE  /\ g \in S => Misses(row, g \in S) = 0
           /\ g \notin S /\ Owned(row) => Misses(row, g \in S) = row.missed
           /\ g \notin S /\ ~Owned(row) => Misses(row, g \in S) = row.missed + 1
BY DEF Misses

LEMMA RewordedFacts ==
    ASSUME NEW row \in EntityRow, NEW g, NEW S, Misses(row, g \in S) < ORPHAN_MISS_THRESHOLD
    PROVE  /\ Reworded(row, g \in S) \in EntityRow
           /\ Reworded(row, g \in S).tier = row.tier /\ Reworded(row, g \in S).marks = row.marks
           /\ Reworded(row, g \in S).missed = Misses(row, g \in S)
           /\ Owned(row) => Reworded(row, g \in S).text = row.text
<1>1. row.text \in 0..1 /\ row.missed \in 0..2
  BY DEF EntityRow, ORPHAN_MISS_THRESHOLD
<1>2. Misses(row, g \in S) \in 0..2
  <2>1. Misses(row, g \in S) \in Nat
    BY <1>1, MissesFacts
  <2> QED BY <2>1 DEF ORPHAN_MISS_THRESHOLD
<1>3. PICK m \in 0..2 : m = Misses(row, g \in S)
  BY <1>2
<1>4. PICK text \in 0..1 : /\ text = IF g \in S /\ ~Owned(row) THEN 1 - row.text ELSE row.text
                           /\ Owned(row) => text = row.text
  BY <1>1
<1>5. Reworded(row, g \in S) = [row EXCEPT !.text = text, !.missed = m]
  BY <1>3, <1>4 DEF Reworded
<1> DEFINE new == [row EXCEPT !.text = text, !.missed = m]
<1>6. new.tier = row.tier /\ new.marks = row.marks /\ new.missed = m /\ new.text = text
  BY DEF EntityRow
<1>7. m \in 0..ORPHAN_MISS_THRESHOLD - 1 /\ text \in 0..1
  BY DEF ORPHAN_MISS_THRESHOLD
<1>8. new \in EntityRow
  BY <1>7 DEF EntityRow
<1> HIDE DEF new
<1> QED BY <1>3, <1>4, <1>5, <1>6, <1>8 DEF new

-----------------------------------------------------------------------------
(* The end of a pass *)

Seen(f) == Range(GoalsOf(f))
Deleted(f) == {g \in Tier("goal") : Misses(rows[g], g \in Seen(f)) >= ORPHAN_MISS_THRESHOLD}

\* The rows, links and counts after a pass whose activities all exist.
PassWrites(f, forgot) ==
    /\ DOMAIN rows' = (DOMAIN rows \cup Seen(f)) \ Deleted(f)
    /\ \A i \in DOMAIN rows' :
          rows'[i] = IF i \in Tier("goal") THEN Reworded(rows[i], i \in Seen(f))
                     ELSE IF i \in DOMAIN rows THEN rows[i] ELSE NewRow("goal")
    /\ links' = Without(Deleted(f), PutLinks(f, GoalsOf(f)))
    /\ \E pairs \in {{}, {<<1, Len(f)>>}} : rivals' = Without(Deleted(f), Rivals(GoalsOf(f), pairs))
    /\ unseen' = [i \in Ids |-> IF i \in Tier("goal") /\ i \notin Seen(f)
                                THEN Min({unseen[i] + 1, ORPHAN_MISS_THRESHOLD}) ELSE 0]
    /\ owed' = IF forgot /\ IsInjective(GoalsOf(f)) THEN Named(pass) \cap Tier("activity") ELSE {}

LEMMA RefineGoalsCases ==
    ASSUME NEW refined, RefineGoals(refined)
    PROVE  LET f == FinalAnswer(pass, refined)
           IN  /\ pass # <<>> /\ pass' = <<>>
               /\ NextId + Cardinality(Unmatched(f)) - 1 \in Ids
               /\ \/ UNCHANGED <<rows, links, rivals, owed, unseen>>
                  \/ Named(f) \subseteq DOMAIN rows /\ PassWrites(f, Forgot(pass, refined))
<1> DEFINE f == FinalAnswer(pass, refined)
           all == WithNew(Seen(f), "goal")
<1>1. pass # <<>> /\ pass' = <<>> /\ NextId + Cardinality(Unmatched(f)) - 1 \in Ids
  BY DEF RefineGoals
<1>2. CASE ~(Named(f) \subseteq DOMAIN rows)
  <2>1. UNCHANGED <<rows, links, rivals, owed, unseen>>
    BY <1>2 DEF RefineGoals
  <2> QED BY <1>1, <2>1
<1>3. CASE Named(f) \subseteq DOMAIN rows
  <2>1. /\ rows' = [i \in DOMAIN all \ Deleted(f) |->
                       IF i \in Tier("goal") THEN Reworded(rows[i], i \in Seen(f)) ELSE all[i]]
        /\ links' = Without(Deleted(f), PutLinks(f, GoalsOf(f)))
        /\ \E pairs \in {{}, {<<1, Len(f)>>}} : rivals' = Without(Deleted(f), Rivals(GoalsOf(f), pairs))
        /\ unseen' = [i \in Ids |-> IF i \in Tier("goal") /\ i \notin Seen(f)
                                    THEN Min({unseen[i] + 1, ORPHAN_MISS_THRESHOLD}) ELSE 0]
        /\ owed' = IF Forgot(pass, refined) /\ IsInjective(GoalsOf(f))
                   THEN Named(pass) \cap Tier("activity") ELSE {}
    BY <1>3, Zenon DEF RefineGoals, Deleted, Seen
  <2>2. /\ DOMAIN all = DOMAIN rows \cup Seen(f)
        /\ \A i \in DOMAIN all : all[i] = IF i \in DOMAIN rows THEN rows[i] ELSE NewRow("goal")
    BY DEF WithNew
  <2> HIDE DEF f, all
  <2>3. /\ DOMAIN rows' = DOMAIN all \ Deleted(f)
        /\ \A i \in DOMAIN all \ Deleted(f) :
              rows'[i] = IF i \in Tier("goal") THEN Reworded(rows[i], i \in Seen(f)) ELSE all[i]
    BY <2>1, Zenon
  <2>4. DOMAIN rows' = (DOMAIN rows \cup Seen(f)) \ Deleted(f)
    BY <2>2, <2>3
  <2>5. ASSUME NEW i \in DOMAIN rows'
        PROVE  rows'[i] = IF i \in Tier("goal") THEN Reworded(rows[i], i \in Seen(f))
                          ELSE IF i \in DOMAIN rows THEN rows[i] ELSE NewRow("goal")
    <3>1. i \in DOMAIN all \ Deleted(f)
      BY <2>3, Zenon
    <3>2. CASE i \in Tier("goal")
      BY <2>3, <3>1, <3>2, Zenon
    <3>3. CASE i \notin Tier("goal")
      <4>1. rows'[i] = all[i]
        BY <2>3, <3>1, <3>3, Zenon
      <4> QED BY <2>2, <3>1, <3>3, <4>1
    <3> QED BY <3>2, <3>3
  <2>6. PassWrites(f, Forgot(pass, refined))
    BY <2>1, <2>4, <2>5, Zenon DEF PassWrites
  <2> QED BY <1>1, <1>3, <2>6 DEF f
<1> QED BY <1>2, <1>3

LEMMA PassRows ==
    ASSUME SynthesisInv, NEW f, IsAnswer(f), NEW forgot, PassWrites(f, forgot),
           NextId + Cardinality(Unmatched(f)) - 1 \in Ids
    PROVE  /\ Seen(f) \subseteq Ids
           /\ \A i \in Seen(f) : i \in Tier("goal") \/ i \notin DOMAIN rows
           /\ \A i \in DOMAIN rows' :
                 /\ i \in Ids /\ rows'[i] \in EntityRow
                 /\ i \notin DOMAIN rows => rows'[i] = NewRow("goal") /\ i \in Seen(f)
                 /\ i \in DOMAIN rows \ Tier("goal") => rows'[i] = rows[i]
                 /\ i \in Tier("goal") =>
                       /\ rows'[i].tier = "goal" /\ rows'[i].marks = rows[i].marks
                       /\ rows'[i].missed = Misses(rows[i], i \in Seen(f))
                       /\ Owned(rows[i]) => rows'[i].text = rows[i].text
           /\ Tier("goal")' = (Tier("goal") \cup Seen(f)) \ Deleted(f)
<1>1. \A i \in Seen(f) : i \in Ids /\ (i \in Tier("goal") \/ i \notin DOMAIN rows)
  BY GoalsFacts DEF SynthesisInv, Seen, Range
<1>2. DOMAIN rows \subseteq Ids /\ \A i \in DOMAIN rows : rows[i] \in EntityRow
  BY DEF SynthesisInv, SynthesisTypeOK
<1>3. /\ Tier("goal") \subseteq DOMAIN rows /\ Deleted(f) \subseteq Tier("goal")
      /\ \A i \in DOMAIN rows : i \in Tier("goal") <=> rows[i].tier = "goal"
  BY DEF Tier, Deleted
<1>4. DOMAIN rows' = (DOMAIN rows \cup Seen(f)) \ Deleted(f)
  BY Zenon DEF PassWrites
<1>5. ASSUME NEW i \in DOMAIN rows'
      PROVE  /\ i \in Ids /\ rows'[i] \in EntityRow
             /\ i \notin DOMAIN rows => rows'[i] = NewRow("goal") /\ i \in Seen(f)
             /\ i \in DOMAIN rows \ Tier("goal") => rows'[i] = rows[i]
             /\ i \in Tier("goal") =>
                   /\ rows'[i].tier = "goal" /\ rows'[i].marks = rows[i].marks
                   /\ rows'[i].missed = Misses(rows[i], i \in Seen(f))
                   /\ Owned(rows[i]) => rows'[i].text = rows[i].text
  <2>1. i \in Ids
    BY <1>1, <1>2, <1>4
  <2>2. CASE i \in Tier("goal")
    <3>1. i \notin Deleted(f) /\ rows[i] \in EntityRow /\ rows[i].tier = "goal" /\ i \in DOMAIN rows
      BY <1>2, <1>3, <1>4, <2>2
    <3>2. rows'[i] = Reworded(rows[i], i \in Seen(f))
      BY <2>2, Zenon DEF PassWrites
    <3>3. ~(Misses(rows[i], i \in Seen(f)) >= ORPHAN_MISS_THRESHOLD)
      BY <2>2, <3>1 DEF Deleted
    <3>4. rows[i].missed \in Nat
      BY <3>1 DEF EntityRow
    <3>5. Misses(rows[i], i \in Seen(f)) \in Nat
      BY <3>4, MissesFacts
    <3>6. Misses(rows[i], i \in Seen(f)) < ORPHAN_MISS_THRESHOLD
      BY <3>3, <3>5 DEF ORPHAN_MISS_THRESHOLD
    <3>7. /\ Reworded(rows[i], i \in Seen(f)) \in EntityRow
          /\ Reworded(rows[i], i \in Seen(f)).tier = rows[i].tier
          /\ Reworded(rows[i], i \in Seen(f)).marks = rows[i].marks
          /\ Reworded(rows[i], i \in Seen(f)).missed = Misses(rows[i], i \in Seen(f))
          /\ Owned(rows[i]) => Reworded(rows[i], i \in Seen(f)).text = rows[i].text
      BY <3>1, <3>6, RewordedFacts
    <3> QED BY <2>1, <2>2, <3>1, <3>2, <3>7
  <2>3. CASE i \in DOMAIN rows \ Tier("goal")
    <3>1. rows'[i] = rows[i]
      BY <2>3 DEF PassWrites
    <3> QED BY <1>2, <2>1, <2>3, <3>1
  <2>4. CASE i \notin DOMAIN rows
    <3>1. rows'[i] = NewRow("goal") /\ i \in Seen(f)
      BY <1>3, <1>4, <2>4 DEF PassWrites
    <3> QED BY <1>3, <2>1, <2>4, <3>1, NewRowTyped
  <2> QED BY <1>3, <2>2, <2>3, <2>4
<1>6. Tier("goal")' = (Tier("goal") \cup Seen(f)) \ Deleted(f)
  <2>1. Tier("goal")' = {i \in DOMAIN rows' : rows'[i].tier = "goal"}
    BY DEF Tier
  <2>2. NewRow("goal").tier = "goal"
    BY NewRowTyped
  <2>3. ASSUME NEW i \in DOMAIN rows'
        PROVE  rows'[i].tier = "goal" <=> i \in Tier("goal") \cup Seen(f)
    <3>1. CASE i \in Tier("goal")
      BY <1>5, <3>1
    <3>2. CASE i \in DOMAIN rows \ Tier("goal")
      BY <1>1, <1>3, <1>5, <3>2
    <3>3. CASE i \notin DOMAIN rows
      BY <1>5, <2>2, <3>3
    <3> QED BY <3>1, <3>2, <3>3
  <2> QED BY <1>3, <1>4, <2>1, <2>3
<1> QED BY <1>1, <1>5, <1>6

\* What is counted is never more than what it takes to delete a goal.
LEMMA MinTyped ==
    ASSUME NEW n \in Nat
    PROVE  /\ Min({n + 1, ORPHAN_MISS_THRESHOLD}) \in 0..ORPHAN_MISS_THRESHOLD
           /\ n < ORPHAN_MISS_THRESHOLD => Min({n + 1, ORPHAN_MISS_THRESHOLD}) = n + 1
<1>1. {n + 1, 3} \in SUBSET Nat /\ {n + 1, 3} # {}
  OBVIOUS
<1>2. Min({n + 1, 3}) \in {n + 1, 3} /\ \A m \in {n + 1, 3} : Min({n + 1, 3}) <= m
  BY <1>1, MinOfSet
<1>3. Min({n + 1, 3}) \in {n + 1, 3} /\ Min({n + 1, 3}) <= 3 /\ Min({n + 1, 3}) <= n + 1
  BY <1>2
<1> DEFINE m == Min({n + 1, 3})
<1> HIDE DEF m
<1>4. (m = n + 1 \/ m = 3) /\ m <= 3 /\ m <= n + 1
  BY <1>3 DEF m
<1>5. m \in 0..3 /\ (n < 3 => m = n + 1)
  BY <1>4
<1> QED BY <1>5 DEF m, ORPHAN_MISS_THRESHOLD

LEMMA RivalsFacts ==
    ASSUME SynthesisTypeOK, NEW f, IsAnswer(f), NEW pairs \in {{}, {<<1, Len(f)>>}}
    PROVE  \A l \in Rivals(GoalsOf(f), pairs) :
              /\ l \in (Tier("goal") \cup Seen(f)) \X (Tier("goal") \cup Seen(f))
              /\ l[1] # l[2]
<1> DEFINE goals == GoalsOf(f)
<1>1. DOMAIN goals = DOMAIN f
  BY DEF GoalsOf
<1>2. 1 \in DOMAIN f /\ Len(f) \in DOMAIN f
  BY AnswerFacts
<1>3. \A i \in DOMAIN f : goals[i] \in Seen(f)
  BY <1>1 DEF Seen, Range
<1>4. \A l \in rivals : l \in Tier("goal") \X Tier("goal") /\ l[1] # l[2]
  BY DEF SynthesisTypeOK
<1>5. \A p \in pairs : p[1] \in DOMAIN f /\ p[2] \in DOMAIN f
  BY <1>2
<1> HIDE DEF goals
<1>6. ASSUME NEW l \in Rivals(goals, pairs)
      PROVE  l \in rivals \/ \E p \in pairs : l = <<goals[p[1]], goals[p[2]]>> /\ goals[p[1]] # goals[p[2]]
  BY DEF Rivals
<1>7. ASSUME NEW l \in Rivals(goals, pairs)
      PROVE  l \in (Tier("goal") \cup Seen(f)) \X (Tier("goal") \cup Seen(f)) /\ l[1] # l[2]
  <2>1. CASE l \in rivals
    BY <1>4, <2>1
  <2>2. ASSUME NEW p \in pairs, l = <<goals[p[1]], goals[p[2]]>>, goals[p[1]] # goals[p[2]]
        PROVE  l \in (Tier("goal") \cup Seen(f)) \X (Tier("goal") \cup Seen(f)) /\ l[1] # l[2]
    <3>1. goals[p[1]] \in Seen(f) /\ goals[p[2]] \in Seen(f)
      BY <1>3, <1>5
    <3> QED BY <2>2, <3>1
  <2> QED BY <1>6, <2>1, <2>2
<1> QED BY <1>7 DEF goals

LEMMA RefineGoalsStep ==
    ASSUME SynthesisInv, NEW refined \in RefinedAnswers, RefineGoals(refined)
    PROVE  SynthesisInv'
<1> DEFINE f == FinalAnswer(pass, refined)
           forgot == Forgot(pass, refined)
<1>1. /\ pass # <<>> /\ pass' = <<>> /\ NextId + Cardinality(Unmatched(f)) - 1 \in Ids
      /\ \/ UNCHANGED <<rows, links, rivals, owed, unseen>>
         \/ Named(f) \subseteq DOMAIN rows /\ PassWrites(f, forgot)
  BY RefineGoalsCases
<1>2. IsAnswer(f)
  BY <1>1, FinalFacts
<1> HIDE DEF f, forgot
<1>3. CASE UNCHANGED <<rows, links, rivals, owed, unseen>>
  <2>1. Tier("goal")' = Tier("goal")
    BY <1>3 DEF Tier
  <2> QED BY <1>1, <1>3, <2>1 DEF SynthesisInv, SynthesisTypeOK, MissesCounted, OwedIsPaid
<1>4. CASE Named(f) \subseteq DOMAIN rows /\ PassWrites(f, forgot)
  <2> DEFINE gone == Deleted(f)
             seen == Seen(f)
             goals == GoalsOf(f)
  <2>1. /\ seen \subseteq Ids /\ \A i \in seen : i \in Tier("goal") \/ i \notin DOMAIN rows
        /\ \A i \in DOMAIN rows' :
              /\ i \in Ids /\ rows'[i] \in EntityRow
              /\ i \notin DOMAIN rows => rows'[i] = NewRow("goal") /\ i \in seen
              /\ i \in Tier("goal") =>
                    /\ rows'[i].marks = rows[i].marks
                    /\ rows'[i].missed = Misses(rows[i], i \in seen)
        /\ Tier("goal")' = (Tier("goal") \cup seen) \ gone
    BY <1>1, <1>2, <1>4, PassRows
  <2>2. DOMAIN goals = DOMAIN f /\ seen = Range(goals)
    BY DEF GoalsOf, Seen
  <2>3. DOMAIN rows' = (DOMAIN rows \cup seen) \ gone
    BY <1>4, Zenon DEF PassWrites
  <2>4. PutLinks(f, goals) \subseteq (DOMAIN rows) \X (DOMAIN rows \cup seen)
    BY <1>2, <1>4, <2>2, PutLinksFacts DEF SynthesisInv
  <2>5. links' \subseteq (DOMAIN rows') \X (DOMAIN rows')
    <3>1. links' = Without(gone, PutLinks(f, goals))
      BY <1>4, Zenon DEF PassWrites
    <3> HIDE DEF gone, seen, goals
    <3> QED BY <2>3, <2>4, <3>1 DEF Without
  <2>6. /\ rivals' \subseteq Tier("goal")' \X Tier("goal")'
        /\ \A l \in rivals' : l[1] # l[2]
    <3>1. PICK pairs \in {{}, {<<1, Len(f)>>}} : rivals' = Without(gone, Rivals(goals, pairs))
      BY <1>4, Zenon DEF PassWrites
    <3>2. \A l \in Rivals(goals, pairs) :
             l \in (Tier("goal") \cup seen) \X (Tier("goal") \cup seen) /\ l[1] # l[2]
      BY <1>2, RivalsFacts DEF SynthesisInv
    <3> DEFINE old == Tier("goal")
               new == Tier("goal")'
    <3>3. new = (old \cup seen) \ gone
      BY <2>1
    <3> HIDE DEF gone, seen, goals, old, new
    <3>4. rivals' \subseteq new \X new /\ \A l \in rivals' : l[1] # l[2]
      BY <3>1, <3>2, <3>3 DEF Without, old
    <3> QED BY <3>4 DEF new
  <2>7. unseen' \in [Ids -> 0..ORPHAN_MISS_THRESHOLD]
        /\ \A i \in Ids : unseen'[i] = IF i \in Tier("goal") /\ i \notin seen
                                       THEN Min({unseen[i] + 1, ORPHAN_MISS_THRESHOLD}) ELSE 0
    <3>1. unseen' = [i \in Ids |-> IF i \in Tier("goal") /\ i \notin seen
                                   THEN Min({unseen[i] + 1, ORPHAN_MISS_THRESHOLD}) ELSE 0]
      BY <1>4, Zenon DEF PassWrites
    <3>2. \A i \in Ids : unseen[i] \in Nat
      BY DEF SynthesisInv, SynthesisTypeOK, ORPHAN_MISS_THRESHOLD
    <3>3. \A i \in Ids : Min({unseen[i] + 1, ORPHAN_MISS_THRESHOLD}) \in 0..ORPHAN_MISS_THRESHOLD
      BY <3>2, MinTyped
    <3>4. 0 \in 0..ORPHAN_MISS_THRESHOLD
      BY DEF ORPHAN_MISS_THRESHOLD
    <3> HIDE DEF seen
    <3> QED BY <3>1, <3>3, <3>4
  <2>8. owed' \subseteq Ids
    <3>1. owed' = {} \/ owed' = Named(pass) \cap Tier("activity")
      BY <1>4 DEF PassWrites
    <3>2. Tier("activity") \subseteq Ids
      BY DEF SynthesisInv, SynthesisTypeOK, Tier
    <3> QED BY <3>1, <3>2
  <2>9. SynthesisTypeOK'
    BY <1>1, <2>1, <2>5, <2>6, <2>7, <2>8 DEF SynthesisTypeOK
  <2>10. ASSUME NEW g \in Tier("goal")', ~Owned(rows'[g])
         PROVE  rows'[g].missed = unseen'[g]
    <3>1. g \in DOMAIN rows' /\ g \in Ids /\ g \in Tier("goal") \cup seen
      BY <2>1 DEF Tier
    <3>2. CASE g \in Tier("goal")
      <4>1. rows'[g].marks = rows[g].marks /\ rows'[g].missed = Misses(rows[g], g \in seen)
        BY <2>1, <3>1, <3>2
      <4>2. ~Owned(rows[g])
        BY <2>10, <4>1 DEF Owned
      <4>3. rows[g].missed = unseen[g] /\ rows[g] \in EntityRow
        BY <3>2, <4>2 DEF SynthesisInv, SynthesisTypeOK, MissesCounted, Tier
      <4>4. unseen[g] \in Nat /\ unseen[g] < ORPHAN_MISS_THRESHOLD
        BY <4>3 DEF EntityRow, ORPHAN_MISS_THRESHOLD
      <4>5. CASE g \in seen
        <5>1. Misses(rows[g], g \in seen) = 0
          BY <4>5, MissesFacts
        <5>2. unseen'[g] = 0
          BY <2>7, <3>1, <4>5
        <5> QED BY <4>1, <5>1, <5>2
      <4>6. CASE g \notin seen
        <5>1. Misses(rows[g], g \in seen) = rows[g].missed + 1
          BY <4>2, <4>6, MissesFacts
        <5>2. unseen'[g] = Min({unseen[g] + 1, ORPHAN_MISS_THRESHOLD})
          BY <2>7, <3>1, <3>2, <4>6
        <5>3. unseen'[g] = unseen[g] + 1
          BY <4>4, <5>2, MinTyped
        <5> QED BY <4>1, <4>3, <5>1, <5>3
      <4> QED BY <4>5, <4>6
    <3>3. CASE g \notin Tier("goal")
      <4>1. rows'[g] = NewRow("goal")
        BY <2>1, <3>1, <3>3
      <4>2. unseen'[g] = 0
        BY <2>7, <3>1, <3>3
      <4> QED BY <4>1, <4>2, NewRowTyped
    <3> QED BY <3>2, <3>3
  <2>11. MissesCounted'
    BY <2>10 DEF MissesCounted
  <2> QED BY <1>1, <2>9, <2>11 DEF SynthesisInv, OwedIsPaid
<1> QED BY <1>1, <1>3, <1>4

-----------------------------------------------------------------------------
(* What a step may do to goals and places *)

LEMMA OwnedKeptWhenRowsStay ==
    ASSUME DOMAIN rows \subseteq DOMAIN rows',
           pass = <<>> \/ UNCHANGED rows
    PROVE  KeepsOwned
BY DEF KeepsOwned, Tier

\* Goals that no item was about are deleted when it was so in two passes before.
LEMMA RefineKeepsOwned ==
    ASSUME SynthesisInv, NEW refined \in RefinedAnswers, RefineGoals(refined)
    PROVE  KeepsOwned
<1> DEFINE f == FinalAnswer(pass, refined)
           forgot == Forgot(pass, refined)
<1>1. /\ pass # <<>> /\ NextId + Cardinality(Unmatched(f)) - 1 \in Ids
      /\ \/ UNCHANGED <<rows, links, rivals, owed, unseen>>
         \/ Named(f) \subseteq DOMAIN rows /\ PassWrites(f, forgot)
  BY RefineGoalsCases
<1>2. IsAnswer(f)
  BY <1>1, FinalFacts
<1> HIDE DEF f, forgot
<1>3. CASE UNCHANGED <<rows, links, rivals, owed, unseen>>
  BY <1>3, OwnedKeptWhenRowsStay
<1>4. CASE Named(f) \subseteq DOMAIN rows /\ PassWrites(f, forgot)
  <2>1. DOMAIN rows' = (DOMAIN rows \cup Seen(f)) \ Deleted(f)
    BY <1>4, Zenon DEF PassWrites
  <2>2. ASSUME NEW g \in Deleted(f)
        PROVE  /\ g \in Tier("goal") /\ g \notin Seen(f) /\ ~Owned(rows[g]) /\ g \in Ids
               /\ unseen[g] \in Nat /\ unseen[g] = ORPHAN_MISS_THRESHOLD - 1
    <3>1. g \in Tier("goal") /\ Misses(rows[g], g \in Seen(f)) >= ORPHAN_MISS_THRESHOLD
      BY DEF Deleted
    <3>2. g \in Ids /\ rows[g] \in EntityRow
      BY <3>1 DEF SynthesisInv, SynthesisTypeOK, Tier
    <3>3. rows[g].missed \in 0..2
      BY <3>2 DEF EntityRow, ORPHAN_MISS_THRESHOLD
    <3>4. g \notin Seen(f) /\ ~Owned(rows[g])
      <4>1. Misses(rows[g], g \in Seen(f)) >= 3
        BY <3>1 DEF ORPHAN_MISS_THRESHOLD
      <4> QED BY <3>3, <4>1, MissesFacts
    <3>5. rows[g].missed + 1 >= 3
      BY <3>1, <3>4, MissesFacts DEF ORPHAN_MISS_THRESHOLD
    <3>6. unseen[g] = rows[g].missed
      BY <3>1, <3>4 DEF SynthesisInv, MissesCounted
    <3> QED BY <3>1, <3>2, <3>3, <3>4, <3>5, <3>6 DEF ORPHAN_MISS_THRESHOLD
  <2>3. ASSUME NEW g \in Deleted(f)
        PROVE  unseen'[g] > unseen[g] /\ unseen[g] >= ORPHAN_MISS_THRESHOLD - 1
    <3>1. unseen' = [i \in Ids |-> IF i \in Tier("goal") /\ i \notin Seen(f)
                                   THEN Min({unseen[i] + 1, ORPHAN_MISS_THRESHOLD}) ELSE 0]
      BY <1>4, Zenon DEF PassWrites
    <3>2. unseen'[g] = Min({unseen[g] + 1, ORPHAN_MISS_THRESHOLD})
      BY <2>2, <3>1
    <3>3. unseen[g] \in Nat /\ unseen[g] = 2 /\ unseen[g] < ORPHAN_MISS_THRESHOLD
      BY <2>2 DEF ORPHAN_MISS_THRESHOLD
    <3>4. unseen'[g] = unseen[g] + 1
      BY <3>2, <3>3, MinTyped
    <3> QED BY <3>3, <3>4 DEF ORPHAN_MISS_THRESHOLD
  <2>4. ASSUME NEW g \in Tier("goal"), g \notin DOMAIN rows'
        PROVE  g \in Deleted(f)
    BY <2>1, <2>4 DEF Tier
  <2>5. ASSUME NEW i \in DOMAIN rows, Owned(rows[i])
        PROVE  i \in DOMAIN rows' /\ rows'[i].text = rows[i].text
    <3>1. i \in DOMAIN rows'
      BY <2>1, <2>2, <2>5
    <3>2. /\ i \in DOMAIN rows \ Tier("goal") => rows'[i] = rows[i]
          /\ i \in Tier("goal") => (Owned(rows[i]) => rows'[i].text = rows[i].text)
      BY <1>1, <1>2, <1>4, <3>1, PassRows
    <3> QED BY <2>5, <3>1, <3>2
  <2> QED BY <2>2, <2>3, <2>4, <2>5 DEF KeepsOwned, Owned
<1> QED BY <1>1, <1>3, <1>4

LEMMA BatchKeepsPlaces ==
    ASSUME SynthesisInv, NEW b \in Batches, ApplyEdits(b), NEW l \in links
    PROVE  \/ l[1] \in b.dropped \/ HandedOn(b.merges, l[2])
           \/ \E k \in DOMAIN b.reparents : b.reparents[k][1] = l[1]
           \/ \E p \in Heirs(b.merges, l[2]) : <<l[1], p>> \in links' \cup b.detached
<1> DEFINE h == Written(rows, links)
<1>1. h.rows = rows /\ h.links = links
  BY DEF Written
<1>2. WellTyped(h) /\ IsEdits(b)
  BY <1>1, BatchAssumption DEF WellTyped, TypedRows, LinkedIn, SynthesisInv, SynthesisTypeOK
<1>3. links' = Edited(h, b).links
  BY DEF ApplyEdits
<1> HIDE DEF h
<1>4. \/ l[1] \in b.dropped \/ HandedOn(b.merges, l[2])
      \/ \E k \in DOMAIN b.reparents : b.reparents[k][1] = l[1]
      \/ \E p \in Heirs(b.merges, l[2]) : <<l[1], p>> \in Edited(h, b).links \cup b.detached
  BY <1>1, <1>2, EditedKeeps
<1> QED BY <1>3, <1>4

\* What the first answer named is under the goal of its place, and that goal stays.
LEMMA RefineKeepsPlaces ==
    ASSUME SynthesisInv, NEW refined \in RefinedAnswers, RefineGoals(refined), NEW a \in owed'
    PROVE  \E g \in Tier("goal")' : <<a, g>> \in links'
<1> DEFINE f == FinalAnswer(pass, refined)
           forgot == Forgot(pass, refined)
           goals == GoalsOf(f)
<1>1. /\ pass # <<>> /\ NextId + Cardinality(Unmatched(f)) - 1 \in Ids
      /\ \/ UNCHANGED <<rows, links, rivals, owed, unseen>>
         \/ Named(f) \subseteq DOMAIN rows /\ PassWrites(f, forgot)
  BY RefineGoalsCases
<1>2. IsAnswer(f) /\ (forgot => Named(pass) \subseteq Named(f))
  BY <1>1, FinalFacts
<1> HIDE DEF f, forgot
<1>3. Named(f) \subseteq DOMAIN rows /\ PassWrites(f, forgot)
  BY <1>1 DEF SynthesisInv, OwedIsPaid
<1>4. forgot /\ IsInjective(goals) /\ a \in Named(pass) /\ a \in Tier("activity")
  BY <1>3 DEF PassWrites
<1>5. PICK i \in DOMAIN f : a \in f[i].acts
  BY <1>2, <1>4 DEF Named
<1>6. DOMAIN goals = DOMAIN f
  BY DEF GoalsOf
<1>7. <<a, goals[i]>> \in PutLinks(f, goals)
  BY <1>2, <1>3, <1>4, <1>5, <1>6, PutLinksFacts DEF SynthesisInv
<1>8. goals[i] \in Seen(f)
  BY <1>5, <1>6 DEF Seen, Range
<1>9. goals[i] \notin Deleted(f)
  <2>1. Misses(rows[goals[i]], goals[i] \in Seen(f)) = 0
    BY <1>8, MissesFacts
  <2> QED BY <2>1 DEF Deleted, ORPHAN_MISS_THRESHOLD
<1>10. a \notin Deleted(f)
  BY <1>4 DEF Deleted, Tier
<1>11. Tier("goal")' = (Tier("goal") \cup Seen(f)) \ Deleted(f)
  BY <1>1, <1>2, <1>3, PassRows
<1>12. links' = Without(Deleted(f), PutLinks(f, goals))
  BY <1>3, Zenon DEF PassWrites
<1> HIDE DEF goals
<1>13. <<a, goals[i]>> \in links'
  BY <1>7, <1>9, <1>10, <1>12 DEF Without
<1> QED BY <1>8, <1>9, <1>11, <1>13

-----------------------------------------------------------------------------
(* The theorems *)

\* The hierarchy is well-typed at first and its misses are as many as it says.
THEOREM SynthesisInvInit == SynthesisInit => SynthesisInv
<1> SUFFICES ASSUME SynthesisInit PROVE SynthesisInv
  OBVIOUS
<1>1. /\ rows = FirstRows /\ links = FirstLinks /\ rivals = {} /\ pass = <<>> /\ owed = {}
      /\ unseen = [i \in Ids |-> IF i \in DOMAIN rows THEN rows[i].missed ELSE 0]
  BY DEF SynthesisInit
<1>2. DOMAIN rows \subseteq Ids /\ \A i \in DOMAIN rows : rows[i] \in EntityRow
  BY <1>1, FirstAssumption
<1>3. links \subseteq (DOMAIN rows) \X (DOMAIN rows)
  BY <1>1, FirstAssumption
<1>4. \A i \in DOMAIN rows : rows[i].missed \in 0..ORPHAN_MISS_THRESHOLD
  BY <1>2 DEF EntityRow, ORPHAN_MISS_THRESHOLD
<1>5. unseen \in [Ids -> 0..ORPHAN_MISS_THRESHOLD]
  BY <1>1, <1>4 DEF ORPHAN_MISS_THRESHOLD
<1>6. SynthesisTypeOK
  BY <1>1, <1>2, <1>3, <1>5 DEF SynthesisTypeOK
<1>7. MissesCounted
  BY <1>1, <1>2 DEF MissesCounted, Tier
<1> QED BY <1>1, <1>6, <1>7 DEF SynthesisInv, OwedIsPaid

\* Every batch, proposal, answer and failure keeps the invariant, and does to goals and
\* places what the properties allow.
THEOREM SynthesisInvInductive ==
    SynthesisInv /\ [SynthesisNext]_svars => SynthesisInv' /\ [KeepsOwned /\ KeepsPlaces]_svars
<1> SUFFICES ASSUME SynthesisInv, [SynthesisNext]_svars
             PROVE  SynthesisInv' /\ [KeepsOwned /\ KeepsPlaces]_svars
  OBVIOUS
<1>1. CASE UNCHANGED svars
  <2>1. SynthesisInv'
    <3>1. UNCHANGED <<rows, links, rivals, pass, owed, unseen>>
      BY <1>1 DEF svars
    <3>2. Tier("goal")' = Tier("goal")
      BY <3>1 DEF Tier
    <3> QED BY <3>1, <3>2 DEF SynthesisInv, SynthesisTypeOK, MissesCounted, OwedIsPaid
  <2> QED BY <1>1, <2>1
<1>2. ASSUME \A a \in owed' : \E g \in Tier("goal")' : <<a, g>> \in links'
      PROVE  KeepsPlaces
  BY <1>2, BatchKeepsPlaces, Zenon DEF KeepsPlaces
<1>3. ASSUME NEW b \in Batches, ApplyEdits(b)
      PROVE  SynthesisInv' /\ KeepsOwned /\ KeepsPlaces
  <2>1. SynthesisInv' /\ DOMAIN rows' = DOMAIN rows
    BY <1>3, ApplyEditsStep
  <2>2. pass = <<>> /\ owed' = {}
    BY <1>3 DEF ApplyEdits
  <2> QED BY <1>2, <2>1, <2>2, OwnedKeptWhenRowsStay
<1>4. ASSUME NEW c \in Candidates, ProposeActivities(c)
      PROVE  SynthesisInv' /\ KeepsOwned /\ KeepsPlaces
  <2>1. SynthesisInv' /\ DOMAIN rows \subseteq DOMAIN rows'
    BY <1>4, ProposeActivitiesStep
  <2>2. pass = <<>> /\ owed' = {}
    BY <1>4 DEF ProposeActivities
  <2> QED BY <1>2, <2>1, <2>2, OwnedKeptWhenRowsStay
<1>5. ASSUME FailSynthesis \/ \E a \in FirstAnswers : DraftGoals(a)
      PROVE  SynthesisInv' /\ KeepsOwned /\ KeepsPlaces
  <2>1. SynthesisInv' /\ UNCHANGED rows /\ owed' = {}
    BY <1>5, DraftAndFailStep
  <2> QED BY <1>2, <2>1, OwnedKeptWhenRowsStay
<1>6. ASSUME NEW refined \in RefinedAnswers, RefineGoals(refined)
      PROVE  SynthesisInv' /\ KeepsOwned /\ KeepsPlaces
  <2>1. SynthesisInv' /\ KeepsOwned
    BY <1>6, RefineGoalsStep, RefineKeepsOwned
  <2>2. KeepsPlaces
    BY <1>2, <1>6, RefineKeepsPlaces
  <2> QED BY <2>1, <2>2
<1> QED BY <1>1, <1>3, <1>4, <1>5, <1>6 DEF SynthesisNext

\* The invariant holds in every state of the hierarchy.
THEOREM SynthesisInvariance == SynthesisSpec => []SynthesisInv
BY SynthesisInvInit, SynthesisInvInductive, PTL DEF SynthesisSpec

\* Rows, links, relations of goals and the pass at work keep their types.
THEOREM SynthesisTypeCorrect == SynthesisSpec => []SynthesisTypeOK
<1>1. SynthesisInv => SynthesisTypeOK
  BY DEF SynthesisInv
<1> QED BY <1>1, SynthesisInvariance, PTL

\* A pass neither deletes nor rewords what the user worded or locked, and deletes only
\* goals that three completed passes in a row left out (_persist_goals).
THEOREM OwnedGoalsKept == SynthesisSpec => PassesKeepOwned
<1>1. SynthesisInv /\ [SynthesisNext]_svars => [KeepsOwned]_svars
  BY SynthesisInvInductive
<1> QED BY <1>1, SynthesisInvariance, PTL DEF SynthesisSpec, PassesKeepOwned

\* A self-refine that forgets all activities costs none its goal, and a batch of edits
\* takes a parent only from what it detaches, drops, reparents or merges away in turn
\* (_self_refine, _persist_goals, _apply_edits).
THEOREM NothingLosesItsPlace == SynthesisSpec => PlacesAreKept
<1>1. SynthesisInv /\ [SynthesisNext]_svars => [KeepsPlaces]_svars
  BY SynthesisInvInductive
<1> QED BY <1>1, SynthesisInvariance, PTL DEF SynthesisSpec, PlacesAreKept
=============================================================================
