------------------------ MODULE ActionBuilder_proofs ------------------------
(***************************************************************************)
(* Proofs about stages 1 and 2, for any numbers of operations, actions and *)
(* segments and any capture times: type correctness, that each successful  *)
(* build puts every operation of its batch into exactly one action, and    *)
(* that the temporal relations fit each other.                             *)
(***************************************************************************)
EXTENDS ActionBuilder, FiniteSetTheorems, SequenceTheorems, WellFoundedInduction, TLAPS

-----------------------------------------------------------------------------
(* The inductive invariant *)

\* The buffer holds each stored operation once at most.
PendingOnce ==
    /\ pending \in Seq(DOMAIN operations)
    /\ \A i, j \in DOMAIN pending : pending[i] = pending[j] => i = j

\* Actions are made of operations that are stored.
OfStored == \A a \in DOMAIN actions : actions[a].ops \subseteq DOMAIN operations

CountsBuilds == built \in Seq(Nat) /\ Len(built) = Len(operations)

BuilderInv ==
    /\ BuilderTypeOK /\ PendingOnce /\ OfStored /\ CountsBuilds
    /\ EveryOperationOncePerBuild /\ RelationsFit

-----------------------------------------------------------------------------
(* Least and greatest elements *)

LEMMA LeastElement ==
    ASSUME NEW S \in SUBSET Nat, S # {}
    PROVE  \E n \in S : \A m \in S : n <= m
<1>1. IsWellFoundedOn(OpToRel(<, Nat), Nat)
  BY NatLessThanWellFounded
<1>2. PICK n \in S : \A m \in S : ~ (<<m, n>> \in OpToRel(<, Nat))
  BY <1>1, WFMin
<1>3. \A m \in S : ~(m < n)
  BY <1>2 DEF OpToRel
<1> QED BY <1>3

LEMMA MinOfSet ==
    ASSUME NEW S \in SUBSET Nat, S # {}
    PROVE  Min(S) \in S /\ \A m \in S : Min(S) <= m
BY LeastElement DEF Min

LEMMA MaxOfSet ==
    ASSUME NEW n \in Nat, NEW S \in SUBSET (0..n), S # {}
    PROVE  Max(S) \in S /\ \A m \in S : m <= Max(S)
<1> DEFINE T == {n - m : m \in S}
<1>1. T \in SUBSET Nat /\ T # {}
  <2>1. \A m \in S : n - m \in Nat
    OBVIOUS
  <2>2. PICK m \in S : TRUE
    OBVIOUS
  <2>3. n - m \in T
    OBVIOUS
  <2> QED BY <2>1, <2>3
<1>2. PICK k \in T : \A j \in T : k <= j
  BY <1>1, LeastElement
<1>3. PICK m \in S : k = n - m
  BY <1>2
<1>4. \A j \in S : m >= j
  BY <1>2, <1>3
<1> QED BY <1>3, <1>4 DEF Max

LEMMA MinMaxOfPair ==
    ASSUME NEW a \in Nat, NEW b \in Nat, b < a
    PROVE  Min({a, b}) = b /\ Max({a, b}) = a
<1>1. Min({a, b}) \in {a, b} /\ \A m \in {a, b} : Min({a, b}) <= m
  BY MinOfSet
<1>2. {a, b} \in SUBSET (0..a) /\ {a, b} # {}
  OBVIOUS
<1>3. Max({a, b}) \in {a, b} /\ \A m \in {a, b} : m <= Max({a, b})
  BY <1>2, MaxOfSet
<1> QED BY <1>1, <1>3

LEMMA Bounds ==
    /\ LastTime \in Nat /\ MaxOperations \in Nat /\ MaxActions \in Nat
    /\ MaxObserved \in Nat /\ MaxSegments \in Nat /\ RecentLimit \in Nat
BY BuilderAssumption

LEMMA NewActionFacts ==
    ASSUME operations \in Seq(Times), Len(operations) <= MaxOperations,
           NEW g \in SUBSET (DOMAIN operations), g # {}
    PROVE  /\ NewAction(g) \in Action /\ NewAction(g).ops = g
           /\ NewAction(g).start <= NewAction(g).end
<1> DEFINE times == {operations[o] : o \in g}
<1>1. DOMAIN operations = 1..Len(operations) /\ Len(operations) \in Nat
  BY LenProperties
<1>2. times \in SUBSET (0..LastTime) /\ times # {} /\ times \in SUBSET Nat
  BY <1>1, Bounds, ElementOfSeq DEF Times
<1> HIDE DEF times
<1>3. Min(times) \in times /\ Max(times) \in times /\ Min(times) <= Max(times)
  <2>1. Min(times) \in times /\ \A m \in times : Min(times) <= m
    BY <1>2, MinOfSet
  <2>2. Max(times) \in times
    BY <1>2, MaxOfSet, Bounds
  <2> QED BY <2>1, <2>2
<1>4. g \in SUBSET (1..MaxOperations)
  BY <1>1, Bounds
<1>5. NewAction(g) = [ops |-> g, start |-> Min(times), end |-> Max(times)]
  BY DEF NewAction, times
<1>6. Min(times) \in Times /\ Max(times) \in Times
  BY <1>2, <1>3 DEF Times
<1>7. NewAction(g) \in Action
  BY <1>4, <1>5, <1>6 DEF Action
<1> QED BY <1>3, <1>5, <1>7

-----------------------------------------------------------------------------
(* What the segments of an answer make of a batch *)

LEMMA SegmentsFinite ==
    ASSUME NEW n \in Nat, NEW segs \in SUBSET [from : 1..n, to : 1..n + 1]
    PROVE  IsFiniteSet(segs) /\ Cardinality(segs) \in Nat
<1> DEFINE S == (1..n) \X (1..n + 1)
           T == [from : 1..n, to : 1..n + 1]
           f == [p \in S |-> [from |-> p[1], to |-> p[2]]]
<1>1. IsFiniteSet(S)
  <2>1. IsFiniteSet(1..n) /\ IsFiniteSet(1..n + 1)
    BY FS_Interval
  <2> QED BY <2>1, FS_Product
<1>2. f \in Surjection(S, T)
  <2>1. f \in [S -> T]
    OBVIOUS
  <2>2. ASSUME NEW t \in T PROVE \E p \in S : f[p] = t
    <3>1. <<t.from, t.to>> \in S /\ f[<<t.from, t.to>>] = [from |-> t.from, to |-> t.to]
      OBVIOUS
    <3>2. t = [from |-> t.from, to |-> t.to]
      OBVIOUS
    <3> QED BY <3>1, <3>2
  <2> HIDE DEF f, S, T
  <2> QED BY <2>1, <2>2 DEF Surjection
<1>3. IsFiniteSet(T)
  BY <1>1, <1>2, FS_Surjection
<1> HIDE DEF T
<1>4. segs \in SUBSET T
  BY DEF T
<1> QED BY <1>3, <1>4, FS_Subset, FS_CardinalityType

\* In whatever segments the model answers, the groups are sets of operations of the
\* batch, none empty, and each operation of the batch is in one group.
Partitions(groups, batch) ==
    /\ groups \in Seq((SUBSET ToSet(batch)) \ {{}})
    /\ \A o \in ToSet(batch) : \E k \in DOMAIN groups : {j \in DOMAIN groups : o \in groups[j]} = {k}

LEMMA GroupsPartition ==
    ASSUME NEW S, NEW batch \in Seq(S), batch # <<>>,
           \A i, j \in DOMAIN batch : batch[i] = batch[j] => i = j,
           NEW segs \in SUBSET [from : 1..Len(batch), to : 1..Len(batch) + 1],
           NEW groups \in Groups(segs, batch)
    PROVE  Partitions(groups, batch)
<1> DEFINE n == Len(batch)
<1>1. n \in Nat /\ DOMAIN batch = 1..n /\ n # 0
  BY LenProperties, EmptySeq
<1>2. \A i \in 1..n : batch[i] \in ToSet(batch)
  BY <1>1 DEF ToSet
<1>3. CASE ~Covers(segs, n)
  <2>1. groups = <<ToSet(batch)>>
    BY <1>3 DEF Groups
  <2>2. ToSet(batch) # {}
    BY <1>1, <1>2
  <2>3. groups \in Seq((SUBSET ToSet(batch)) \ {{}}) /\ DOMAIN groups = {1} /\ groups[1] = ToSet(batch)
    BY <2>1, <2>2
  <2> QED BY <2>3 DEF Partitions
<1>4. CASE Covers(segs, n)
  <2>1. PICK q \in Sorted(segs) : groups = [k \in DOMAIN q |-> {batch[i] : i \in q[k].from..q[k].to}]
    BY <1>4 DEF Groups
  <2> DEFINE m == Cardinality(segs)
  <2>2. m \in Nat
    BY <1>1, SegmentsFinite
  <2> HIDE DEF m, n
  <2>3. /\ q \in [1..m -> segs] /\ ToSet(q) = segs
        /\ \A j, k \in 1..m : j < k => q[j].from < q[k].from
    BY <2>1 DEF Sorted, m
  <2>4. DOMAIN q = 1..m /\ DOMAIN groups = 1..m
    BY <2>1, <2>3
  <2>5. \A k \in 1..m : q[k] \in segs /\ q[k].from \in 1..n /\ q[k].to \in 1..n /\ q[k].from <= q[k].to
    <3>1. \A s \in segs : s.from \in 1..n /\ s.to \in Nat /\ s.from <= s.to /\ s.to <= n
      BY <1>1, <1>4 DEF Covers, n
    <3> QED BY <1>1, <2>3, <3>1
  <2>6. ASSUME NEW k \in 1..m PROVE groups[k] \in (SUBSET ToSet(batch)) \ {{}}
    <3>1. groups[k] = {batch[i] : i \in q[k].from..q[k].to}
      BY <2>1, <2>4
    <3>2. q[k].from..q[k].to \subseteq 1..n /\ q[k].from \in q[k].from..q[k].to
      BY <1>1, <2>5
    <3>3. \A i \in q[k].from..q[k].to : batch[i] \in ToSet(batch)
      BY <1>2, <3>2 DEF n
    <3>4. batch[q[k].from] \in groups[k]
      BY <3>1, <3>2
    <3> QED BY <3>1, <3>3, <3>4
  <2>7. groups \in Seq((SUBSET ToSet(batch)) \ {{}})
    <3> DEFINE X == (SUBSET ToSet(batch)) \ {{}}
    <3>1. groups = [k \in 1..m |-> groups[k]]
      BY <2>1, <2>4
    <3> HIDE DEF X
    <3>2. \A k \in 1..m : groups[k] \in X
      BY <2>6 DEF X
    <3>3. groups \in Seq(X)
      BY <2>2, <3>1, <3>2
    <3> QED BY <3>3 DEF X
  <2>8. ASSUME NEW o \in ToSet(batch)
        PROVE  \E k \in DOMAIN groups : {j \in DOMAIN groups : o \in groups[j]} = {k}
    <3>1. PICK i \in 1..n : o = batch[i]
      BY <1>1 DEF ToSet, n
    <3>2. PICK s \in segs : Of(segs, i) = {s}
      BY <1>4, <3>1 DEF Covers
    <3>3. PICK k \in 1..m : q[k] = s
      BY <2>3, <2>4, <3>2 DEF ToSet
    <3>4. ASSUME NEW j \in 1..m PROVE o \in groups[j] <=> j = k
      <4>1. o \in groups[j] <=> \E h \in q[j].from..q[j].to : o = batch[h]
        BY <2>1, <2>4
      <4>2. \A h \in 1..n : batch[h] = batch[i] => h = i
        BY <1>1, <3>1 DEF n
      <4>3. q[j].from..q[j].to \subseteq 1..n
        BY <1>1, <2>5
      <4>4. o \in groups[j] <=> i \in q[j].from..q[j].to
        BY <3>1, <4>1, <4>2, <4>3
      <4>5. i \in q[j].from..q[j].to <=> q[j].from <= i /\ i <= q[j].to
        BY <1>1, <2>5
      <4>6. q[j] \in Of(segs, i) <=> q[j].from <= i /\ i <= q[j].to
        BY <2>5 DEF Of
      <4>7. o \in groups[j] <=> q[j] = q[k]
        BY <3>2, <3>3, <4>4, <4>5, <4>6
      <4>8. q[j] = q[k] => j = k
        <5>1. q[j].from \in Nat /\ q[k].from \in Nat
          BY <1>1, <2>5
        <5>2. j < k \/ k < j \/ j = k
          BY <2>2
        <5> QED BY <2>3, <5>1, <5>2
      <4> QED BY <4>7, <4>8
    <3> QED BY <2>4, <3>4
  <2> QED BY <2>7, <2>8 DEF Partitions
<1> QED BY <1>3, <1>4

-----------------------------------------------------------------------------
(* A build *)

NewPlaces(groups) == Len(actions) + 1..Len(actions) + Len(groups)
WithNew(groups) == actions \o [k \in DOMAIN groups |-> NewAction(groups[k])]

Stored == DOMAIN actions

LEMMA StoredFacts ==
    ASSUME BuilderInv
    PROVE  /\ actions \in Seq(Action) /\ Len(actions) \in Nat /\ Stored = 1..Len(actions)
           /\ operations \in Seq(Times) /\ Len(operations) \in Nat
           /\ DOMAIN operations = 1..Len(operations) /\ Len(operations) <= MaxOperations
           /\ pending \in Seq(DOMAIN operations) /\ ToSet(pending) \subseteq DOMAIN operations
           /\ DOMAIN pending = 1..Len(pending) /\ Len(pending) \in Nat
           /\ built \in Seq(Nat) /\ Len(built) = Len(operations) /\ DOMAIN built = DOMAIN operations
<1>1. /\ actions \in Seq(Action) /\ operations \in Seq(Times) /\ Len(operations) <= MaxOperations
      /\ pending \in Seq(DOMAIN operations)
      /\ built \in Seq(Nat) /\ Len(built) = Len(operations)
  BY DEF BuilderInv, BuilderTypeOK, PendingOnce, CountsBuilds
<1>2. /\ DOMAIN operations = 1..Len(operations) /\ DOMAIN built = 1..Len(built)
      /\ Stored = 1..Len(actions) /\ DOMAIN pending = 1..Len(pending)
      /\ Len(actions) \in Nat /\ Len(operations) \in Nat /\ Len(pending) \in Nat
  BY <1>1, LenProperties DEF Stored
<1>3. ToSet(pending) \subseteq DOMAIN operations
  <2>1. \A i \in DOMAIN pending : pending[i] \in DOMAIN operations
    BY <1>1, <1>2, ElementOfSeq
  <2> QED BY <2>1 DEF ToSet
<1> QED BY <1>1, <1>2, <1>3

LEMMA ActionsBuilt ==
    ASSUME BuilderInv, NEW groups, Partitions(groups, pending)
    PROVE  /\ WithNew(groups) \in Seq(Action) /\ Len(groups) \in Nat
           /\ Len(WithNew(groups)) = Len(actions) + Len(groups)
           /\ \A a \in 1..Len(actions) : WithNew(groups)[a] = actions[a]
           /\ \A k \in 1..Len(groups) :
                 /\ Len(actions) + k \in NewPlaces(groups)
                 /\ WithNew(groups)[Len(actions) + k].ops = groups[k]
                 /\ groups[k] # {} /\ groups[k] \subseteq DOMAIN operations
                 /\ WithNew(groups)[Len(actions) + k].start <= WithNew(groups)[Len(actions) + k].end
<1> DEFINE n == Len(actions)
           g == Len(groups)
           made == [k \in DOMAIN groups |-> NewAction(groups[k])]
<1>1. n \in Nat /\ actions \in Seq(Action) /\ ToSet(pending) \subseteq DOMAIN operations
      /\ operations \in Seq(Times) /\ Len(operations) <= MaxOperations
  BY StoredFacts
<1>2. groups \in Seq((SUBSET ToSet(pending)) \ {{}})
  BY DEF Partitions
<1>3. g \in Nat /\ DOMAIN groups = 1..g /\ \A k \in 1..g : groups[k] \in (SUBSET ToSet(pending)) \ {{}}
  BY <1>2, LenProperties, ElementOfSeq
<1>4. ASSUME NEW k \in 1..g
      PROVE  /\ NewAction(groups[k]) \in Action /\ NewAction(groups[k]).ops = groups[k]
             /\ NewAction(groups[k]).start <= NewAction(groups[k]).end
             /\ groups[k] # {} /\ groups[k] \subseteq DOMAIN operations
  <2>1. groups[k] # {} /\ groups[k] \in SUBSET (DOMAIN operations)
    BY <1>1, <1>3
  <2> QED BY <1>1, <2>1, NewActionFacts
<1>5. made \in [1..g -> Action]
  BY <1>3, <1>4
<1>6. made \in Seq(Action) /\ Len(made) = g /\ \A k \in 1..g : made[k] = NewAction(groups[k])
  <2>1. \A k \in 1..g : made[k] = NewAction(groups[k])
    BY <1>3
  <2> HIDE DEF made, g
  <2> QED BY <1>3, <1>5, <2>1
<1> HIDE DEF made, g, n
<1>7. /\ actions \o made \in Seq(Action) /\ Len(actions \o made) = n + g
      /\ \A i \in 1..(n + g) : (actions \o made)[i] = IF i <= n THEN actions[i] ELSE made[i - n]
  BY <1>1, <1>6, ConcatProperties DEF n
<1>8. WithNew(groups) = actions \o made
  BY DEF WithNew, made
<1>9. \A a \in 1..n : WithNew(groups)[a] = actions[a]
  BY <1>1, <1>3, <1>7, <1>8
<1>10. ASSUME NEW k \in 1..g
       PROVE  n + k \in NewPlaces(groups) /\ WithNew(groups)[n + k] = NewAction(groups[k])
  <2>1. n + k \in 1..(n + g) /\ ~(n + k <= n) /\ (n + k) - n = k
    BY <1>1, <1>3
  <2>2. WithNew(groups)[n + k] = made[k]
    BY <1>7, <1>8, <2>1
  <2>3. n + k \in NewPlaces(groups)
    BY <1>1, <1>3 DEF NewPlaces, n, g
  <2> QED BY <1>6, <2>2, <2>3
<1> QED BY <1>3, <1>4, <1>7, <1>8, <1>9, <1>10 DEF n, g

\* One new action has an operation of the batch, none another one.
LEMMA OneMoreAction ==
    ASSUME BuilderInv, NEW groups, Partitions(groups, pending), NEW o \in DOMAIN operations
    PROVE  Cardinality({a \in DOMAIN WithNew(groups) : o \in WithNew(groups)[a].ops})
             = built[o] + Cardinality({i \in DOMAIN pending : pending[i] = o})
<1> DEFINE n == Len(actions)
           g == Len(groups)
           acts == WithNew(groups)
           S == {a \in DOMAIN actions : o \in actions[a].ops}
           T == {a \in DOMAIN acts : o \in acts[a].ops}
           P == {i \in DOMAIN pending : pending[i] = o}
<1>1. n \in Nat /\ DOMAIN actions = 1..n /\ built[o] \in Nat
  <2>1. o \in 1..Len(built) /\ built \in Seq(Nat)
    BY StoredFacts
  <2> QED BY StoredFacts, <2>1, ElementOfSeq DEF Stored
<1>2. /\ g \in Nat /\ acts \in Seq(Action) /\ Len(acts) = n + g
      /\ \A a \in 1..n : acts[a] = actions[a]
      /\ \A k \in 1..g : acts[n + k].ops = groups[k]
  BY ActionsBuilt
<1>3. DOMAIN acts = 1..(n + g) /\ DOMAIN groups = 1..g
  <2>1. groups \in Seq((SUBSET ToSet(pending)) \ {{}})
    BY DEF Partitions
  <2> HIDE DEF acts
  <2> QED BY <1>2, <2>1, LenProperties
<1>4. Cardinality(S) = built[o]
  BY DEF BuilderInv, EveryOperationOncePerBuild
<1>5. IsFiniteSet(S)
  <2>1. IsFiniteSet(1..n) /\ S \in SUBSET (1..n)
    BY <1>1, FS_Interval
  <2> HIDE DEF S
  <2> QED BY <2>1, FS_Subset
<1> HIDE DEF acts, n, g
<1>6. CASE o \in ToSet(pending)
  <2>1. PICK k \in 1..g : {j \in 1..g : o \in groups[j]} = {k}
    BY <1>3, <1>6 DEF Partitions
  <2>2. T = S \cup {n + k}
    <3>1. ASSUME NEW a \in 1..(n + g) PROVE a \in T <=> a \in S \/ a = n + k
      <4>1. CASE a <= n
        <5>1. a \in 1..n /\ a # n + k
          BY <1>1, <1>2, <4>1
        <5> QED BY <1>1, <1>2, <1>3, <5>1
      <4>2. CASE ~(a <= n)
        <5>1. a - n \in 1..g /\ n + (a - n) = a /\ a \notin 1..n
          BY <1>1, <1>2, <4>2
        <5>2. acts[a].ops = groups[a - n]
          BY <1>2, <5>1
        <5>3. o \in groups[a - n] <=> a - n = k
          BY <2>1, <5>1
        <5>4. a - n = k <=> a = n + k
          BY <1>1, <1>2, <5>1
        <5>5. a \notin S
          BY <1>1, <5>1
        <5> QED BY <1>3, <5>2, <5>3, <5>4, <5>5
      <4> QED BY <4>1, <4>2
    <3>2. T \subseteq 1..(n + g) /\ S \subseteq 1..(n + g) /\ n + k \in 1..(n + g)
      BY <1>1, <1>2, <1>3
    <3> QED BY <3>1, <3>2
  <2>3. n + k \notin S
    BY <1>1, <1>2
  <2>4. Cardinality(T) = Cardinality(S) + 1
    <3> HIDE DEF S, T
    <3> QED BY <1>5, <2>2, <2>3, FS_AddElement
  <2>5. PICK i \in DOMAIN pending : P = {i}
    <3>1. PICK i \in DOMAIN pending : pending[i] = o
      BY <1>6 DEF ToSet
    <3>2. \A j \in DOMAIN pending : pending[j] = o => j = i
      BY <3>1 DEF BuilderInv, PendingOnce
    <3> QED BY <3>1, <3>2
  <2>6. Cardinality(P) = 1
    BY <2>5, FS_Singleton
  <2> HIDE DEF S, T, P
  <2>7. Cardinality(T) = built[o] + Cardinality(P)
    BY <1>4, <2>4, <2>6
  <2> QED BY <2>7 DEF T, P, acts
<1>7. CASE o \notin ToSet(pending)
  <2>1. P = {}
    BY <1>7 DEF ToSet
  <2>2. \A k \in 1..g : o \notin groups[k]
    <3>1. groups \in Seq((SUBSET ToSet(pending)) \ {{}})
      BY DEF Partitions
    <3>2. \A k \in 1..g : groups[k] \in (SUBSET ToSet(pending)) \ {{}}
      BY <3>1, ElementOfSeq DEF g
    <3> QED BY <1>7, <3>2
  <2>3. T = S
    <3>1. ASSUME NEW a \in 1..(n + g) PROVE a \in T <=> a \in S
      <4>1. CASE a <= n
        <5>1. a \in 1..n
          BY <1>1, <1>2, <4>1
        <5> QED BY <1>1, <1>2, <1>3, <5>1
      <4>2. CASE ~(a <= n)
        <5>1. a - n \in 1..g /\ n + (a - n) = a /\ a \notin 1..n
          BY <1>1, <1>2, <4>2
        <5>2. acts[a].ops = groups[a - n]
          BY <1>2, <5>1
        <5> QED BY <1>1, <2>2, <5>1, <5>2
      <4> QED BY <4>1, <4>2
    <3>2. T \subseteq 1..(n + g) /\ S \subseteq 1..(n + g)
      BY <1>1, <1>2, <1>3
    <3> QED BY <3>1, <3>2
  <2>4. Cardinality(P) = 0 /\ Cardinality(T) = Cardinality(S)
    BY <2>1, <2>3, FS_EmptySet
  <2> HIDE DEF S, T, P
  <2>5. Cardinality(T) = built[o] + Cardinality(P)
    BY <1>1, <1>4, <2>4
  <2> QED BY <2>5 DEF T, P, acts
<1> QED BY <1>6, <1>7

-----------------------------------------------------------------------------
(* The relations of a build *)

\* There is one latest action at most.
LEMMA OneLatest ==
    ASSUME BuilderInv, NEW newest \in Recent(actions, 1)
    PROVE  newest \in SUBSET (1..Len(actions)) /\ \A a, b \in newest : a = b
<1>1. newest \in SUBSET Stored /\ Cardinality(newest) = Min({1, Len(actions)})
  BY DEF Recent, Stored
<1>2. Len(actions) \in Nat /\ Stored = 1..Len(actions)
  BY StoredFacts
<1>3. Min({1, Len(actions)}) \in {0, 1}
  <2>1. {1, Len(actions)} \in SUBSET Nat /\ {1, Len(actions)} # {}
    BY <1>2
  <2>2. Min({1, Len(actions)}) \in {1, Len(actions)} /\ Min({1, Len(actions)}) <= 1
    BY <2>1, MinOfSet
  <2> QED BY <1>2, <2>2
<1>4. IsFiniteSet(newest)
  <2>1. IsFiniteSet(1..Len(actions))
    BY <1>2, FS_Interval
  <2> QED BY <1>1, <1>2, <2>1, FS_Subset
<1>5. newest = {} \/ \E x : newest = {x}
  <2>1. Cardinality(newest) = 0 \/ Cardinality(newest) = 1
    BY <1>1, <1>3
  <2> QED BY <1>4, <2>1, FS_EmptySet, FS_Singleton
<1> QED BY <1>1, <1>2, <1>5

LEMMA ChainsFacts ==
    ASSUME BuilderInv, NEW groups, Partitions(groups, pending), NEW newest \in Recent(actions, 1),
           NEW p \in Chains(WithNew(groups), NewPlaces(groups), newest)
    PROVE  /\ p \in (DOMAIN WithNew(groups)) \X NewPlaces(groups)
           /\ WithNew(groups)[p[1]].start < WithNew(groups)[p[2]].start
           /\ \A q \in Chains(WithNew(groups), NewPlaces(groups), newest) : p[2] = q[2] => p = q
<1> DEFINE D == DOMAIN WithNew(groups)
           N == NewPlaces(groups)
           C == Chains(WithNew(groups), N, newest)
<1>1. \A q \in C : q \in D \X N /\ q[1] \in Predecessors(q[2], newest)
                    /\ WithNew(groups)[q[1]].start < WithNew(groups)[q[2]].start
  BY DEF Chains
<1>2. \A a, b \in newest : a = b
  BY OneLatest
<1>3. ASSUME NEW q \in C, p[2] = q[2] PROVE p = q
  <2>1. p[1] = q[1]
    BY <1>1, <1>2, <1>3 DEF Predecessors
  <2>2. p \in D \X N /\ q \in D \X N
    BY <1>1
  <2> HIDE DEF C, D, N
  <2> QED BY <1>3, <2>1, <2>2
<1> QED BY <1>1, <1>3

\* An overlap found by a build is between an action from before and a new one.
LEMMA OverlapsFacts ==
    ASSUME BuilderInv, NEW groups, Partitions(groups, pending),
           NEW recent \in Recent(WithNew(groups), RecentLimit),
           NEW l \in OverlapsWith(WithNew(groups), NewPlaces(groups), recent)
    PROVE  \E b \in 1..Len(actions), a \in NewPlaces(groups) : l = <<b, a>>
<1> DEFINE acts == WithNew(groups)
           N == NewPlaces(groups)
<1>1. /\ Len(actions) \in Nat /\ Len(groups) \in Nat
      /\ acts \in Seq(Action) /\ Len(acts) = Len(actions) + Len(groups)
  BY ActionsBuilt, StoredFacts
<1>2. DOMAIN acts = 1..Len(actions) + Len(groups)
  <2> HIDE DEF acts
  <2> QED BY <1>1, LenProperties
<1> HIDE DEF acts
<1>3. recent \in SUBSET (DOMAIN acts)
  BY DEF Recent, acts
<1>4. PICK p \in N \X (recent \ N) : l = <<Min({p[1], p[2]}), Max({p[1], p[2]})>>
  BY DEF OverlapsWith
<1>5. p[1] \in N /\ p[2] \in 1..Len(actions) + Len(groups) /\ p[2] \notin N
  BY <1>2, <1>3, <1>4
<1>6. p[1] \in Nat /\ p[2] \in Nat /\ p[2] \in 1..Len(actions) /\ p[2] < p[1]
  BY <1>1, <1>5 DEF NewPlaces
<1>7. Min({p[1], p[2]}) = p[2] /\ Max({p[1], p[2]}) = p[1]
  BY <1>6, MinMaxOfPair
<1> QED BY <1>4, <1>5, <1>6, <1>7

\* A build that has made its groups.
Builds(groups, cut) ==
    /\ pending # <<>> /\ Len(WithNew(groups)) <= MaxActions
    /\ attempt' = 0 /\ actions' = WithNew(groups)
    /\ \E newest \in Recent(actions, 1) :
          follows' = follows \cup Chains(WithNew(groups), NewPlaces(groups), newest)
    /\ \E recent \in Recent(WithNew(groups), RecentLimit) :
          overlaps' = overlaps \cup OverlapsWith(WithNew(groups), NewPlaces(groups), recent)
    /\ together' = together \cup {p \in NewPlaces(groups) \X NewPlaces(groups) : p[1] < p[2]}
    /\ built' = [o \in DOMAIN built |-> built[o] + Cardinality({i \in DOMAIN pending : pending[i] = o})]
    /\ pending' = IF cut THEN pending ELSE <<>>
    /\ operations' = operations

LEMMA BuildsIs == ASSUME NEW groups, NEW cut, BuildActions(groups, cut) PROVE Builds(groups, cut)
BY DEF BuildActions, Builds, WithNew, NewPlaces

\* The relations between the actions there are.
Related == (follows \cup together \cup overlaps) \subseteq Stored \X Stored

LEMMA RelatedIs ==
    ASSUME BuilderInv
    PROVE  Related
<1>1. follows \subseteq Pairs /\ together \subseteq Pairs /\ overlaps \subseteq Pairs
      /\ \A l \in follows \cup together \cup overlaps : {l[1], l[2]} \subseteq Stored
  BY DEF BuilderInv, BuilderTypeOK, Stored
<1>2. ASSUME NEW l \in follows \cup together \cup overlaps PROVE l \in Stored \X Stored
  <2>1. l \in Pairs /\ l[1] \in Stored /\ l[2] \in Stored
    BY <1>1
  <2>2. l = <<l[1], l[2]>>
    BY <2>1 DEF Pairs
  <2> QED BY <2>1, <2>2
<1> QED BY <1>2 DEF Related

LEMMA RelationsBuilt ==
    ASSUME BuilderInv, NEW groups, Partitions(groups, pending), NEW cut, Builds(groups, cut)
    PROVE  /\ Stored' = 1..Len(actions) + Len(groups) /\ Related'
           /\ Stored' \subseteq 1..MaxActions /\ RelationsFit'
<1> DEFINE n == Len(actions)
           N == NewPlaces(groups)
           acts == WithNew(groups)
           S == 1..n
           D == 1..n + Len(groups)
<1>1. /\ n \in Nat /\ Len(groups) \in Nat /\ acts \in Seq(Action)
      /\ Len(acts) = n + Len(groups) /\ Stored = S
  BY ActionsBuilt, StoredFacts
<1>2. \A a \in S : acts[a] = actions[a]
  BY ActionsBuilt
<1>3. Stored' = D /\ DOMAIN acts = D /\ D \subseteq 1..MaxActions
  <2>1. actions' = acts /\ Len(acts) <= MaxActions
    BY DEF Builds
  <2>2. DOMAIN acts = 1..Len(acts)
    <3> HIDE DEF acts
    <3> QED BY <1>1, LenProperties
  <2> HIDE DEF acts
  <2>3. D \subseteq 1..MaxActions
    BY <1>1, <2>1, Bounds
  <2> QED BY <1>1, <2>1, <2>2, <2>3 DEF Stored
<1>4. S \subseteq D /\ N \subseteq D /\ S \cap N = {} /\ \A a \in S, b \in N : a < b
  BY <1>1 DEF NewPlaces
<1>5. PICK newest \in Recent(actions, 1) : follows' = follows \cup Chains(acts, N, newest)
  BY DEF Builds
<1>6. PICK recent \in Recent(acts, RecentLimit) : overlaps' = overlaps \cup OverlapsWith(acts, N, recent)
  BY DEF Builds
<1>7. together' = together \cup {p \in N \X N : p[1] < p[2]} /\ actions' = acts
  BY DEF Builds
<1> DEFINE C == Chains(acts, N, newest)
           O == OverlapsWith(acts, N, recent)
           T == {p \in N \X N : p[1] < p[2]}
<1>8. \A p \in C : /\ p \in D \X N /\ acts[p[1]].start < acts[p[2]].start
                   /\ \A q \in C : p[2] = q[2] => p = q
  BY <1>3, ChainsFacts
<1>9. \A l \in O : \E b \in S, a \in N : l = <<b, a>>
  BY OverlapsFacts
<1>10. /\ follows \subseteq S \X S /\ together \subseteq S \X S /\ overlaps \subseteq S \X S
  BY <1>1, RelatedIs DEF Related
<1>11. /\ \A k, l \in follows : /\ actions[k[1]].start < actions[k[2]].start
                                /\ k[2] = l[2] => k = l
       /\ together \cap overlaps = {}
       /\ \A l \in together \cup overlaps : l[1] < l[2]
  BY DEF BuilderInv, RelationsFit
<1> HIDE DEF C, O, T, N, S, D, acts, n
<1>12. follows' = follows \cup C /\ overlaps' = overlaps \cup O /\ together' = together \cup T
  BY <1>5, <1>6, <1>7 DEF C, O, T
<1>13. T \subseteq N \X N /\ \A l \in T : l[1] < l[2]
  BY DEF T
<1>14. O \subseteq S \X N /\ \A l \in O : l[1] < l[2]
  BY <1>4, <1>9
<1>15. C \subseteq D \X N
  BY <1>8
<1>16. Related'
  <2>1. /\ follows' \subseteq D \X D /\ together' \subseteq D \X D /\ overlaps' \subseteq D \X D
    BY <1>4, <1>10, <1>12, <1>13, <1>14, <1>15
  <2> QED BY <1>3, <2>1 DEF Related
<1>17. ASSUME NEW k \in follows', NEW l \in follows'
       PROVE  /\ actions'[k[1]].start < actions'[k[2]].start
              /\ k[2] = l[2] => k = l
  <2>1. ASSUME NEW j \in follows PROVE acts[j[1]].start < acts[j[2]].start /\ j[2] \in S
    <3>1. j[1] \in S /\ j[2] \in S
      BY <1>10
    <3>2. acts[j[1]] = actions[j[1]] /\ acts[j[2]] = actions[j[2]]
      BY <1>2, <3>1
    <3> QED BY <1>11, <3>1, <3>2
  <2>2. \A j \in C : acts[j[1]].start < acts[j[2]].start /\ j[2] \in N
    BY <1>8, <1>15
  <2>3. actions'[k[1]].start < actions'[k[2]].start
    BY <1>7, <1>12, <2>1, <2>2
  <2>4. k[2] = l[2] => (k \in follows /\ l \in follows) \/ (k \in C /\ l \in C)
    BY <1>4, <1>12, <2>1, <2>2
  <2> QED BY <1>8, <1>11, <2>3, <2>4
<1>18. together' \cap overlaps' = {}
  <2>1. together \cap O = {} /\ T \cap overlaps = {} /\ T \cap O = {}
    BY <1>4, <1>10, <1>13, <1>14
  <2> QED BY <1>11, <1>12, <2>1
<1>19. \A l \in together' \cup overlaps' : l[1] < l[2]
  BY <1>11, <1>12, <1>13, <1>14
<1>20. RelationsFit'
  BY <1>17, <1>18, <1>19 DEF RelationsFit
<1> QED BY <1>3, <1>16, <1>20 DEF D, n

-----------------------------------------------------------------------------
(* One lemma per action *)

LEMMA BuildStep ==
    ASSUME BuilderInv, NEW groups, Partitions(groups, pending), NEW cut \in BOOLEAN, Builds(groups, cut)
    PROVE  BuilderInv'
<1>1. /\ operations' = operations /\ attempt' = 0 /\ actions' = WithNew(groups)
      /\ built' = [o \in DOMAIN built |-> built[o] + Cardinality({i \in DOMAIN pending : pending[i] = o})]
      /\ pending' \in {pending, <<>>}
  BY DEF Builds
<1>2. /\ Stored' = 1..Len(actions) + Len(groups) /\ Related'
      /\ Stored' \subseteq 1..MaxActions /\ RelationsFit'
  BY RelationsBuilt
<1>3. /\ WithNew(groups) \in Seq(Action) /\ Len(groups) \in Nat
      /\ Len(WithNew(groups)) = Len(actions) + Len(groups)
      /\ \A a \in 1..Len(actions) : WithNew(groups)[a] = actions[a]
      /\ \A k \in 1..Len(groups) :
            /\ WithNew(groups)[Len(actions) + k].ops = groups[k]
            /\ groups[k] # {} /\ groups[k] \subseteq DOMAIN operations
            /\ WithNew(groups)[Len(actions) + k].start <= WithNew(groups)[Len(actions) + k].end
  BY ActionsBuilt
<1>4. /\ Len(actions) \in Nat /\ Stored = 1..Len(actions)
      /\ operations \in Seq(Times) /\ Len(operations) <= MaxOperations /\ Len(operations) \in Nat
      /\ DOMAIN operations = 1..Len(operations) /\ pending \in Seq(DOMAIN operations)
      /\ DOMAIN built = 1..Len(operations) /\ built \in Seq(Nat) /\ Len(built) = Len(operations)
      /\ DOMAIN pending = 1..Len(pending)
  BY StoredFacts
<1>5. \A a \in 1..Len(actions) : /\ actions[a].ops # {} /\ actions[a].ops \subseteq DOMAIN operations
                                  /\ actions[a].start <= actions[a].end
  BY <1>4 DEF BuilderInv, BuilderTypeOK, OfStored, Stored
<1>6. ASSUME NEW a \in Stored'
      PROVE  /\ actions'[a].ops # {} /\ actions'[a].ops \subseteq DOMAIN operations
             /\ actions'[a].start <= actions'[a].end
  <2>1. CASE a \in 1..Len(actions)
    BY <1>1, <1>3, <1>5, <2>1
  <2>2. CASE a \notin 1..Len(actions)
    <3>1. a - Len(actions) \in 1..Len(groups) /\ Len(actions) + (a - Len(actions)) = a
      BY <1>2, <1>3, <1>4, <2>2
    <3> QED BY <1>1, <1>3, <3>1
  <2> QED BY <2>1, <2>2
<1>7. PendingOnce'
  <2>1. CASE pending' = pending
    BY <1>1, <2>1 DEF BuilderInv, PendingOnce
  <2>2. CASE pending' = <<>>
    BY <1>1, <2>2 DEF PendingOnce
  <2> QED BY <1>1, <2>1, <2>2
<1>8. CountsBuilds' /\ DOMAIN built' = DOMAIN operations
  <2>1. \A o \in DOMAIN operations : Cardinality({i \in DOMAIN pending : pending[i] = o}) \in Nat
    <3>1. ASSUME NEW o \in DOMAIN operations
          PROVE  Cardinality({i \in DOMAIN pending : pending[i] = o}) \in Nat
      <4>1. IsFiniteSet(DOMAIN pending)
        BY StoredFacts, FS_Interval
      <4>2. {i \in DOMAIN pending : pending[i] = o} \in SUBSET DOMAIN pending
        OBVIOUS
      <4> QED BY <4>1, <4>2, FS_Subset, FS_CardinalityType
    <3> QED BY <3>1
  <2>2. \A o \in 1..Len(operations) : built[o] \in Nat
    BY <1>4, ElementOfSeq
  <2> DEFINE more == [o \in 1..Len(operations) |-> Cardinality({i \in DOMAIN pending : pending[i] = o})]
             b == [o \in 1..Len(operations) |-> built[o] + more[o]]
  <2>3. built' = b
    BY <1>1, <1>4
  <2>4. \A o \in 1..Len(operations) : more[o] \in Nat
    BY <1>4, <2>1
  <2> HIDE DEF more
  <2>5. b \in Seq(Nat) /\ Len(b) = Len(operations) /\ DOMAIN b = 1..Len(operations)
    BY <1>4, <2>2, <2>4
  <2> HIDE DEF b
  <2> QED BY <1>1, <1>4, <2>3, <2>5 DEF CountsBuilds
<1>9. BuilderTypeOK'
  <2>1. \A i \in DOMAIN pending' : pending'[i] \in DOMAIN operations'
    <3>1. pending' \in Seq(DOMAIN operations')
      BY <1>7 DEF PendingOnce
    <3> QED BY <3>1, LenProperties, ElementOfSeq
  <2>2. attempt' \in 0..MAX_ATTEMPTS - 1
    BY <1>1 DEF MAX_ATTEMPTS
  <2>3. actions' \in Seq(Action) /\ Len(actions') <= MaxActions
    BY <1>1, <1>3 DEF Builds
  <2>4. \A a \in DOMAIN actions' : actions'[a].ops # {} /\ actions'[a].start <= actions'[a].end
    BY <1>6 DEF Stored
  <2>5. \A l \in follows' \cup together' \cup overlaps' : {l[1], l[2]} \subseteq DOMAIN actions'
    BY <1>2 DEF Related, Stored
  <2>6. Stored' \X Stored' \subseteq Pairs
    BY <1>2 DEF Pairs
  <2>7. follows' \in SUBSET Pairs /\ together' \in SUBSET Pairs /\ overlaps' \in SUBSET Pairs
    BY <1>2, <2>6 DEF Related
  <2> QED BY <1>1, <1>4, <1>8, <2>1, <2>2, <2>3, <2>4, <2>5, <2>7 DEF BuilderTypeOK
<1>10. OfStored'
  BY <1>1, <1>6 DEF OfStored, Stored
<1>11. EveryOperationOncePerBuild'
  <2>1. ASSUME NEW o \in DOMAIN operations
        PROVE  /\ Cardinality({a \in DOMAIN actions' : o \in actions'[a].ops}) = built'[o]
               /\ o \in ToSet(pending') \/ built'[o] > 0
    <3> DEFINE c == Cardinality({i \in DOMAIN pending : pending[i] = o})
    <3>1. built'[o] = built[o] + c
      <4>1. o \in DOMAIN built
        BY <1>4
      <4> QED BY <1>1, <4>1, Zenon
    <3>2. Cardinality({a \in DOMAIN actions' : o \in actions'[a].ops}) = built[o] + c
      <4>1. {a \in DOMAIN actions' : o \in actions'[a].ops}
               = {a \in DOMAIN WithNew(groups) : o \in WithNew(groups)[a].ops}
        BY <1>1
      <4>2. Cardinality({a \in DOMAIN WithNew(groups) : o \in WithNew(groups)[a].ops}) = built[o] + c
        BY OneMoreAction, Zenon
      <4> QED BY <4>1, <4>2, Zenon
    <3>3. built[o] \in Nat
      BY <1>4, ElementOfSeq
    <3>4. IsFiniteSet({i \in DOMAIN pending : pending[i] = o})
      <4>1. IsFiniteSet(DOMAIN pending)
        BY StoredFacts, FS_Interval
      <4> QED BY <4>1, FS_Subset
    <3>5. c \in Nat /\ (o \in ToSet(pending) => c # 0)
      <4>1. c \in Nat /\ (c = 0 <=> {i \in DOMAIN pending : pending[i] = o} = {})
        BY <3>4, FS_EmptySet, FS_CardinalityType
      <4>2. o \in ToSet(pending) => {i \in DOMAIN pending : pending[i] = o} # {}
        BY DEF ToSet
      <4> QED BY <4>1, <4>2
    <3>6. o \in ToSet(pending) \/ built[o] > 0
      BY DEF BuilderInv, EveryOperationOncePerBuild
    <3> HIDE DEF c
    <3>7. built'[o] > 0
      BY <3>1, <3>3, <3>5, <3>6
    <3> QED BY <3>1, <3>2, <3>7
  <2> QED BY <1>1, <2>1 DEF EveryOperationOncePerBuild
<1> QED BY <1>2, <1>7, <1>8, <1>9, <1>10, <1>11 DEF BuilderInv

LEMMA ObservationStep ==
    ASSUME BuilderInv, NEW n \in 0..MaxObserved, NEW t \in Times, ProcessObservation(n, t)
    PROVE  BuilderInv'
<1> DEFINE m == Len(operations)
           p == Len(pending)
<1>1. /\ m + n <= MaxOperations /\ UNCHANGED <<attempt, actions, follows, together, overlaps>>
      /\ operations' = operations \o [i \in 1..n |-> t]
      /\ pending' = pending \o [i \in 1..n |-> m + i]
      /\ built' = built \o [i \in 1..n |-> 0]
  BY DEF ProcessObservation
<1>2. /\ operations \in Seq(Times) /\ DOMAIN operations = 1..m /\ m \in Nat
      /\ pending \in Seq(1..m) /\ DOMAIN pending = 1..p /\ p \in Nat
      /\ built \in Seq(Nat) /\ Len(built) = m /\ DOMAIN built = 1..m
  BY StoredFacts
<1>3. n \in Nat
  BY Bounds
<1> HIDE DEF m, p
<1>4. /\ operations' \in Seq(Times) /\ Len(operations') = m + n /\ DOMAIN operations' = 1..m + n
  <2>1. [i \in 1..n |-> t] \in Seq(Times) /\ Len([i \in 1..n |-> t]) = n
    BY <1>3
  <2>2. operations' \in Seq(Times) /\ Len(operations') = m + n
    BY <1>1, <1>2, <2>1, ConcatProperties DEF m
  <2> QED BY <2>2, LenProperties
<1>5. /\ built' \in Seq(Nat) /\ Len(built') = m + n /\ DOMAIN built' = 1..m + n
      /\ \A o \in 1..m + n : built'[o] = IF o <= m THEN built[o] ELSE 0
  <2> DEFINE zeros == [i \in 1..n |-> 0]
  <2>1. zeros \in Seq(Nat) /\ Len(zeros) = n /\ \A i \in 1..n : zeros[i] = 0
    <3>1. PICK zero \in Nat : zero = 0
      OBVIOUS
    <3>2. [i \in 1..n |-> zero] \in Seq(Nat) /\ Len([i \in 1..n |-> zero]) = n
      BY <1>3
    <3> QED BY <3>1, <3>2
  <2> HIDE DEF zeros
  <2>2. /\ built \o zeros \in Seq(Nat) /\ Len(built \o zeros) = m + n
        /\ \A o \in 1..m + n : (built \o zeros)[o] = IF o <= m THEN built[o] ELSE zeros[o - m]
    <3>1. built \in Seq(Nat) /\ Len(built) = m
      BY <1>2
    <3>2. /\ built \o zeros \in Seq(Nat) /\ Len(built \o zeros) = Len(built) + Len(zeros)
          /\ \A o \in 1..Len(built) + Len(zeros) : (built \o zeros)[o] =
                IF o <= Len(built) THEN built[o] ELSE zeros[o - Len(built)]
      BY <2>1, <3>1, ConcatProperties, Zenon
    <3> QED BY <2>1, <3>1, <3>2, Zenon
  <2>3. built' = built \o zeros
    BY <1>1 DEF zeros
  <2>4. \A o \in 1..m + n : ~(o <= m) => o - m \in 1..n
    BY <1>2, <1>3
  <2> QED BY <2>1, <2>2, <2>3, <2>4, LenProperties
<1>6. /\ pending' \in Seq(1..m + n) /\ Len(pending') = p + n /\ DOMAIN pending' = 1..p + n
      /\ \A i \in 1..p + n : pending'[i] = IF i <= p THEN pending[i] ELSE m + (i - p)
  <2> DEFINE new == [i \in 1..n |-> m + i]
  <2>1. new \in Seq(1..m + n) /\ Len(new) = n /\ \A i \in 1..n : new[i] = m + i
    BY <1>2, <1>3
  <2>2. pending \in Seq(1..m + n)
    BY <1>2, <1>3, SeqMonotonic
  <2> HIDE DEF new
  <2>3. /\ pending \o new \in Seq(1..m + n) /\ Len(pending \o new) = p + n
        /\ \A i \in 1..p + n : (pending \o new)[i] = IF i <= p THEN pending[i] ELSE new[i - p]
    BY <2>1, <2>2, ConcatProperties DEF p
  <2>4. pending' = pending \o new
    BY <1>1 DEF new
  <2>5. \A i \in 1..p + n : ~(i <= p) => i - p \in 1..n
    BY <1>2, <1>3
  <2> QED BY <2>1, <2>3, <2>4, <2>5, LenProperties
<1>7. \A i \in 1..p : pending[i] \in 1..m
  BY <1>2, ElementOfSeq DEF p
<1>8. PendingOnce'
  <2>1. ASSUME NEW i \in 1..p + n, NEW j \in 1..p + n, pending'[i] = pending'[j] PROVE i = j
    <3>1. \A k, h \in 1..p : pending[k] = pending[h] => k = h
      BY <1>2 DEF BuilderInv, PendingOnce
    <3>2. CASE i <= p /\ j <= p
      BY <1>2, <1>3, <1>6, <2>1, <3>1, <3>2
    <3>3. CASE ~(i <= p) /\ ~(j <= p)
      BY <1>2, <1>3, <1>6, <2>1, <3>3
    <3>4. CASE i <= p /\ ~(j <= p)
      <4>1. pending'[i] \in 1..m /\ pending'[j] = m + (j - p) /\ j - p \in 1..n
        BY <1>2, <1>3, <1>6, <1>7, <3>4
      <4> QED BY <1>2, <2>1, <4>1
    <3>5. CASE ~(i <= p) /\ j <= p
      <4>1. pending'[j] \in 1..m /\ pending'[i] = m + (i - p) /\ i - p \in 1..n
        BY <1>2, <1>3, <1>6, <1>7, <3>5
      <4> QED BY <1>2, <2>1, <4>1
    <3> QED BY <3>2, <3>3, <3>4, <3>5
  <2> QED BY <1>4, <1>6, <2>1 DEF PendingOnce
<1>9. DOMAIN operations \subseteq DOMAIN operations'
  BY <1>2, <1>3, <1>4
<1>10. OfStored'
  BY <1>1, <1>9 DEF BuilderInv, OfStored
<1>11. CountsBuilds'
  BY <1>4, <1>5 DEF CountsBuilds
<1>12. BuilderTypeOK'
  <2>1. \A i \in DOMAIN pending' : pending'[i] \in DOMAIN operations'
    BY <1>4, <1>6, ElementOfSeq
  <2> QED BY <1>1, <1>4, <1>5, <2>1 DEF BuilderInv, BuilderTypeOK
<1>13. RelationsFit'
  BY <1>1 DEF BuilderInv, RelationsFit
<1>14. EveryOperationOncePerBuild'
  <2>1. ASSUME NEW o \in 1..m + n
        PROVE  /\ Cardinality({a \in DOMAIN actions' : o \in actions'[a].ops}) = built'[o]
               /\ o \in ToSet(pending') \/ built'[o] > 0
    <3>1. actions' = actions
      BY <1>1
    <3>2. CASE o <= m
      <4>1. o \in DOMAIN operations /\ built'[o] = built[o]
        BY <1>2, <1>5, <3>2
      <4>2. /\ Cardinality({a \in DOMAIN actions : o \in actions[a].ops}) = built[o]
            /\ o \in ToSet(pending) \/ built[o] > 0
        BY <4>1 DEF BuilderInv, EveryOperationOncePerBuild
      <4>3. o \in ToSet(pending) => o \in ToSet(pending')
        <5>1. ASSUME NEW i \in 1..p, o = pending[i] PROVE o \in ToSet(pending')
          <6>1. i \in DOMAIN pending' /\ pending'[i] = o
            BY <1>2, <1>3, <1>6, <5>1
          <6> QED BY <6>1 DEF ToSet
        <5> QED BY <1>2, <5>1 DEF ToSet
      <4> QED BY <3>1, <4>1, <4>2, <4>3
    <3>3. CASE ~(o <= m)
      <4>1. o \notin DOMAIN operations /\ built'[o] = 0
        BY <1>2, <1>5, <3>3
      <4>2. {a \in DOMAIN actions : o \in actions[a].ops} = {}
        BY <4>1 DEF BuilderInv, OfStored
      <4>3. o \in ToSet(pending')
        <5>1. p + (o - m) \in DOMAIN pending' /\ pending'[p + (o - m)] = o
          BY <1>2, <1>3, <1>6, <3>3
        <5> QED BY <5>1 DEF ToSet
      <4>4. Cardinality({a \in DOMAIN actions : o \in actions[a].ops}) = 0
        BY <4>2, FS_EmptySet
      <4> QED BY <3>1, <4>1, <4>3, <4>4
    <3> QED BY <3>2, <3>3
  <2> QED BY <1>4, <2>1 DEF EveryOperationOncePerBuild
<1> QED BY <1>8, <1>10, <1>11, <1>12, <1>13, <1>14 DEF BuilderInv

LEMMA FailStep == ASSUME BuilderInv, AttemptFails PROVE BuilderInv'
<1>1. attempt' = (attempt + 1) % 3 /\ UNCHANGED <<operations, pending, actions, follows, together, overlaps, built>>
  BY DEF AttemptFails, MAX_ATTEMPTS
<1>2. attempt \in 0..2
  BY DEF BuilderInv, BuilderTypeOK, MAX_ATTEMPTS
<1>3. attempt' \in 0..MAX_ATTEMPTS - 1
  BY <1>1, <1>2 DEF MAX_ATTEMPTS
<1> QED BY <1>1, <1>3 DEF BuilderInv, BuilderTypeOK, PendingOnce, OfStored, CountsBuilds,
                          EveryOperationOncePerBuild, RelationsFit

-----------------------------------------------------------------------------
(* The theorems *)

\* Nothing is stored and nothing is buffered at first (ActionBuilder.__init__).
THEOREM BuilderInvInit == BuilderInit => BuilderInv
<1> SUFFICES ASSUME BuilderInit PROVE BuilderInv
  OBVIOUS
<1>1. /\ operations = <<>> /\ pending = <<>> /\ attempt = 0 /\ actions = <<>> /\ built = <<>>
      /\ follows = {} /\ together = {} /\ overlaps = {}
  BY DEF BuilderInit
<1>2. \A S : <<>> \in Seq(S) /\ Len(<<>>) = 0 /\ DOMAIN <<>> = {}
  OBVIOUS
<1>3. BuilderTypeOK
  BY <1>1, <1>2, Bounds DEF BuilderTypeOK, MAX_ATTEMPTS
<1>4. PendingOnce /\ OfStored /\ CountsBuilds
  BY <1>1, <1>2 DEF PendingOnce, OfStored, CountsBuilds
<1>5. EveryOperationOncePerBuild /\ RelationsFit
  BY <1>1, <1>2 DEF EveryOperationOncePerBuild, RelationsFit
<1> QED BY <1>3, <1>4, <1>5 DEF BuilderInv

\* Every observation, build and failed call keeps the invariant.
THEOREM BuilderInvInductive == BuilderInv /\ [BuilderNext]_avars => BuilderInv'
<1> SUFFICES ASSUME BuilderInv, [BuilderNext]_avars PROVE BuilderInv'
  OBVIOUS
<1>1. ASSUME NEW n \in 0..MaxObserved, NEW t \in Times, ProcessObservation(n, t) PROVE BuilderInv'
  BY <1>1, ObservationStep
<1>2. ASSUME NEW segs \in Answers, NEW groups \in Groups(segs, pending), NEW cut \in BOOLEAN,
             BuildActions(groups, cut)
      PROVE  BuilderInv'
  <2>1. Builds(groups, cut) /\ pending # <<>>
    BY <1>2, BuildsIs DEF Builds
  <2>2. segs \in SUBSET [from : 1..Len(pending), to : 1..Len(pending) + 1]
    BY DEF Answers, Segments
  <2>3. pending \in Seq(DOMAIN operations) /\ \A i, j \in DOMAIN pending : pending[i] = pending[j] => i = j
    BY DEF BuilderInv, PendingOnce
  <2>4. Partitions(groups, pending)
    BY <2>1, <2>2, <2>3, GroupsPartition
  <2> QED BY <2>1, <2>4, BuildStep
<1>3. CASE AttemptFails
  BY <1>3, FailStep
<1>4. CASE UNCHANGED avars
  BY <1>4 DEF avars, BuilderInv, BuilderTypeOK, PendingOnce, OfStored, CountsBuilds,
              EveryOperationOncePerBuild, RelationsFit
<1> QED BY <1>1, <1>2, <1>3, <1>4 DEF BuilderNext

\* The invariant holds in every state of the two stages.
THEOREM BuilderInvariance == BuilderSpec => []BuilderInv
BY BuilderInvInit, BuilderInvInductive, PTL DEF BuilderSpec

\* Operations, the buffer, actions and relations keep their types, and no action is
\* without operations or ends before it starts (_create_action).
THEOREM BuilderTypeCorrect == BuilderSpec => []BuilderTypeOK
<1>1. BuilderInv => BuilderTypeOK
  BY DEF BuilderInv
<1> QED BY <1>1, BuilderInvariance, PTL

\* Whatever segments the model answers, a build puts every operation of its batch
\* into exactly one action, and an operation leaves the buffer only into an action
\* (_parse_action_items_from_response, build_actions).
THEOREM OncePerBuild == BuilderSpec => []EveryOperationOncePerBuild
<1>1. BuilderInv => EveryOperationOncePerBuild
  BY DEF BuilderInv
<1> QED BY <1>1, BuilderInvariance, PTL

\* Captures may come in any order: FOLLOWS is one line back in time, and a pair of
\* actions is related once, as of one batch or as overlapping (_create_action,
\* _create_co_occurs_relations, _create_overlaps_relations).
THEOREM RelationsAlwaysFit == BuilderSpec => []RelationsFit
<1>1. BuilderInv => RelationsFit
  BY DEF BuilderInv
<1> QED BY <1>1, BuilderInvariance, PTL
=============================================================================
