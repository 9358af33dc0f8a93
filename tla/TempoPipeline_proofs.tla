------------------------ MODULE TempoPipeline_proofs ------------------------
(***************************************************************************)
(* Proofs about the operation buffer and the pipeline around it, for any   *)
(* sets of operations, clients and timers and any bounds.  First the       *)
(* buffer: type correctness, one callback at a time, and that it           *)
(* implements the batch queue.  Then the pipeline: type correctness, that  *)
(* nothing stage 1 has committed is stranded or lost from the state file,  *)
(* and that a batch is not built twice unless the process died or a        *)
(* callback was cut short.                                                 *)
(***************************************************************************)
EXTENDS TempoPipeline, SequenceTheorems, TLAPS

(* The buffer.                                                              *)

(* What every callback that runs can rely on.  Mutual exclusion alone is    *)
(* not inductive: a callback that ends releases the lock, so the lock must  *)
(* be its own; and its batch must be the head of the buffer for the         *)
(* deletion that follows to be right.                                       *)
CallbackInv ==
    \A t \in Tasks : pc[t] = "callback" =>
        /\ holder = t
        /\ batch[t] # <<>>
        /\ IsPrefix(batch[t], ops)

IInv == TypeOK /\ CallbackInv /\ PendingIsTimed

-----------------------------------------------------------------------------
(* Sequences *)

\* A prefix and what remains after it make the whole.
LEMMA PrefixSplit ==
    ASSUME NEW S, NEW b \in Seq(S), NEW q \in Seq(S), IsPrefix(b, q)
    PROVE  /\ SubSeq(q, Len(b) + 1, Len(q)) \in Seq(S)
           /\ b \o SubSeq(q, Len(b) + 1, Len(q)) = q
<1>1. Len(b) \in Nat /\ Len(q) \in Nat /\ Len(b) <= Len(q)
  BY LenProperties DEF IsPrefix
<1>2. b = SubSeq(q, 1, Len(b))
  BY SubSeqFull DEF IsPrefix
<1>a. /\ 1 \in 1..(Len(q) + 1)
      /\ Len(b) \in (1 - 1)..Len(q)
      /\ Len(q) \in Len(b)..Len(q)
  BY <1>1
<1>3. SubSeq(q, 1, Len(b)) \o SubSeq(q, Len(b) + 1, Len(q)) = SubSeq(q, 1, Len(q))
  BY <1>a, ConcatAdjacentSubSeq, Zenon
<1>4. \A i \in (Len(b) + 1)..Len(q) : q[i] \in S
  BY <1>1, ElementOfSeq
<1>5. SubSeq(q, Len(b) + 1, Len(q)) \in Seq(S)
  BY <1>1, <1>4, SubSeqProperties
<1> QED BY <1>2, <1>3, <1>5, SubSeqFull

\* A prefix stays one when the sequence grows at its end.
LEMMA PrefixOfAppend ==
    ASSUME NEW S, NEW b \in Seq(S), NEW q \in Seq(S), NEW o \in S,
           b # <<>>, IsPrefix(b, q)
    PROVE  IsPrefix(b, Append(q, o))
<1>1. Len(b) \in Nat \ {0} /\ Len(q) \in Nat /\ Len(b) <= Len(q)
  BY LenProperties, EmptySeq DEF IsPrefix
<1>2. /\ Append(q, o) = q \o <<o>>
      /\ Len(Append(q, o)) = Len(q) + 1
  BY AppendIsConcat, AppendProperties
<1>3. <<o>> \in Seq(S)
  OBVIOUS
<1>4. SubSeq(q \o <<o>>, 1, Len(b)) = SubSeq(q, 1, Len(b))
  BY <1>1, <1>3, SubSeqOfConcat1
<1> QED BY <1>1, <1>2, <1>4 DEF IsPrefix

\* The head of a concatenation is its first part.
LEMMA HeadOfConcat ==
    ASSUME NEW S, NEW s \in Seq(S), NEW t \in Seq(S), s # <<>>
    PROVE  SubSeq(s \o t, 1, Len(s)) = s
<1>1. Len(s) \in Nat \ {0}
  BY EmptySeq
<1>2. SubSeq(s \o t, 1, Len(s)) = SubSeq(s, 1, Len(s))
  BY <1>1, SubSeqOfConcat1
<1> QED BY <1>2, SubSeqFull

LEMMA ThreeParts ==
    \A S : \A s, t, u \in Seq(S) : (s \o t) \o u = s \o (t \o u)
BY ConcatAssociative

LEMMA RemoveAtType ==
    ASSUME NEW S, NEW s \in Seq(S), NEW i \in DOMAIN s
    PROVE  RemoveAt(s, i) \in Seq(S)
<1>1. Len(s) \in Nat /\ i \in 1..Len(s)
  BY LenProperties
<1>2. \A j \in 1..Len(s) : s[j] \in S
  BY ElementOfSeq
<1>3. SubSeq(s, 1, i - 1) \in Seq(S)
  BY <1>1, <1>2, SubSeqProperties
<1>4. SubSeq(s, i + 1, Len(s)) \in Seq(S)
  BY <1>1, <1>2, SubSeqProperties
<1> QED BY <1>3, <1>4, ConcatProperties DEF RemoveAt

-----------------------------------------------------------------------------
(* What the parts of a step do to the tasks.  A task that is in the callback *)
(* after the step was there before, or is t and has just taken the lock.    *)

CallbacksKept(t) ==
    \A u \in Tasks : pc'[u] = "callback" => u # t /\ pc[u] = "callback"

CallbacksAfter(t, queue) ==
    \A u \in Tasks : pc'[u] = "callback" =>
        \/ /\ u # t /\ pc[u] = "callback"
           /\ holder' = holder /\ batch'[u] = batch[u]
        \/ /\ u = t /\ holder' = t /\ hooked
           /\ queue # <<>> /\ batch'[u] = queue

LEMMA TaskFacts ==
    /\ None \notin Tasks
    /\ Timers \subseteq Tasks /\ Clients \subseteq Tasks
BY ConstantsAssumption DEF Tasks

LEMMA StartTimerStep ==
    ASSUME TaskTypeOK, NEW t \in Tasks, NEW current \in Timers \cup {None},
           NEW cancelling \in SUBSET Tasks,
           StartTimer(t, current, cancelling)
    PROVE  TaskTypeOK' /\ CallbacksKept(t)
<1>1. PICK n \in Timers :
        /\ timerTask' = n
        /\ owned' = owned \cup {n}
        /\ doomed' = cancelling \cup Cancelled(current)
        /\ pc' = [pc EXCEPT ![t] = "idle", ![n] = "sleep"]
        /\ call' = [call EXCEPT ![t] = "none", ![n] = "timer"]
        /\ gathered' = gathered
  BY DEF StartTimer
<1>2. n \in Tasks
  BY TaskFacts
<1>3. Cancelled(current) \subseteq Tasks
  BY TaskFacts DEF Cancelled
<1>4. pc' \in [Tasks -> {"idle", "sleep", "lock", "callback", "gather"}]
  BY <1>1, <1>2 DEF TaskTypeOK
<1>5. call' \in [Tasks -> Methods]
  BY <1>1, <1>2 DEF TaskTypeOK, Methods
<1>6. TaskTypeOK'
  BY <1>1, <1>3, <1>4, <1>5 DEF TaskTypeOK
<1>7. CallbacksKept(t)
  BY <1>1, <1>2 DEF TaskTypeOK, CallbacksKept
<1> QED BY <1>6, <1>7

LEMMA ReturnStep ==
    ASSUME TaskTypeOK, NEW t \in Tasks, NEW current \in Timers \cup {None},
           NEW cancelling \in SUBSET Tasks,
           Return(t, current, cancelling)
    PROVE  TaskTypeOK' /\ CallbacksKept(t)
<1>1. call' \in [Tasks -> Methods]
  BY DEF TaskTypeOK, Methods, Return
<1>2. gathered' \in [Clients -> SUBSET Timers]
  BY DEF TaskTypeOK, Return
<1>3. TaskTypeOK'
  BY <1>1, <1>2 DEF TaskTypeOK, Return
<1>4. CallbacksKept(t)
  BY DEF TaskTypeOK, Return, CallbacksKept
<1> QED BY <1>3, <1>4

LEMMA LeaveStep ==
    ASSUME TaskTypeOK, NEW t \in Tasks, NEW current \in Timers \cup {None},
           NEW cancelling \in SUBSET Tasks, NEW method,
           Leave(t, method, current, cancelling)
    PROVE  TaskTypeOK' /\ CallbacksKept(t)
BY StartTimerStep, ReturnStep DEF Leave

LEMMA SuspendStep ==
    ASSUME TaskTypeOK, NEW t \in Tasks, NEW method \in Methods,
           NEW where \in {"lock", "callback"},
           Suspend(t, method, where)
    PROVE  /\ TaskTypeOK'
           /\ \A u \in Tasks : pc'[u] = IF u = t THEN where ELSE pc[u]
BY DEF TaskTypeOK, Suspend

LEMMA LockedStep ==
    ASSUME TaskTypeOK, LockTypeOK, CallbackInv, holder = None,
           NEW t \in Tasks, NEW method \in Methods,
           NEW queue \in Seq(Operations),
           Locked(t, method, queue)
    PROVE  /\ TaskTypeOK'
           /\ holder' \in Tasks \cup {None}
           /\ batch' \in [Tasks -> Seq(Operations)]
           /\ CallbacksAfter(t, queue)
<1>1. \A u \in Tasks : pc[u] # "callback"
  BY TaskFacts DEF CallbackInv
<1>2. CASE /\ queue # <<>> /\ hooked
           /\ holder' = t
           /\ batch' = [batch EXCEPT ![t] = queue]
           /\ Suspend(t, method, "callback")
  <2>1. /\ TaskTypeOK'
        /\ \A u \in Tasks : pc'[u] = IF u = t THEN "callback" ELSE pc[u]
    BY <1>2, SuspendStep
  <2>2. batch' \in [Tasks -> Seq(Operations)] /\ batch'[t] = queue
    BY <1>2 DEF LockTypeOK
  <2>3. CallbacksAfter(t, queue)
    BY <1>1, <1>2, <2>1, <2>2 DEF CallbacksAfter
  <2> QED BY <1>2, <2>1, <2>2, <2>3
<1>3. CASE /\ holder' = None
           /\ Leave(t, method, timerTask, doomed)
           /\ UNCHANGED batch
  <2>1. timerTask \in Timers \cup {None} /\ doomed \in SUBSET Tasks
    BY DEF TaskTypeOK
  <2>2. TaskTypeOK' /\ CallbacksKept(t)
    BY <1>3, <2>1, LeaveStep
  <2>3. CallbacksAfter(t, queue)
    BY <1>1, <2>2 DEF CallbacksAfter, CallbacksKept
  <2> QED BY <1>3, <2>2, <2>3 DEF LockTypeOK
<1> QED BY <1>2, <1>3 DEF Locked

LEMMA TriggerStep ==
    ASSUME TaskTypeOK, LockTypeOK, CallbackInv,
           NEW t \in Tasks, NEW method \in Methods,
           NEW queue \in Seq(Operations),
           Trigger(t, method, queue)
    PROVE  TaskTypeOK' /\ LockTypeOK' /\ CallbacksAfter(t, queue)
<1>1. CASE LockFree /\ Locked(t, method, queue) /\ UNCHANGED waiters
  <2>1. holder = None
    BY <1>1 DEF LockFree
  <2>2. /\ TaskTypeOK'
        /\ holder' \in Tasks \cup {None}
        /\ batch' \in [Tasks -> Seq(Operations)]
        /\ CallbacksAfter(t, queue)
    BY <1>1, <2>1, LockedStep
  <2> QED BY <1>1, <2>2 DEF LockTypeOK
<1>2. CASE /\ waiters' = Append(waiters, t)
           /\ Suspend(t, method, "lock")
           /\ UNCHANGED <<holder, batch>>
  <2>1. /\ TaskTypeOK'
        /\ \A u \in Tasks : pc'[u] = IF u = t THEN "lock" ELSE pc[u]
    BY <1>2, SuspendStep
  <2>2. LockTypeOK'
    BY <1>2 DEF LockTypeOK
  <2>3. CallbacksAfter(t, queue)
    BY <1>2, <2>1 DEF CallbacksAfter
  <2> QED BY <2>1, <2>2, <2>3
<1> QED BY <1>1, <1>2 DEF Trigger

\* A step that leaves the buffer as it is, or adds at its end, keeps every
\* batch the head of the buffer.
LEMMA CallbackInvKept ==
    ASSUME QueueTypeOK, LockTypeOK, CallbackInv,
           NEW t \in Tasks, NEW queue \in Seq(Operations),
           CallbacksAfter(t, queue), ops' = queue,
           queue = ops \/ \E o \in Operations : queue = Append(ops, o)
    PROVE  CallbackInv'
<1> SUFFICES ASSUME NEW u \in Tasks, pc'[u] = "callback"
             PROVE  holder' = u /\ batch'[u] # <<>> /\ IsPrefix(batch'[u], queue)
  BY DEF CallbackInv
<1>1. CASE u = t /\ holder' = t /\ queue # <<>> /\ batch'[u] = queue
  BY <1>1 DEF IsPrefix
<1>2. CASE pc[u] = "callback" /\ holder' = holder /\ batch'[u] = batch[u]
  <2>1. holder = u /\ batch[u] # <<>> /\ IsPrefix(batch[u], ops)
    BY <1>2 DEF CallbackInv
  <2>2. batch[u] \in Seq(Operations) /\ ops \in Seq(Operations)
    BY DEF LockTypeOK, QueueTypeOK
  <2>3. IsPrefix(batch[u], queue)
    BY <2>1, <2>2, PrefixOfAppend
  <2> QED BY <1>2, <2>1, <2>3
<1> QED BY <1>1, <1>2 DEF CallbacksAfter

\* A step in which no task enters a callback, and which leaves the buffer, the
\* lock and the batches of the running callbacks alone, changes nothing here.
LEMMA CallbackInvQuiet ==
    ASSUME CallbackInv, NEW t, CallbacksKept(t), UNCHANGED <<ops, holder, batch>>
    PROVE  CallbackInv'
BY DEF CallbackInv, CallbacksKept

-----------------------------------------------------------------------------
(* IInv is inductive *)

\* A new buffer has no task in a callback and no operation (OperationBuffer.__init__).
THEOREM InitIInv == Init => IInv
<1> SUFFICES ASSUME Init PROVE IInv
  OBVIOUS
<1>1. QueueTypeOK
  <2>1. <<>> \in Seq(Operations)
    OBVIOUS
  <2>2. ops = <<>> /\ delivered = <<>> /\ lastOp = "none"
    BY DEF Init
  <2>3. suppressed \in BOOLEAN /\ hooked \in BOOLEAN
    BY DEF Init
  <2> QED BY <2>1, <2>2, <2>3 DEF QueueTypeOK
<1>2. TaskTypeOK
  BY DEF Init, TaskTypeOK, Methods
<1>3. LockTypeOK
  BY DEF Init, LockTypeOK
<1>4. BoundTypeOK
  BY DEF Init, BoundTypeOK
<1>5. CallbackInv /\ PendingIsTimed
  BY DEF Init, CallbackInv, PendingIsTimed
<1> QED BY <1>1, <1>2, <1>3, <1>4, <1>5 DEF IInv, TypeOK

\* The steps that at most call _trigger on the buffer as it is.
LEMMA TriggerKeepsIInv ==
    ASSUME IInv, NEW t \in Tasks, NEW method \in Methods,
           Trigger(t, method, ops),
           UNCHANGED <<ops, lastOp, suppressed, hooked, delivered, boundVars>>
    PROVE  IInv'
<1>1. ops \in Seq(Operations) /\ TaskTypeOK /\ LockTypeOK /\ CallbackInv
  BY DEF IInv, TypeOK, QueueTypeOK
<1>2. TaskTypeOK' /\ LockTypeOK' /\ CallbacksAfter(t, ops)
  BY <1>1, TriggerStep
<1>3. CallbackInv'
  BY <1>1, <1>2, CallbackInvKept DEF IInv, TypeOK
<1>4. QueueTypeOK' /\ BoundTypeOK' /\ PendingIsTimed'
  BY DEF IInv, TypeOK, QueueTypeOK, BoundTypeOK, PendingIsTimed, boundVars
<1> QED BY <1>2, <1>3, <1>4 DEF IInv, TypeOK

LEMMA AcquireKeepsIInv ==
    ASSUME IInv, NEW t \in Tasks, Acquire(t)
    PROVE  IInv'
<1>1. /\ ops \in Seq(Operations) /\ call[t] \in Methods
      /\ TaskTypeOK /\ LockTypeOK /\ CallbackInv /\ holder = None
  BY DEF IInv, TypeOK, QueueTypeOK, TaskTypeOK, Acquire
<1>2. /\ TaskTypeOK' /\ CallbacksAfter(t, ops)
      /\ holder' \in Tasks \cup {None}
      /\ batch' \in [Tasks -> Seq(Operations)]
  BY <1>1, LockedStep DEF Acquire
<1>3. waiters' \in Seq(Tasks)
  BY <1>1 DEF LockTypeOK, Acquire
<1>4. CallbackInv'
  BY <1>1, <1>2, CallbackInvKept DEF IInv, TypeOK, Acquire
<1>5. QueueTypeOK' /\ BoundTypeOK' /\ PendingIsTimed'
  BY DEF IInv, TypeOK, QueueTypeOK, BoundTypeOK, PendingIsTimed, boundVars,
         Acquire
<1> QED BY <1>2, <1>3, <1>4, <1>5 DEF IInv, TypeOK, LockTypeOK

\* The end of a callback, whatever it leaves in the buffer: nobody else is in
\* one, so nobody's batch is disturbed.
LEMMA NoneLeftInCallback ==
    ASSUME CallbackInv, NEW t \in Tasks, pc[t] = "callback", CallbacksKept(t)
    PROVE  CallbackInv'
BY DEF CallbackInv, CallbacksKept

LEMMA CallbackReturnsKeepsIInv ==
    ASSUME IInv, NEW t \in Tasks, CallbackReturns(t)
    PROVE  IInv'
<1>1. /\ ops \in Seq(Operations) /\ delivered \in Seq(Operations)
      /\ batch[t] \in Seq(Operations) /\ IsPrefix(batch[t], ops)
      /\ TaskTypeOK /\ CallbackInv
  BY DEF IInv, TypeOK, QueueTypeOK, LockTypeOK, CallbackInv, CallbackReturns
<1>2. ops' \in Seq(Operations)
  BY <1>1, PrefixSplit DEF CallbackReturns, Remaining
<1>3. delivered' \in Seq(Operations)
  BY <1>1, ConcatProperties DEF CallbackReturns
<1>4. lastOp' \in {"none", "recent", "old"} /\ PendingIsTimed'
  <2>1. lastOp # "none" \/ ops = <<>>
    BY DEF IInv, PendingIsTimed
  <2>2. ops # <<>>
    BY <1>1 DEF CallbackInv, CallbackReturns, IsPrefix
  <2> QED BY <2>1, <2>2 DEF CallbackReturns, TimeOf, PendingIsTimed, IInv,
                           TypeOK, QueueTypeOK
<1>5. /\ timerTask \in Timers \cup {None} /\ doomed \in SUBSET Tasks
      /\ doomed \cup (Cancelled(timerTask) \ {t}) \in SUBSET Tasks
  <2>1. Cancelled(timerTask) \subseteq Tasks
    BY TaskFacts DEF Cancelled
  <2> QED BY <1>1, <2>1 DEF TaskTypeOK
<1>6. TaskTypeOK' /\ CallbacksKept(t)
  <2>1. \/ Leave(t, call[t], None, doomed \cup (Cancelled(timerTask) \ {t}))
        \/ Leave(t, call[t], timerTask, doomed)
    BY DEF CallbackReturns
  <2> QED BY <1>1, <1>5, <2>1, LeaveStep
<1>7. CallbackInv'
  BY <1>1, <1>6, NoneLeftInCallback DEF CallbackReturns
<1>8. LockTypeOK'
  <2>1. <<>> \in Seq(Operations)
    OBVIOUS
  <2> QED BY <2>1 DEF IInv, TypeOK, LockTypeOK, CallbackReturns
<1>9. BoundTypeOK'
  BY DEF IInv, TypeOK, BoundTypeOK, boundVars, CallbackReturns
<1>10. suppressed' \in BOOLEAN /\ hooked' \in BOOLEAN
  BY DEF IInv, TypeOK, QueueTypeOK, CallbackReturns
<1> QED BY <1>2, <1>3, <1>4, <1>6, <1>7, <1>8, <1>9, <1>10
        DEF IInv, TypeOK, QueueTypeOK

LEMMA CallbackRaisesKeepsIInv ==
    ASSUME IInv, NEW t \in Tasks, CallbackRaises(t)
    PROVE  IInv'
<1>1. /\ timerTask \in Timers \cup {None} /\ doomed \in SUBSET Tasks
      /\ TaskTypeOK /\ CallbackInv
  BY DEF IInv, TypeOK, TaskTypeOK
<1>2. TaskTypeOK' /\ CallbacksKept(t)
  BY <1>1, LeaveStep DEF CallbackRaises
<1>3. CallbackInv'
  BY <1>1, <1>2, NoneLeftInCallback DEF CallbackRaises
<1>4. LockTypeOK'
  <2>1. <<>> \in Seq(Operations)
    OBVIOUS
  <2> QED BY <2>1 DEF IInv, TypeOK, LockTypeOK, CallbackRaises
<1>5. QueueTypeOK' /\ PendingIsTimed'
  BY DEF IInv, TypeOK, QueueTypeOK, PendingIsTimed, CallbackRaises
<1>6. BoundTypeOK'
  BY DEF IInv, TypeOK, BoundTypeOK, CallbackRaises
<1> QED BY <1>2, <1>3, <1>4, <1>5, <1>6 DEF IInv, TypeOK

LEMMA CancelledErrorInKeepsIInv ==
    ASSUME IInv, NEW t \in Tasks, CancelledErrorIn(t)
    PROVE  IInv'
<1>1. TaskTypeOK /\ LockTypeOK /\ CallbackInv
  BY DEF IInv, TypeOK
<1>2. TaskTypeOK'
  <2>1. call' \in [Tasks -> Methods]
    BY <1>1 DEF TaskTypeOK, Methods, CancelledErrorIn
  <2>2. gathered' \in [Clients -> SUBSET Timers]
    BY <1>1 DEF TaskTypeOK, CancelledErrorIn
  <2> QED BY <1>1, <2>1, <2>2 DEF TaskTypeOK, CancelledErrorIn
<1>3. waiters' \in Seq(Tasks)
  <2>1. waiters \in Seq(Tasks)
    BY <1>1 DEF LockTypeOK
  <2>2. CASE \E i \in DOMAIN waiters : waiters' = RemoveAt(waiters, i)
    BY <2>1, <2>2, RemoveAtType
  <2> QED BY <2>1, <2>2 DEF CancelledErrorIn
<1>4. LockTypeOK'
  <2>1. <<>> \in Seq(Operations)
    OBVIOUS
  <2> QED BY <1>1, <1>3, <2>1 DEF LockTypeOK, CancelledErrorIn, HolderWithout
<1>5. CallbackInv'
  <2> SUFFICES ASSUME NEW u \in Tasks, pc'[u] = "callback"
               PROVE  holder' = u /\ batch'[u] # <<>> /\ IsPrefix(batch'[u], ops')
    BY DEF CallbackInv
  <2>1. u # t /\ pc[u] = "callback"
    BY <1>1 DEF TaskTypeOK, CancelledErrorIn
  <2>2. holder = u /\ batch[u] # <<>> /\ IsPrefix(batch[u], ops)
    BY <1>1, <2>1 DEF CallbackInv
  <2>3. batch'[u] = batch[u] /\ holder' = holder /\ ops' = ops
    BY <1>1, <2>1, <2>2 DEF LockTypeOK, CancelledErrorIn, HolderWithout
  <2> QED BY <2>2, <2>3
<1>6. QueueTypeOK' /\ BoundTypeOK' /\ PendingIsTimed'
  BY DEF IInv, TypeOK, QueueTypeOK, BoundTypeOK, PendingIsTimed, boundVars,
         CancelledErrorIn
<1> QED BY <1>2, <1>4, <1>5, <1>6 DEF IInv, TypeOK

LEMMA AddKeepsIInv ==
    ASSUME IInv, NEW c \in Clients, NEW o \in Operations, Add(c, o)
    PROVE  IInv'
<1>1. /\ ops \in Seq(Operations) /\ c \in Tasks /\ "add" \in Methods
      /\ timerTask \in Timers \cup {None} /\ doomed \in SUBSET Tasks
      /\ QueueTypeOK /\ TaskTypeOK /\ LockTypeOK /\ CallbackInv
  BY TaskFacts DEF IInv, TypeOK, QueueTypeOK, TaskTypeOK, Methods
<1>2. ops' \in Seq(Operations) /\ ops' = Append(ops, o)
  BY <1>1, AppendProperties DEF Add, Enqueued
<1>3. TaskTypeOK' /\ LockTypeOK' /\ CallbacksAfter(c, ops')
  <2>1. CASE Trigger(c, "add", ops')
    BY <1>1, <1>2, <2>1, TriggerStep
  <2>2. CASE StartTimer(c, timerTask, doomed) /\ UNCHANGED lockVars
    <3>1. TaskTypeOK' /\ CallbacksKept(c)
      BY <1>1, <2>2, StartTimerStep
    <3> QED BY <1>1, <2>2, <3>1
            DEF CallbacksKept, CallbacksAfter, LockTypeOK, lockVars
  <2> QED BY <2>1, <2>2 DEF Add
<1>4. CallbackInv'
  BY <1>1, <1>2, <1>3, CallbackInvKept
<1>5. QueueTypeOK' /\ BoundTypeOK' /\ PendingIsTimed'
  BY <1>2 DEF IInv, TypeOK, QueueTypeOK, BoundTypeOK, PendingIsTimed, boundVars,
         Add
<1> QED BY <1>3, <1>4, <1>5 DEF IInv, TypeOK

LEMMA TimerFiresKeepsIInv ==
    ASSUME IInv, NEW n \in Timers, TimerFires(n)
    PROVE  IInv'
<1>1. /\ n \in Tasks /\ "timer" \in Methods
      /\ timerTask \in Timers \cup {None} /\ doomed \in SUBSET Tasks
      /\ TaskTypeOK /\ CallbackInv
  BY TaskFacts DEF IInv, TypeOK, TaskTypeOK, Methods
<1>2. UNCHANGED <<ops, lastOp, suppressed, hooked, delivered, boundVars>>
  BY DEF TimerFires
<1>3. CASE Trigger(n, "timer", ops)
  BY <1>1, <1>2, <1>3, TriggerKeepsIInv
<1>4. CASE Return(n, timerTask, doomed) /\ UNCHANGED lockVars
  <2>1. TaskTypeOK' /\ CallbacksKept(n)
    BY <1>1, <1>4, ReturnStep
  <2>2. CallbackInv'
    BY <1>1, <1>2, <1>4, <2>1, CallbackInvQuiet DEF lockVars
  <2> QED BY <1>2, <1>4, <2>1, <2>2
          DEF IInv, TypeOK, QueueTypeOK, LockTypeOK, BoundTypeOK, lockVars,
              boundVars, PendingIsTimed
<1> QED BY <1>3, <1>4 DEF TimerFires

LEMMA StartTimerIfNeededKeepsIInv ==
    ASSUME IInv, NEW c \in Clients, StartTimerIfNeeded(c)
    PROVE  IInv'
<1>1. /\ c \in Tasks /\ timerTask \in Timers \cup {None}
      /\ doomed \in SUBSET Tasks /\ TaskTypeOK /\ CallbackInv
  BY TaskFacts DEF IInv, TypeOK, TaskTypeOK
<1>2. TaskTypeOK' /\ CallbacksKept(c)
  BY <1>1, StartTimerStep DEF StartTimerIfNeeded
<1>3. CallbackInv'
  BY <1>1, <1>2, CallbackInvQuiet DEF StartTimerIfNeeded, lockVars
<1> QED BY <1>2, <1>3
        DEF IInv, TypeOK, QueueTypeOK, LockTypeOK, BoundTypeOK, lockVars,
            boundVars, PendingIsTimed, StartTimerIfNeeded

LEMMA StopKeepsIInv ==
    ASSUME IInv, NEW c \in Clients, NEW m \in {"stop", "close"}, Stop(c, m)
    PROVE  IInv'
<1>1. TaskTypeOK /\ CallbackInv /\ c \in Tasks /\ owned \subseteq Tasks
  BY TaskFacts DEF IInv, TypeOK, TaskTypeOK
<1>2. /\ pc' \in [Tasks -> {"idle", "sleep", "lock", "callback", "gather"}]
      /\ \A u \in Tasks : pc'[u] = "callback" => pc[u] = "callback"
  BY <1>1 DEF Stop, TaskTypeOK
<1>3. call' \in [Tasks -> Methods]
  BY <1>1 DEF Stop, TaskTypeOK, Methods
<1>4. gathered' \in [Clients -> SUBSET Timers]
  BY <1>1 DEF Stop, TaskTypeOK
<1>5. TaskTypeOK'
  BY <1>1, <1>2, <1>3, <1>4 DEF Stop, TaskTypeOK
<1>6. CallbackInv'
  BY <1>1, <1>2 DEF CallbackInv, Stop, lockVars
<1>7. hooked' \in BOOLEAN
  BY DEF Stop, IInv, TypeOK, QueueTypeOK
<1>8. QueueTypeOK' /\ PendingIsTimed'
  BY <1>7 DEF IInv, TypeOK, QueueTypeOK, PendingIsTimed, Stop
<1>9. LockTypeOK' /\ BoundTypeOK'
  BY DEF IInv, TypeOK, LockTypeOK, BoundTypeOK, lockVars, Stop
<1> QED BY <1>5, <1>6, <1>8, <1>9 DEF IInv, TypeOK

LEMMA StopReturnsKeepsIInv ==
    ASSUME IInv, NEW c \in Clients, StopReturns(c)
    PROVE  IInv'
<1>1. TaskTypeOK /\ CallbackInv /\ c \in Tasks
  BY TaskFacts DEF IInv, TypeOK, TaskTypeOK
<1>2. call' \in [Tasks -> Methods]
  BY <1>1 DEF StopReturns, TaskTypeOK, Methods
<1>3. TaskTypeOK' /\ CallbacksKept(c)
  BY <1>1, <1>2 DEF StopReturns, TaskTypeOK, CallbacksKept
<1>4. CallbackInv'
  BY <1>1, <1>3, CallbackInvQuiet DEF StopReturns, lockVars
<1> QED BY <1>3, <1>4
        DEF IInv, TypeOK, QueueTypeOK, LockTypeOK, BoundTypeOK, lockVars,
            boundVars, PendingIsTimed, StopReturns

LEMMA CancelClientKeepsIInv ==
    ASSUME IInv, NEW c \in Clients, CancelClient(c)
    PROVE  IInv'
<1>1. c \in Tasks
  BY TaskFacts
<1>2. TaskTypeOK'
  BY <1>1 DEF IInv, TypeOK, TaskTypeOK, CancelClient
<1>3. CallbackInv'
  BY DEF IInv, CallbackInv, CancelClient, lockVars
<1> QED BY <1>2, <1>3
        DEF IInv, TypeOK, QueueTypeOK, LockTypeOK, BoundTypeOK, lockVars,
            PendingIsTimed, CancelClient

\* Every step of a task, the timers and the environment keeps the invariant.
THEOREM IInvInductive == IInv /\ [Next]_vars => IInv'
<1> SUFFICES ASSUME IInv, [Next]_vars PROVE IInv'
  OBVIOUS
<1> USE TaskFacts DEF Methods
<1>1. ASSUME NEW t \in Tasks, TaskStep(t) PROVE IInv'
  BY <1>1, AcquireKeepsIInv, CallbackReturnsKeepsIInv, CallbackRaisesKeepsIInv,
     CancelledErrorInKeepsIInv DEF TaskStep
<1>2. ASSUME NEW n \in Timers, TimerFires(n) PROVE IInv'
  BY <1>2, TimerFiresKeepsIInv
<1>3. ASSUME NEW c \in Clients, ClientStep(c) PROVE IInv'
  <2>1. ASSUME NEW o \in Operations, Add(c, o) PROVE IInv'
    BY <2>1, AddKeepsIInv
  <2>2. CASE CheckTimeTrigger(c)
    BY <2>2, TriggerKeepsIInv DEF CheckTimeTrigger
  <2>3. CASE Flush(c)
    BY <2>3, TriggerKeepsIInv DEF Flush
  <2>4. CASE StartTimerIfNeeded(c)
    BY <2>4, StartTimerIfNeededKeepsIInv
  <2>5. ASSUME NEW m \in {"stop", "close"}, Stop(c, m) PROVE IInv'
    BY <2>5, StopKeepsIInv
  <2>6. CASE StopReturns(c)
    BY <2>6, StopReturnsKeepsIInv
  <2>7. CASE CancelClient(c)
    BY <2>7, CancelClientKeepsIInv
  <2> QED BY <1>3, <2>1, <2>2, <2>3, <2>4, <2>5, <2>6, <2>7 DEF ClientStep
<1>4. CASE ThresholdPasses \/ CooldownPasses
  BY <1>4 DEF ThresholdPasses, CooldownPasses, IInv, TypeOK, QueueTypeOK,
     TaskTypeOK, LockTypeOK, BoundTypeOK, CallbackInv, PendingIsTimed,
     taskVars, lockVars, boundVars
<1>5. CASE UNCHANGED vars
  BY <1>5 DEF vars, IInv, TypeOK, QueueTypeOK,
     TaskTypeOK, LockTypeOK, BoundTypeOK, CallbackInv, PendingIsTimed,
     taskVars, lockVars, boundVars
<1> QED BY <1>1, <1>2, <1>3, <1>4, <1>5 DEF Next

-----------------------------------------------------------------------------
(* The theorems *)

\* The invariant holds in every state of the buffer.
THEOREM Invariance == Spec => []IInv
BY InitIInv, IInvInductive, PTL DEF Spec

\* Every variable of the buffer keeps its type, for any number of operations,
\* clients and timers.
THEOREM TypeCorrect == Spec => []TypeOK
<1>1. IInv => TypeOK
  BY DEF IInv
<1> QED BY <1>1, Invariance, PTL

\* _trigger_lock serializes the callbacks (buffer.py:61).
THEOREM MutualExclusion == Spec => []OneCallback
<1>1. IInv => OneCallback
  BY DEF IInv, CallbackInv, OneCallback
<1> QED BY <1>1, Invariance, PTL

\* The deletion after a successful callback hits exactly its batch
\* (buffer.py:188-191).
THEOREM BatchOldest == Spec => []BatchIsOldest
<1>1. IInv => BatchIsOldest
  BY DEF IInv, CallbackInv, BatchIsOldest
<1> QED BY <1>1, Invariance, PTL

\* Pending operations always carry the time that check_time_trigger needs.
THEOREM PendingTimed == Spec => []PendingIsTimed
<1>1. IInv => PendingIsTimed
  BY DEF IInv
<1> QED BY <1>1, Invariance, PTL

-----------------------------------------------------------------------------
(* The buffer is a batch queue *)

\* What a successful callback hands over is what was accepted and not handed
\* over before, from the oldest on.
LEMMA HandOverStep ==
    ASSUME IInv, NEW t \in Tasks, CallbackReturns(t)
    PROVE  \E k \in (Len(delivered) + 1)..Len(Accepted) : Queue!HandOver(k)
<1> DEFINE b == batch[t]
           r == Remaining(t)
           k == Len(delivered) + Len(b)
<1>1. /\ ops \in Seq(Operations) /\ delivered \in Seq(Operations)
      /\ b \in Seq(Operations) /\ b # <<>> /\ IsPrefix(b, ops)
  BY DEF IInv, TypeOK, QueueTypeOK, LockTypeOK, CallbackInv, CallbackReturns
<1>2. r \in Seq(Operations) /\ b \o r = ops
  BY <1>1, PrefixSplit DEF Remaining
<1>3. delivered' = delivered \o b /\ ops' = r
  BY DEF CallbackReturns
<1> HIDE DEF b, r
<1>4. (delivered \o b) \o r = delivered \o (b \o r)
  <2>1. delivered \in Seq(Operations) /\ b \in Seq(Operations) /\ r \in Seq(Operations)
    BY <1>1, <1>2
  <2> QED BY <2>1, ThreeParts
<1>5. Accepted' = Accepted
  BY <1>2, <1>3, <1>4 DEF Accepted
<1>6. /\ Len(b) \in Nat /\ Len(delivered) \in Nat /\ Len(r) \in Nat
      /\ Len(b) > 0
  BY <1>1, <1>2, LenProperties, EmptySeq
<1>7. delivered \o b \in Seq(Operations) /\ Len(delivered \o b) = k
  BY <1>1, ConcatProperties
<1>8. Len(Accepted) = k + Len(r)
  <2>1. Accepted = (delivered \o b) \o r
    BY <1>2, <1>4 DEF Accepted
  <2> QED BY <1>2, <1>7, <2>1, ConcatProperties
<1>9. delivered \o b # <<>>
  BY <1>6, <1>7, EmptySeq
<1>10. SubSeq(Accepted, 1, k) = delivered \o b
  <2>1. Accepted = (delivered \o b) \o r
    BY <1>2, <1>4 DEF Accepted
  <2> QED BY <1>2, <1>7, <1>9, <2>1, HeadOfConcat
<1>11. k \in (Len(delivered) + 1)..Len(Accepted)
  BY <1>6, <1>8
<1> QED BY <1>3, <1>5, <1>10, <1>11 DEF Queue!HandOver

LEMMA AcceptStep ==
    ASSUME IInv, NEW c \in Clients, NEW o \in Operations, Add(c, o)
    PROVE  Queue!Accept(o)
<1>1. ops \in Seq(Operations) /\ delivered \in Seq(Operations)
  BY DEF IInv, TypeOK, QueueTypeOK
<1>2. ops' = Append(ops, o) /\ delivered' = delivered
  BY DEF Add, Enqueued
<1>3. /\ Append(ops, o) = ops \o <<o>>
      /\ <<o>> \in Seq(Operations)
      /\ Append(delivered \o ops, o) = (delivered \o ops) \o <<o>>
  BY <1>1, AppendIsConcat, ConcatProperties
<1>4. (delivered \o ops) \o <<o>> = delivered \o (ops \o <<o>>)
  BY <1>1, <1>3, ConcatAssociative
<1> QED BY <1>2, <1>3, <1>4 DEF Queue!Accept, Accepted

\* Every other step leaves what was accepted and handed over as it is.
LEMMA QueueStep ==
    ASSUME IInv, [Next]_vars
    PROVE  [Queue!Next]_(Queue!vars)
<1> DEFINE Same == UNCHANGED <<ops, delivered>>
<1>1. ASSUME Same PROVE UNCHANGED Queue!vars
  BY <1>1 DEF Queue!vars, Accepted
<1>2. ASSUME NEW t \in Tasks, TaskStep(t) PROVE Queue!Next \/ Same
  <2>1. CASE CallbackReturns(t)
    BY <2>1, HandOverStep DEF Queue!Next
  <2>2. CASE Acquire(t) \/ CallbackRaises(t) \/ CancelledErrorIn(t)
    BY <2>2 DEF Acquire, CallbackRaises, CancelledErrorIn
  <2> QED BY <1>2, <2>1, <2>2 DEF TaskStep
<1>3. ASSUME NEW c \in Clients, ClientStep(c) PROVE Queue!Next \/ Same
  <2>1. ASSUME NEW o \in Operations, Add(c, o) PROVE Queue!Next
    BY <2>1, AcceptStep DEF Queue!Next
  <2>2. CASE \/ CheckTimeTrigger(c) \/ Flush(c) \/ StartTimerIfNeeded(c)
             \/ \E m \in {"stop", "close"} : Stop(c, m)
             \/ StopReturns(c) \/ CancelClient(c)
    BY <2>2 DEF CheckTimeTrigger, Flush, StartTimerIfNeeded, Stop, StopReturns,
                CancelClient
  <2> QED BY <1>3, <2>1, <2>2 DEF ClientStep
<1>4. CASE \/ \E n \in Timers : TimerFires(n)
           \/ ThresholdPasses \/ CooldownPasses \/ UNCHANGED vars
  BY <1>1, <1>4 DEF TimerFires, ThresholdPasses, CooldownPasses, vars
<1> QED BY <1>1, <1>2, <1>3, <1>4 DEF Next

\* No operation is lost, reordered, invented or handed over twice, whatever
\* fails, is cancelled or is stopped: the buffer implements the batch queue.
THEOREM BufferImplementsBatchQueue == Spec => ImplementsBatchQueue
<1>1. Init => Queue!Init
  BY DEF Init, Queue!Init, Accepted
<1>2. IInv /\ [Next]_vars => [Queue!Next]_(Queue!vars)
  BY QueueStep
<1> QED BY <1>1, <1>2, Invariance, PTL DEF Spec, ImplementsBatchQueue, Queue!Spec

-----------------------------------------------------------------------------
(* One inactivity timer                                                     *)
(*                                                                          *)
(* The timers that live and are not being cancelled are at most the one     *)
(* that _timer_task names.  That a timer never goes on to _reset_timer when *)
(* its trigger is through (only add does) is what makes it inductive.       *)

TimersNeverAdd == \A n \in Timers : call[n] # "add"

TimerInv == IInv /\ TimersNeverAdd /\ OneTimer

\* Whoever starts a timer leaves no other running: it cancels the current one,
\* or the cancellation is already under way.
LEMMA LeaveKeepsOneTimer ==
    ASSUME TimerInv, NEW t \in Tasks, NEW method, NEW current, NEW cancelling,
           t \in Timers => method # "add",
           doomed \subseteq cancelling,
           stops = 0 =>
             \A n \in Timers : pc[n] # "idle" /\ n \notin cancelling /\ n # t
                                 => current = n,
           Leave(t, method, current, cancelling), stops' = stops
    PROVE  TimersNeverAdd' /\ OneTimer'
<1>1. TaskTypeOK /\ TimersNeverAdd
  BY DEF TimerInv, IInv, TypeOK
<1>2. CASE t \notin Timers /\ StartTimer(t, current, cancelling)
  <2>1. PICK n \in Timers :
          /\ pc[n] = "idle" /\ timerTask' = n
          /\ doomed' = cancelling \cup Cancelled(current)
          /\ pc' = [pc EXCEPT ![t] = "idle", ![n] = "sleep"]
          /\ call' = [call EXCEPT ![t] = "none", ![n] = "timer"]
    BY <1>2 DEF StartTimer
  <2>2. TimersNeverAdd'
    BY <1>1, <2>1, TaskFacts DEF TimersNeverAdd, TaskTypeOK
  <2>3. OneTimer'
    <3> SUFFICES ASSUME stops = 0, NEW m \in Timers, pc'[m] # "idle",
                        m \notin doomed', m # n
                 PROVE  FALSE
      BY <2>1 DEF OneTimer, Runs
    <3>1. pc[m] # "idle" /\ m \notin cancelling /\ m # t
      BY <1>1, <1>2, <2>1, TaskFacts DEF TaskTypeOK
    <3>2. current = m
      BY <3>1
    <3> QED BY <2>1, <3>1, <3>2 DEF Cancelled
  <2> QED BY <2>2, <2>3
<1>3. CASE Return(t, current, cancelling)
  <2>1. TimersNeverAdd'
    BY <1>1, <1>3, TaskFacts DEF TimersNeverAdd, Return, TaskTypeOK
  <2>2. OneTimer'
    BY <1>1, <1>3, TaskFacts DEF OneTimer, Runs, Return, TaskTypeOK
  <2> QED BY <2>1, <2>2
<1> QED BY <1>2, <1>3 DEF Leave

LEMMA SuspendKeepsOneTimer ==
    ASSUME TimerInv, NEW t \in Tasks, NEW method, NEW where,
           t \in Timers => method # "add" /\ pc[t] # "idle",
           Suspend(t, method, where), stops' = stops
    PROVE  TimersNeverAdd' /\ OneTimer'
<1>1. TaskTypeOK /\ TimersNeverAdd /\ OneTimer
  BY DEF TimerInv, IInv, TypeOK
<1>2. TimersNeverAdd'
  BY <1>1, TaskFacts DEF TimersNeverAdd, Suspend, TaskTypeOK
<1>3. \A n \in Timers : pc'[n] # "idle" => pc[n] # "idle"
  BY <1>1, TaskFacts DEF Suspend, TaskTypeOK
<1>4. OneTimer'
  BY <1>1, <1>3 DEF OneTimer, Runs, Suspend
<1> QED BY <1>2, <1>4

LEMMA TriggerKeepsOneTimer ==
    ASSUME TimerInv, NEW t \in Tasks, NEW method, NEW queue,
           t \in Timers => method # "add" /\ pc[t] # "idle",
           Locked(t, method, queue) \/ Trigger(t, method, queue),
           stops' = stops
    PROVE  TimersNeverAdd' /\ OneTimer'
<1>1. stops = 0 =>
        \A n \in Timers : pc[n] # "idle" /\ n \notin doomed /\ n # t
                            => timerTask = n
  BY DEF TimerInv, OneTimer, Runs
<1>2. CASE Leave(t, method, timerTask, doomed)
  BY <1>1, <1>2, LeaveKeepsOneTimer
<1>3. CASE \E where : Suspend(t, method, where)
  BY <1>3, SuspendKeepsOneTimer
<1> QED BY <1>2, <1>3 DEF Trigger, Locked

LEMMA StartKeepsOneTimer ==
    ASSUME TimerInv, NEW c \in Clients, StartTimer(c, timerTask, doomed),
           stops' = stops
    PROVE  TimersNeverAdd' /\ OneTimer'
<1>1. c \in Tasks /\ c \notin Timers /\ Leave(c, "add", timerTask, doomed)
  BY ConstantsAssumption, TaskFacts DEF Leave
<1>2. stops = 0 =>
        \A n \in Timers : pc[n] # "idle" /\ n \notin doomed /\ n # c
                            => timerTask = n
  BY DEF TimerInv, OneTimer, Runs
<1> QED BY <1>1, <1>2, LeaveKeepsOneTimer

LEMMA TaskStepKeepsOneTimer ==
    ASSUME TimerInv, NEW t \in Tasks, TaskStep(t)
    PROVE  TimersNeverAdd' /\ OneTimer'
<1>1. TaskTypeOK /\ TimersNeverAdd /\ OneTimer
  BY DEF TimerInv, IInv, TypeOK
<1>2. t \in Timers => call[t] # "add"
  BY <1>1 DEF TimersNeverAdd
<1>3. stops' = stops
  BY DEF TaskStep, Acquire, CallbackReturns, CallbackRaises, CancelledErrorIn,
     boundVars
<1>4. stops = 0 =>
        \A n \in Timers : pc[n] # "idle" /\ n \notin doomed => timerTask = n
  BY <1>1 DEF OneTimer, Runs
<1>5. CASE Acquire(t)
  BY <1>2, <1>3, <1>5, TriggerKeepsOneTimer DEF Acquire
<1>6. CASE CallbackReturns(t)
  <2>1. CASE Leave(t, call[t], timerTask, doomed)
    BY <1>2, <1>3, <1>4, <2>1, LeaveKeepsOneTimer
  <2>2. CASE Leave(t, call[t], None, doomed \cup (Cancelled(timerTask) \ {t}))
    <3>1. stops = 0 =>
            \A n \in Timers :
               ~ /\ pc[n] # "idle"
                 /\ n \notin doomed \cup (Cancelled(timerTask) \ {t})
                 /\ n # t
      BY <1>4 DEF Cancelled
    <3> QED BY <1>2, <1>3, <2>2, <3>1, LeaveKeepsOneTimer
  <2> QED BY <1>6, <2>1, <2>2 DEF CallbackReturns
<1>7. CASE CallbackRaises(t)
  BY <1>2, <1>3, <1>4, <1>7, LeaveKeepsOneTimer DEF CallbackRaises
<1>8. CASE CancelledErrorIn(t)
  <2>1. /\ timerTask' = timerTask /\ doomed' = doomed \ {t}
        /\ pc' = [pc EXCEPT ![t] = "idle"]
        /\ call' = [call EXCEPT ![t] = "none"]
    BY <1>8 DEF CancelledErrorIn
  <2>2. TimersNeverAdd'
    BY <1>1, <2>1, TaskFacts DEF TimersNeverAdd, TaskTypeOK
  <2>3. OneTimer'
    BY <1>1, <1>3, <1>4, <2>1, TaskFacts DEF OneTimer, Runs, TaskTypeOK
  <2> QED BY <2>2, <2>3
<1> QED BY <1>5, <1>6, <1>7, <1>8 DEF TaskStep

LEMMA ClientStepKeepsOneTimer ==
    ASSUME TimerInv, NEW c \in Clients, ClientStep(c)
    PROVE  TimersNeverAdd' /\ OneTimer'
<1>1. TaskTypeOK /\ TimersNeverAdd /\ OneTimer /\ stops \in Nat
  BY DEF TimerInv, IInv, TypeOK, BoundTypeOK
<1>2. c \in Tasks /\ c \notin Timers
  BY ConstantsAssumption, TaskFacts
<1>3. ASSUME NEW o \in Operations, Add(c, o)
      PROVE  TimersNeverAdd' /\ OneTimer'
  <2>1. stops' = stops
    BY <1>3 DEF Add, boundVars
  <2>2. Trigger(c, "add", ops') \/ StartTimer(c, timerTask, doomed)
    BY <1>3 DEF Add
  <2> QED BY <1>2, <2>1, <2>2, TriggerKeepsOneTimer, StartKeepsOneTimer
<1>4. CASE CheckTimeTrigger(c) \/ Flush(c)
  <2>1. /\ Trigger(c, "check", ops) \/ Trigger(c, "flush", ops)
        /\ stops' = stops
    BY <1>4 DEF CheckTimeTrigger, Flush, boundVars
  <2> QED BY <1>2, <2>1, TriggerKeepsOneTimer
<1>5. CASE StartTimerIfNeeded(c)
  BY <1>5, StartKeepsOneTimer DEF StartTimerIfNeeded, boundVars
<1>6. ASSUME NEW m \in {"stop", "close"}, Stop(c, m)
      PROVE  TimersNeverAdd' /\ OneTimer'
  <2>1. TimersNeverAdd'
    <3>1. call' = call \/ call' = [call EXCEPT ![c] = m]
      BY <1>6 DEF Stop
    <3> QED BY <1>1, <1>2, <3>1, TaskFacts DEF TimersNeverAdd, TaskTypeOK
  <2>2. stops' # 0
    BY <1>1, <1>6 DEF Stop
  <2> QED BY <2>1, <2>2 DEF OneTimer
<1>7. CASE StopReturns(c)
  <2>1. /\ UNCHANGED <<timerTask, doomed, stops>>
        /\ pc' = [pc EXCEPT ![c] = "idle"]
        /\ call' = [call EXCEPT ![c] = "none"]
    BY <1>7 DEF StopReturns, boundVars
  <2> QED BY <1>1, <1>2, <2>1, TaskFacts
          DEF OneTimer, TimersNeverAdd, Runs, TaskTypeOK
<1>8. CASE CancelClient(c)
  BY <1>1, <1>8 DEF CancelClient, OneTimer, TimersNeverAdd, Runs
<1> QED BY <1>3, <1>4, <1>5, <1>6, <1>7, <1>8 DEF ClientStep

\* A new buffer has no timer (OperationBuffer.__init__).
THEOREM TimerInvInit == Init => TimerInv
BY InitIInv DEF Init, TimerInv, TimersNeverAdd, OneTimer, Tasks

\* Every step keeps the invariant: _start_timer cancels the timer it replaces.
THEOREM TimerInvInductive == TimerInv /\ [Next]_vars => TimerInv'
<1> SUFFICES ASSUME TimerInv, [Next]_vars PROVE TimersNeverAdd' /\ OneTimer'
  BY IInvInductive DEF TimerInv
<1>1. ASSUME NEW t \in Tasks, TaskStep(t) PROVE TimersNeverAdd' /\ OneTimer'
  BY <1>1, TaskStepKeepsOneTimer
<1>2. ASSUME NEW c \in Clients, ClientStep(c)
      PROVE  TimersNeverAdd' /\ OneTimer'
  BY <1>2, ClientStepKeepsOneTimer
<1>3. ASSUME NEW n \in Timers, TimerFires(n)
      PROVE  TimersNeverAdd' /\ OneTimer'
  <2>1. /\ n \in Tasks /\ pc[n] # "idle" /\ stops' = stops
        /\ Trigger(n, "timer", ops) \/ Leave(n, "timer", timerTask, doomed)
    BY <1>3, TaskFacts DEF TimerFires, Leave, boundVars
  <2>2. stops = 0 =>
          \A m \in Timers : pc[m] # "idle" /\ m \notin doomed /\ m # n
                              => timerTask = m
    BY DEF TimerInv, OneTimer, Runs
  <2> QED BY <2>1, <2>2, TriggerKeepsOneTimer, LeaveKeepsOneTimer
<1>4. CASE ThresholdPasses \/ CooldownPasses \/ UNCHANGED vars
  BY <1>4 DEF ThresholdPasses, CooldownPasses, vars, taskVars, boundVars,
     TimerInv, TimersNeverAdd, OneTimer, Runs
<1> QED BY <1>1, <1>2, <1>3, <1>4 DEF Next

\* Until the buffer is stopped for the first time the next add resets every
\* timer there is (_reset_timer, and what _trigger cleans up itself).
THEOREM AtMostOneTimer == Spec => []OneTimer
<1>1. TimerInv => OneTimer
  BY DEF TimerInv
<1> QED BY <1>1, TimerInvInit, TimerInvInductive, PTL DEF Spec

-----------------------------------------------------------------------------
(* What the pipeline's invariants rest on.                                  *)

\* A stage after the first is reached inside the callback, once the actions of
\* the whole batch are committed.
StagesInCallback ==
    \A t \in Tasks : stage[t] # "actions" =>
        /\ pc[t] = "callback"
        /\ \A o \in Range(batch[t]) : covered[o] > 0

\* Operations in the state file have the time that goes with them.
FileIsTimed == file.items # <<>> => file.last # "none"

\* Only the loop's adding round holds operations of its own.
OnlyAddingHolds == loopAt # "adding" => toAdd = <<>>

\* Nobody cancels the loop before the first stop.
UntouchedUntilStop == stops = 0 => ctlAt = "none" /\ loop \notin doomed

\* In one life of the process an operation is buffered once, and is acted on
\* only after it was.
BufferedOnce ==
    restarts = 0 =>
        /\ IsInjective(ops)
        /\ \A o \in Operations : covered[o] > 0 => o \in Range(Accepted)

\* Unless a callback was cut short, what is buffered and already acted on is
\* about to be deleted by the callback that acted on it.
InProgress(o) ==
    \E t \in Tasks : stage[t] # "actions" /\ o \in Range(batch[t])

BufferedUncovered ==
    restarts = 0 /\ ~cutShort =>
        \A o \in Range(ops) : covered[o] > 0 => InProgress(o)

PipelineInv ==
    /\ IInv /\ PipelineTypeOK
    /\ StagesInCallback
    /\ FileIsTimed /\ SavedIsRecoverable
    /\ OnlyAddingHolds /\ UntouchedUntilStop /\ NothingStranded
    /\ BufferedOnce /\ BufferedUncovered /\ RepeatedOnlyWhenCut

-----------------------------------------------------------------------------
(* The elements of sequences *)

LEMMA RangeOfConcat ==
    ASSUME NEW S, NEW s \in Seq(S), NEW t \in Seq(S)
    PROVE  Range(s \o t) = Range(s) \cup Range(t)
<1>1. /\ Len(s) \in Nat /\ Len(t) \in Nat /\ Len(s \o t) = Len(s) + Len(t)
      /\ DOMAIN s = 1..Len(s) /\ DOMAIN t = 1..Len(t)
      /\ DOMAIN (s \o t) = 1..(Len(s) + Len(t))
      /\ \A i \in 1..(Len(s) + Len(t)) :
            (s \o t)[i] = IF i <= Len(s) THEN s[i] ELSE t[i - Len(s)]
  BY ConcatProperties, LenProperties
<1>2. ASSUME NEW x \in Range(s \o t) PROVE x \in Range(s) \cup Range(t)
  <2>1. PICK i \in 1..(Len(s) + Len(t)) : (s \o t)[i] = x
    BY <1>1, <1>2 DEF Range
  <2>2. CASE i <= Len(s)
    BY <1>1, <2>1, <2>2 DEF Range
  <2>3. CASE ~(i <= Len(s))
    <3>1. i - Len(s) \in 1..Len(t)
      BY <1>1, <2>3
    <3> QED BY <1>1, <2>1, <2>3, <3>1 DEF Range
  <2> QED BY <2>2, <2>3
<1>3. ASSUME NEW x \in Range(s) PROVE x \in Range(s \o t)
  <2>1. PICK i \in 1..Len(s) : s[i] = x
    BY <1>1, <1>3 DEF Range
  <2>2. i \in 1..(Len(s) + Len(t)) /\ i <= Len(s)
    BY <1>1
  <2> QED BY <1>1, <2>1, <2>2 DEF Range
<1>4. ASSUME NEW x \in Range(t) PROVE x \in Range(s \o t)
  <2>1. PICK i \in 1..Len(t) : t[i] = x
    BY <1>1, <1>4 DEF Range
  <2>2. /\ i + Len(s) \in 1..(Len(s) + Len(t)) /\ ~(i + Len(s) <= Len(s))
        /\ (i + Len(s)) - Len(s) = i
    BY <1>1
  <2> QED BY <1>1, <2>1, <2>2 DEF Range
<1> QED BY <1>2, <1>3, <1>4

LEMMA RangeOfAppend ==
    ASSUME NEW S, NEW s \in Seq(S), NEW o \in S
    PROVE  Range(Append(s, o)) = Range(s) \cup {o}
<1>1. Append(s, o) = s \o <<o>> /\ <<o>> \in Seq(S)
  BY AppendIsConcat
<1>2. Range(<<o>>) = {o}
  <2>1. DOMAIN <<o>> = {1} /\ <<o>>[1] = o
    OBVIOUS
  <2> QED BY <2>1 DEF Range
<1>3. Range(s \o <<o>>) = Range(s) \cup Range(<<o>>)
  BY <1>1, RangeOfConcat
<1> QED BY <1>1, <1>2, <1>3

LEMMA RangeOfEmpty == Range(<<>>) = {}
BY DEF Range

\* What is taken off the front of a sequence and what is left of it.
LEMMA HeadAndTail ==
    ASSUME NEW S, NEW s \in Seq(S), s # <<>>
    PROVE  /\ Head(s) \in S /\ Tail(s) \in Seq(S)
           /\ Range(s) = {Head(s)} \cup Range(Tail(s))
<1>1. /\ Head(s) \in S /\ Tail(s) \in Seq(S) /\ Len(s) \in Nat \ {0}
      /\ Len(Tail(s)) = Len(s) - 1
      /\ \A i \in 1..Len(Tail(s)) : Tail(s)[i] = s[i + 1]
      /\ Head(s) = s[1]
  BY HeadTailProperties, EmptySeq, LenProperties
<1>2. DOMAIN s = 1..Len(s) /\ DOMAIN Tail(s) = 1..(Len(s) - 1)
  BY <1>1, LenProperties
<1>3. ASSUME NEW x \in Range(s) PROVE x \in {Head(s)} \cup Range(Tail(s))
  <2>1. PICK i \in 1..Len(s) : s[i] = x
    BY <1>2, <1>3 DEF Range
  <2>2. CASE i = 1
    BY <1>1, <2>1, <2>2
  <2>3. CASE i # 1
    <3>1. i - 1 \in 1..(Len(s) - 1) /\ (i - 1) + 1 = i
      BY <1>1, <2>3
    <3> QED BY <1>1, <1>2, <2>1, <3>1 DEF Range
  <2> QED BY <2>2, <2>3
<1>4. ASSUME NEW x \in Range(Tail(s)) PROVE x \in Range(s)
  <2>1. PICK i \in 1..(Len(s) - 1) : Tail(s)[i] = x
    BY <1>2, <1>4 DEF Range
  <2>2. i + 1 \in 1..Len(s)
    BY <1>1
  <2> QED BY <1>1, <1>2, <2>1, <2>2 DEF Range
<1>5. Head(s) \in Range(s)
  BY <1>1, <1>2 DEF Range
<1> QED BY <1>1, <1>3, <1>4, <1>5

LEMMA InjectiveAppend ==
    ASSUME NEW S, NEW s \in Seq(S), NEW o \in S,
           IsInjective(s), o \notin Range(s)
    PROVE  IsInjective(Append(s, o))
<1>1. /\ Len(s) \in Nat /\ DOMAIN s = 1..Len(s)
      /\ DOMAIN Append(s, o) = 1..(Len(s) + 1)
      /\ \A i \in 1..Len(s) : Append(s, o)[i] = s[i]
      /\ Append(s, o)[Len(s) + 1] = o
  BY AppendProperties, LenProperties
<1>2. \A i \in 1..(Len(s) + 1) : i = Len(s) + 1 \/ i \in 1..Len(s)
  BY <1>1
<1>3. \A i \in 1..Len(s) : s[i] # o
  BY <1>1 DEF Range
<1> QED BY <1>1, <1>2, <1>3 DEF IsInjective

\* The parts of an injective sequence are injective and have nothing in common.
LEMMA InjectiveParts ==
    ASSUME NEW S, NEW s \in Seq(S), NEW t \in Seq(S), IsInjective(s \o t)
    PROVE  IsInjective(t) /\ Range(s) \cap Range(t) = {}
<1>1. /\ Len(s) \in Nat /\ Len(t) \in Nat
      /\ DOMAIN s = 1..Len(s) /\ DOMAIN t = 1..Len(t)
      /\ DOMAIN (s \o t) = 1..(Len(s) + Len(t))
      /\ \A i \in 1..(Len(s) + Len(t)) :
            (s \o t)[i] = IF i <= Len(s) THEN s[i] ELSE t[i - Len(s)]
  BY ConcatProperties, LenProperties
<1>2. ASSUME NEW i \in 1..Len(s)
      PROVE  i \in DOMAIN (s \o t) /\ (s \o t)[i] = s[i]
  <2>1. i \in 1..(Len(s) + Len(t)) /\ i <= Len(s)
    BY <1>1
  <2> QED BY <1>1, <2>1
<1>3. ASSUME NEW i \in 1..Len(t)
      PROVE  i + Len(s) \in DOMAIN (s \o t) /\ (s \o t)[i + Len(s)] = t[i]
  <2>1. /\ i + Len(s) \in 1..(Len(s) + Len(t)) /\ ~(i + Len(s) <= Len(s))
        /\ (i + Len(s)) - Len(s) = i
    BY <1>1
  <2> QED BY <1>1, <2>1
<1>4. IsInjective(t)
  <2> SUFFICES ASSUME NEW i \in 1..Len(t), NEW j \in 1..Len(t), t[i] = t[j]
               PROVE  i = j
    BY <1>1 DEF IsInjective
  <2>1. i + Len(s) = j + Len(s)
    BY <1>3 DEF IsInjective
  <2> QED BY <1>1, <2>1
<1>5. Range(s) \cap Range(t) = {}
  <2> SUFFICES ASSUME NEW x \in Range(s), x \in Range(t) PROVE FALSE
    OBVIOUS
  <2>1. PICK i \in 1..Len(s) : s[i] = x
    BY <1>1 DEF Range
  <2>2. PICK j \in 1..Len(t) : t[j] = x
    BY <1>1 DEF Range
  <2>3. i \in DOMAIN (s \o t) /\ (s \o t)[i] = x
    BY <1>2, <2>1
  <2>4. j + Len(s) \in DOMAIN (s \o t) /\ (s \o t)[j + Len(s)] = x
    BY <1>3, <2>2
  <2>5. i = j + Len(s)
    BY <2>3, <2>4 DEF IsInjective
  <2> QED BY <1>1, <2>5
<1> QED BY <1>4, <1>5

\* What one observation yields is a sequence of operations.
LEMMA BoundedAreSequences ==
    \A S, T, n : T \subseteq S /\ n \in Nat =>
        \A s \in BoundedSeq(T, n) : s \in Seq(S) /\ Range(s) \subseteq T
<1> SUFFICES ASSUME NEW S, NEW T \in SUBSET S, NEW n \in Nat,
                    NEW s \in BoundedSeq(T, n)
             PROVE  s \in Seq(S) /\ Range(s) \subseteq T
  OBVIOUS
<1>1. PICK m \in 0..n : s \in [1..m -> T]
  BY DEF BoundedSeq, SeqOf
<1>2. s \in Seq(S)
  BY <1>1
<1>3. Range(s) \subseteq T
  BY <1>1 DEF Range
<1> QED BY <1>2, <1>3

-----------------------------------------------------------------------------
(* The callbacks that a step of another task leaves running *)

OthersGoOn(t) ==
    \A u \in Tasks : u # t /\ pc[u] = "callback" =>
        pc'[u] = "callback" /\ batch'[u] = batch[u]

CallbacksGoOn ==
    \A u \in Tasks : pc[u] = "callback" =>
        pc'[u] = "callback" /\ batch'[u] = batch[u]

LEMMA LeaveGoesOn ==
    ASSUME TaskTypeOK, NEW t \in Tasks, NEW method, NEW current, NEW cancelling,
           Leave(t, method, current, cancelling)
    PROVE  \A u \in Tasks : u # t /\ pc[u] = "callback" => pc'[u] = "callback"
<1>1. CASE StartTimer(t, current, cancelling)
  <2>1. PICK n \in Timers :
          pc[n] = "idle" /\ pc' = [pc EXCEPT ![t] = "idle", ![n] = "sleep"]
    BY <1>1 DEF StartTimer
  <2> QED BY <2>1, TaskFacts DEF TaskTypeOK
<1>2. CASE Return(t, current, cancelling)
  BY <1>2 DEF Return, TaskTypeOK
<1> QED BY <1>1, <1>2 DEF Leave

LEMMA LockedGoesOn ==
    ASSUME TaskTypeOK, LockTypeOK, NEW t \in Tasks, NEW method, NEW queue,
           Locked(t, method, queue)
    PROVE  OthersGoOn(t)
<1>1. CASE batch' = [batch EXCEPT ![t] = queue] /\ Suspend(t, method, "callback")
  BY <1>1 DEF Suspend, OthersGoOn, TaskTypeOK, LockTypeOK
<1>2. CASE Leave(t, method, timerTask, doomed) /\ UNCHANGED batch
  BY <1>2, LeaveGoesOn DEF OthersGoOn
<1> QED BY <1>1, <1>2 DEF Locked

LEMMA TriggerGoesOn ==
    ASSUME TaskTypeOK, LockTypeOK, NEW t \in Tasks, NEW method, NEW queue,
           Trigger(t, method, queue)
    PROVE  OthersGoOn(t)
<1>1. CASE Locked(t, method, queue)
  BY <1>1, LockedGoesOn
<1>2. CASE Suspend(t, method, "lock") /\ UNCHANGED <<holder, batch>>
  BY <1>2 DEF Suspend, OthersGoOn, TaskTypeOK
<1> QED BY <1>1, <1>2 DEF Trigger

\* The end of a callback leaves the others alone.
LEMMA EndGoesOn ==
    ASSUME IInv, NEW t \in Tasks,
           CallbackReturns(t) \/ CallbackRaises(t) \/ CancelledErrorIn(t)
    PROVE  OthersGoOn(t) /\ batch'[t] = <<>>
<1>1. TaskTypeOK /\ LockTypeOK
  BY DEF IInv, TypeOK
<1>2. batch' = [batch EXCEPT ![t] = <<>>]
  BY DEF CallbackReturns, CallbackRaises, CancelledErrorIn
<1>3. CASE CallbackReturns(t) \/ CallbackRaises(t)
  <2>1. \E current, cancelling : Leave(t, call[t], current, cancelling)
    BY <1>3 DEF CallbackReturns, CallbackRaises
  <2> QED BY <1>1, <1>2, <2>1, LeaveGoesOn DEF OthersGoOn, LockTypeOK
<1>4. CASE CancelledErrorIn(t)
  BY <1>1, <1>2, <1>4 DEF CancelledErrorIn, OthersGoOn, TaskTypeOK, LockTypeOK
<1> QED BY <1>1, <1>2, <1>3, <1>4 DEF LockTypeOK

\* The steps of the buffer in which no callback ends, and the one that marks
\* the loop as cancelled.
BufferMoves ==
    \/ \E o \in Operations : Add(loop, o)
    \/ CheckTimeTrigger(loop) \/ Flush(loop) \/ StartTimerIfNeeded(loop)
    \/ Stop(ctl, "stop") \/ StopReturns(ctl)
    \/ \E t \in Tasks : Acquire(t)
    \/ \E n \in Timers : TimerFires(n)
    \/ ThresholdPasses \/ CooldownPasses

LEMMA PipelineTasks ==
    /\ loop \in Clients /\ ctl \in Clients /\ loop \in Tasks /\ ctl \in Tasks
    /\ loop \notin Timers /\ loop # ctl
BY PipelineAssumption, ConstantsAssumption DEF Tasks

LEMMA MovesAreSteps == BufferMoves => Next
<1> SUFFICES ASSUME BufferMoves PROVE Next
  OBVIOUS
<1> USE PipelineTasks
<1>1. CASE \E t \in Tasks : Acquire(t)
  BY <1>1 DEF Next, TaskStep
<1>2. CASE \/ \E o \in Operations : Add(loop, o)
           \/ CheckTimeTrigger(loop) \/ Flush(loop) \/ StartTimerIfNeeded(loop)
  BY <1>2 DEF Next, ClientStep
<1>3. CASE Stop(ctl, "stop") \/ StopReturns(ctl)
  BY <1>3 DEF Next, ClientStep
<1> QED BY <1>1, <1>2, <1>3 DEF BufferMoves, Next

LEMMA MovesGoOn ==
    ASSUME IInv, BufferMoves
    PROVE  CallbacksGoOn
<1>1. TaskTypeOK /\ LockTypeOK
  BY DEF IInv, TypeOK
<1>2. ASSUME NEW t \in Tasks, pc[t] # "callback", OthersGoOn(t)
      PROVE  CallbacksGoOn
  BY <1>2 DEF OthersGoOn, CallbacksGoOn
<1>3. ASSUME NEW t \in Tasks, StartTimer(t, timerTask, doomed), UNCHANGED batch
      PROVE  OthersGoOn(t)
  <2>1. Leave(t, "add", timerTask, doomed)
    BY <1>3 DEF Leave
  <2> QED BY <1>1, <1>3, <2>1, LeaveGoesOn DEF OthersGoOn
<1>4. ASSUME NEW o \in Operations, Add(loop, o) PROVE CallbacksGoOn
  <2>1. pc[loop] # "callback"
    BY <1>4 DEF Add
  <2>2. CASE Trigger(loop, "add", ops')
    BY <1>1, <1>2, <2>1, <2>2, TriggerGoesOn, PipelineTasks
  <2>3. CASE StartTimer(loop, timerTask, doomed) /\ UNCHANGED lockVars
    BY <1>2, <1>3, <2>1, <2>3, PipelineTasks DEF lockVars
  <2> QED BY <1>4, <2>2, <2>3 DEF Add
<1>5. CASE CheckTimeTrigger(loop) \/ Flush(loop)
  <2>1. /\ pc[loop] # "callback"
        /\ Trigger(loop, "check", ops) \/ Trigger(loop, "flush", ops)
    BY <1>5 DEF CheckTimeTrigger, Flush
  <2> QED BY <1>1, <1>2, <2>1, TriggerGoesOn, PipelineTasks
<1>6. CASE StartTimerIfNeeded(loop)
  BY <1>2, <1>3, <1>6, PipelineTasks DEF StartTimerIfNeeded, lockVars
<1>7. CASE Stop(ctl, "stop") \/ StopReturns(ctl)
  BY <1>1, <1>7, PipelineTasks
     DEF Stop, StopReturns, lockVars, CallbacksGoOn, TaskTypeOK
<1>8. ASSUME NEW t \in Tasks, Acquire(t) PROVE CallbacksGoOn
  BY <1>1, <1>2, <1>8, LockedGoesOn DEF Acquire
<1>9. ASSUME NEW n \in Timers, TimerFires(n) PROVE CallbacksGoOn
  <2>1. n \in Tasks /\ pc[n] # "callback"
    BY <1>9, TaskFacts DEF TimerFires
  <2>2. CASE Return(n, timerTask, doomed) /\ UNCHANGED lockVars
    <3>1. Leave(n, "timer", timerTask, doomed)
      BY <2>2 DEF Leave
    <3>2. OthersGoOn(n)
      BY <1>1, <2>1, <2>2, <3>1, LeaveGoesOn DEF OthersGoOn, lockVars
    <3> QED BY <1>2, <2>1, <3>2
  <2>3. CASE Trigger(n, "timer", ops)
    BY <1>1, <1>2, <2>1, <2>3, TriggerGoesOn
  <2> QED BY <1>9, <2>2, <2>3 DEF TimerFires
<1>10. CASE ThresholdPasses \/ CooldownPasses
  BY <1>10 DEF ThresholdPasses, CooldownPasses, taskVars, lockVars, CallbacksGoOn
<1> QED BY <1>4, <1>5, <1>6, <1>7, <1>8, <1>9, <1>10 DEF BufferMoves

-----------------------------------------------------------------------------
(* What every step does to the buffer *)

\* A step that changes nothing of the buffer but who is being cancelled.
DoomedOnly ==
    /\ doomed' \subseteq Tasks
    /\ UNCHANGED <<ops, lastOp, suppressed, timerTask, owned, hooked, pc, call,
                   gathered, delivered, lockVars, boundVars>>

LEMMA DoomedOnlyKeepsIInv ==
    ASSUME IInv, DoomedOnly
    PROVE  IInv' /\ CallbacksGoOn
BY DEF DoomedOnly, IInv, TypeOK, QueueTypeOK, TaskTypeOK, LockTypeOK,
       BoundTypeOK, CallbackInv, PendingIsTimed, lockVars, boundVars,
       CallbacksGoOn

LEMMA RestartKeepsIInv ==
    ASSUME PipelineInv, Restart
    PROVE  IInv'
<1>1. /\ file.items \in Seq(Operations)
      /\ file.last \in {"none", "recent", "old"}
      /\ file.items # <<>> => file.last # "none"
      /\ BoundTypeOK
  BY DEF PipelineInv, PipelineTypeOK, FileIsTimed, TypeOK
<1>2. PICK n \in Timers :
        LET restored == IF file.items = <<>> THEN {} ELSE {n}
        IN /\ timerTask' = IF file.items = <<>> THEN None ELSE n
           /\ owned' = restored
           /\ pc' = [t \in Tasks |-> IF t \in restored THEN "sleep" ELSE "idle"]
           /\ call' = [t \in Tasks |-> IF t \in restored THEN "timer" ELSE "none"]
  BY DEF Restart
<1>3. QueueTypeOK' /\ PendingIsTimed'
  <2>1. <<>> \in Seq(Operations)
    OBVIOUS
  <2>2. ops' \in Seq(Operations) /\ delivered' \in Seq(Operations)
    BY <1>1, <2>1 DEF Restart
  <2>3. lastOp' \in {"none", "recent", "old"} /\ PendingIsTimed'
    BY <1>1 DEF Restart, PendingIsTimed
  <2>4. suppressed' \in BOOLEAN /\ hooked' \in BOOLEAN
    BY DEF Restart
  <2> QED BY <2>2, <2>3, <2>4 DEF QueueTypeOK
<1>4. TaskTypeOK'
  <2>1. doomed' = {} /\ gathered' = [c \in Clients |-> {}]
    BY DEF Restart
  <2>2. timerTask' \in Timers \cup {None} /\ owned' \subseteq Timers
    BY <1>2
  <2>3. /\ pc' \in [Tasks -> {"idle", "sleep", "lock", "callback", "gather"}]
        /\ call' \in [Tasks -> Methods]
    BY <1>2 DEF Methods
  <2> QED BY <2>1, <2>2, <2>3 DEF TaskTypeOK
<1>5. LockTypeOK'
  <2>1. /\ holder' = None /\ waiters' = <<>>
        /\ batch' = [t \in Tasks |-> <<>>]
    BY DEF Restart
  <2> QED BY <2>1 DEF LockTypeOK
<1>6. BoundTypeOK'
  BY <1>1 DEF Restart, BoundTypeOK, boundVars
<1>7. CallbackInv'
  BY <1>2 DEF CallbackInv
<1> QED BY <1>3, <1>4, <1>5, <1>6, <1>7 DEF IInv, TypeOK

LEMMA InterruptedKeepsIInv ==
    ASSUME IInv, NEW t \in Tasks, Interrupted(t)
    PROVE  IInv' /\ OthersGoOn(t)
<1>1. CASE CancelledErrorIn(t)
  <2>1. [Next]_vars
    BY <1>1 DEF Next, TaskStep
  <2> QED BY <1>1, <2>1, IInvInductive, EndGoesOn
<1>2. CASE /\ doomed' = doomed \ {loop}
           /\ UNCHANGED <<ops, lastOp, suppressed, timerTask, owned, hooked,
                          pc, call, gathered, delivered, lockVars, boundVars>>
  <2>1. DoomedOnly
    BY <1>2 DEF DoomedOnly, IInv, TypeOK, TaskTypeOK
  <2> QED BY <2>1, DoomedOnlyKeepsIInv DEF CallbacksGoOn, OthersGoOn
<1> QED BY <1>1, <1>2 DEF Interrupted


\* The steps that leave the callbacks alone, and those that end the one of t.
QuietStep == BufferMoves \/ DoomedOnly

EndStep(t) == CallbackReturns(t) \/ CallbackRaises(t)

LEMMA QuietKeepsIInv ==
    ASSUME IInv, QuietStep
    PROVE  IInv' /\ CallbacksGoOn
<1>1. CASE BufferMoves
  BY <1>1, MovesAreSteps, MovesGoOn, IInvInductive
<1>2. CASE DoomedOnly
  BY <1>2, DoomedOnlyKeepsIInv
<1> QED BY <1>1, <1>2 DEF QuietStep

LEMMA StillIsQuiet ==
    ASSUME IInv, UNCHANGED vars
    PROVE  QuietStep
BY DEF QuietStep, DoomedOnly, vars, taskVars, lockVars, boundVars, IInv, TypeOK,
       TaskTypeOK

LEMMA LoopStepIsQuiet ==
    ASSUME PipelineInv, LoopStep
    PROVE  QuietStep
<1>1. IInv /\ toAdd \in Seq(Operations)
  BY DEF PipelineInv, PipelineTypeOK
<1>2. CASE AddOperation
  <2>1. Head(toAdd) \in Operations
    BY <1>1, <1>2, HeadAndTail DEF AddOperation
  <2> QED BY <1>2, <2>1 DEF AddOperation, QuietStep, BufferMoves
<1>3. CASE WakeUp \/ CheckBuffer
  BY <1>1, <1>3, StillIsQuiet DEF WakeUp, CheckBuffer, QuietStep, BufferMoves
<1>4. CASE \/ ReceiveObservation \/ SkipObservation \/ StoreOperations
           \/ AddedAll \/ StartSynthesis \/ EndSynthesis \/ EndRound \/ EndLoop
  <2>1. UNCHANGED vars
    BY <1>4 DEF ReceiveObservation, SkipObservation, StoreOperations, AddedAll,
                StartSynthesis, EndSynthesis, EndRound, EndLoop
  <2> QED BY <1>1, <2>1, StillIsQuiet
<1> QED BY <1>2, <1>3, <1>4 DEF LoopStep

LEMMA LifecycleIsQuiet ==
    ASSUME PipelineInv,
           \/ StopTempo \/ CancelLoop \/ Stopped \/ SaveBeforeExit \/ ResumeTempo
    PROVE  QuietStep
<1>1. IInv /\ doomed \subseteq Tasks
  BY DEF PipelineInv, IInv, TypeOK, TaskTypeOK
<1>2. CASE StopTempo
  BY <1>2 DEF StopTempo, QuietStep, BufferMoves
<1>3. CASE CancelLoop
  <2>1. doomed' \subseteq Tasks
    BY <1>1, <1>3, PipelineTasks DEF CancelLoop
  <2> QED BY <1>3, <2>1 DEF CancelLoop, QuietStep, DoomedOnly
<1>4. CASE Stopped \/ SaveBeforeExit
  BY <1>1, <1>4, StillIsQuiet DEF Stopped, SaveBeforeExit
<1>5. CASE ResumeTempo
  BY <1>1, <1>5, StillIsQuiet DEF ResumeTempo, QuietStep, BufferMoves
<1> QED BY <1>2, <1>3, <1>4, <1>5

LEMMA BufferStepIsQuiet ==
    ASSUME BufferStep
    PROVE  QuietStep
BY DEF BufferStep, QuietStep, BufferMoves

LEMMA CallbackStepCases ==
    ASSUME IInv, NEW t \in Tasks, CallbackStep(t)
    PROVE  QuietStep \/ EndStep(t)
<1>1. CASE OpenSession(t) \/ BuildActions(t) \/ Reconcile(t)
  BY <1>1, StillIsQuiet DEF OpenSession, BuildActions, Reconcile
<1>2. CASE FailActions(t) \/ SynthesizeGoals(t)
  BY <1>2 DEF FailActions, SynthesizeGoals, EndStep
<1>3. ASSUME NEW created, Accumulate(t, created) PROVE QuietStep \/ EndStep(t)
  BY <1>3, StillIsQuiet DEF Accumulate, EndStep
<1>4. CASE ProposeActivities(t)
  BY <1>3, <1>4 DEF ProposeActivities, ProposeFails
<1> QED BY <1>1, <1>2, <1>4 DEF CallbackStep

LEMMA BufferCases ==
    ASSUME PipelineInv, [PipelineNext]_allVars
    PROVE  \/ QuietStep
           \/ \E t \in Tasks : EndStep(t) \/ Interrupted(t)
           \/ Restart
<1>1. IInv
  BY DEF PipelineInv
<1>2. CASE LoopStep \/ BufferStep
  BY <1>2, LoopStepIsQuiet, BufferStepIsQuiet
<1>3. CASE \E t \in Tasks : CallbackStep(t) \/ Interrupted(t)
  BY <1>1, <1>3, CallbackStepCases
<1>4. CASE LifecycleStep
  BY <1>4, LifecycleIsQuiet DEF LifecycleStep
<1>5. CASE SynthesisAges \/ UNCHANGED allVars
  BY <1>1, <1>5, StillIsQuiet DEF SynthesisAges, allVars
<1> QED BY <1>2, <1>3, <1>4, <1>5 DEF PipelineNext

LEMMA BufferKept ==
    ASSUME PipelineInv, [PipelineNext]_allVars
    PROVE  IInv'
<1>1. IInv
  BY DEF PipelineInv
<1>2. ASSUME NEW t \in Tasks, EndStep(t) PROVE IInv'
  BY <1>1, <1>2, IInvInductive DEF EndStep, Next, TaskStep
<1> QED BY <1>1, <1>2, BufferCases, QuietKeepsIInv, InterruptedKeepsIInv,
           RestartKeepsIInv

-----------------------------------------------------------------------------
(* Types *)

\* The types of what the buffer does not hold.
PipeTypeOK ==
    /\ loopAt \in {"top", "stage1", "adding", "periodic", "goals", "synthesis",
                   "save", "off"}
    /\ toAdd \in Seq(Operations)
    /\ db \in Tasks \cup {None}
    /\ stage \in [Tasks -> {"actions", "activities", "reconcile", "synthesis"}]
    /\ extracted \subseteq Operations
    /\ covered \in [Operations -> Nat]
    /\ activities \in Nat /\ mem \in Memories
    /\ file \in [items : Seq(Operations), last : {"none", "recent", "old"},
                 mem : Memories]
    /\ running \in BOOLEAN /\ cutShort \in BOOLEAN
    /\ ctlAt \in {"none", "pausing", "joining"}
    /\ swallowed \in Nat /\ restarts \in Nat

LEMMA PipeTypes == PipelineInv => PipeTypeOK
BY DEF PipelineInv, PipelineTypeOK, PipeTypeOK

LEMMA FreshIsMemory == activities \in Nat => FreshMemory \in Memories
BY DEF FreshMemory, Memories

\* A synthesis leaves counters like any others, whether its commit goes through
\* or not.
LEMMA SynthesizedIsMemory == mem \in Memories => Synthesized \in Memories
BY DEF Synthesized, Memories

\* What is saved at any time is a state file.
LEMMA SnapshotType ==
    ASSUME QueueTypeOK, NEW m \in Memories
    PROVE  Snapshot(m) \in [items : Seq(Operations),
                            last : {"none", "recent", "old"}, mem : Memories]
BY DEF Snapshot, QueueTypeOK

LEMMA LoopStepTypes ==
    ASSUME PipeTypeOK, QueueTypeOK, LoopStep
    PROVE  PipeTypeOK'
<1> USE DEF PipeTypeOK
<1>1. Snapshot(mem) \in [items : Seq(Operations),
                         last : {"none", "recent", "old"}, mem : Memories]
  BY SnapshotType
<1>2. CASE WakeUp
  BY <1>2 DEF WakeUp, pipeVars, Memories
<1>3. CASE ReceiveObservation
  BY <1>3, PipelineTasks DEF ReceiveObservation, Memories
<1>4. CASE SkipObservation
  BY <1>4 DEF SkipObservation, Memories
<1>5. CASE StoreOperations
  <2>1. PICK s \in BoundedSeq(Operations \ extracted, MaxObserved) :
          toAdd' = s /\ extracted' = extracted \cup Range(s)
    BY <1>5 DEF StoreOperations
  <2>2. s \in Seq(Operations) /\ Range(s) \subseteq Operations
    <3>1. Operations \ extracted \subseteq Operations /\ MaxObserved \in Nat
      BY PipelineAssumption
    <3> QED BY <2>1, <3>1, BoundedAreSequences, Zenon
  <2>3. toAdd' \in Seq(Operations) /\ extracted' \subseteq Operations
    BY <2>1, <2>2
  <2> QED BY <1>5, <2>3 DEF StoreOperations, Memories
<1>6. CASE AddOperation
  <2>1. toAdd' \in Seq(Operations)
    BY <1>6, HeadAndTail DEF AddOperation
  <2> QED BY <1>6, <2>1 DEF AddOperation, Memories
<1>7. CASE AddedAll \/ CheckBuffer
  BY <1>7 DEF AddedAll, CheckBuffer, Memories
<1>8. CASE StartSynthesis
  BY <1>8, PipelineTasks DEF StartSynthesis, Memories
<1>9. CASE EndSynthesis
  <2>1. mem' \in Memories
    BY <1>9, SynthesizedIsMemory DEF EndSynthesis
  <2>2. swallowed' \in Nat
    BY <1>9 DEF EndSynthesis, Swallow
  <2> QED BY <1>9, <2>1, <2>2 DEF EndSynthesis, Memories
<1>10. CASE EndRound
  <2>1. file' \in {file, Snapshot(mem)}
    BY <1>10 DEF EndRound
  <2> QED BY <1>1, <1>10, <2>1 DEF EndRound, Memories
<1>11. CASE EndLoop
  BY <1>11 DEF EndLoop, Memories
<1> QED BY <1>2, <1>3, <1>4, <1>5, <1>6, <1>7, <1>8, <1>9, <1>10, <1>11
        DEF LoopStep

\* New activities leave the older pending sets legal.
LEMMA MemoriesGrow ==
    ASSUME activities \in Nat, activities' \in Nat, activities <= activities'
    PROVE  Memories \subseteq Memories'
<1>1. \A m, n \in Nat : m <= n => 1..m + 1 \subseteq 1..n + 1
  OBVIOUS
<1>2. SUBSET (1..activities + 1) \subseteq SUBSET (1..activities' + 1)
  BY <1>1, Zenon
<1> QED BY <1>2 DEF Memories

LEMMA AccumulateTypes ==
    ASSUME PipeTypeOK, NEW t \in Tasks,
           NEW created \in SUBSET (1..activities' + 1),
           activities' \in Nat, activities <= activities',
           Accumulate(t, created)
    PROVE  /\ mem' \in Memories'
           /\ stage' \in [Tasks -> {"actions", "activities", "reconcile",
                                     "synthesis"}]
<1>1. mem \in Memories'
  BY MemoriesGrow DEF PipeTypeOK
<1>2. mem.pending \cup created \in SUBSET (1..activities' + 1)
  BY <1>1 DEF Memories
<1>3. mem' \in Memories'
  <2>1. mem' = [mem EXCEPT !.pending = mem.pending \cup created,
                           !.batches = mem.batches + 1,
                           !.since = IF mem.warm THEN mem.since + 1
                                                 ELSE mem.since]
    BY DEF Accumulate, Candidates
  <2>2. /\ mem.batches + 1 \in Nat
        /\ (IF mem.warm THEN mem.since + 1 ELSE mem.since) \in Nat
    BY <1>1 DEF Memories
  <2>3. \A p \in SUBSET (1..activities' + 1), b \in Nat, n \in Nat :
          [mem EXCEPT !.pending = p, !.batches = b, !.since = n] \in Memories'
    BY <1>1 DEF Memories
  <2> QED BY <1>2, <2>1, <2>2, <2>3
<1>4. PICK s \in {"actions", "reconcile", "synthesis"} :
        stage' = [stage EXCEPT ![t] = s]
  BY DEF Accumulate
<1> QED BY <1>3, <1>4 DEF PipeTypeOK

LEMMA CallbackStepTypes ==
    ASSUME PipeTypeOK, QueueTypeOK, NEW t \in Tasks, CallbackStep(t)
    PROVE  PipeTypeOK'
<1> USE DEF PipeTypeOK
<1>1. CASE OpenSession(t)
  BY <1>1 DEF OpenSession, Memories
<1>2. CASE BuildActions(t)
  <2>1. covered' \in [Operations -> Nat]
    BY <1>2 DEF BuildActions
  <2> QED BY <1>2, <2>1 DEF BuildActions, Memories
<1>3. CASE FailActions(t)
  BY <1>3 DEF FailActions, Memories
<1>4. CASE ProposeActivities(t)
  <2>1. ASSUME NEW created \in SUBSET (1..activities' + 1),
               activities' \in Nat, activities <= activities',
               Accumulate(t, created), swallowed' \in Nat
        PROVE  PipeTypeOK'
    <3>1. /\ mem' \in Memories'
          /\ stage' \in [Tasks -> {"actions", "activities", "reconcile",
                                    "synthesis"}]
      BY <2>1, AccumulateTypes
    <3>2. file' \in [items : Seq(Operations), last : {"none", "recent", "old"},
                     mem : Memories']
      BY <1>4, <2>1, MemoriesGrow DEF ProposeActivities
    <3> HIDE DEF Memories
    <3> QED BY <1>4, <2>1, <3>1, <3>2 DEF ProposeActivities
  <2>2. CASE /\ Accumulate(t, {activities + 1})
             /\ activities' = activities + 1
             /\ UNCHANGED swallowed
    <3>1. {activities + 1} \in SUBSET (1..activities' + 1)
      BY <2>2
    <3> QED BY <2>1, <2>2, <3>1
  <2>3. CASE Accumulate(t, {}) /\ UNCHANGED <<activities, cutShort, swallowed>>
    BY <2>1, <2>3
  <2>4. CASE ProposeFails(t)
    <3>1. PICK kept \in {{}, {activities + 1}} : Accumulate(t, kept)
      BY <2>4 DEF ProposeFails
    <3>2. activities' = activities /\ swallowed' \in Nat
      BY <2>4 DEF ProposeFails, Swallow
    <3>3. kept \in SUBSET (1..activities' + 1)
      BY <3>2
    <3> QED BY <2>1, <3>1, <3>2, <3>3
  <2> QED BY <1>4, <2>2, <2>3, <2>4 DEF ProposeActivities
<1>5. CASE Reconcile(t)
  <2>1. mem' \in Memories
    <3>1. mem.fresh \in Nat /\ \A n \in Nat : [mem EXCEPT !.fresh = n] \in Memories
      BY DEF Memories
    <3>2. \A changes \in 0..1 : mem.fresh + changes \in Nat
      BY <3>1
    <3>3. \E changes \in 0..1 : mem' = [mem EXCEPT !.fresh = mem.fresh + changes]
      BY <1>5 DEF Reconcile
    <3> QED BY <3>1, <3>2, <3>3
  <2>2. swallowed' \in Nat
    BY <1>5 DEF Reconcile, Swallow
  <2> QED BY <1>5, <2>1, <2>2 DEF Reconcile, Memories
<1>6. CASE SynthesizeGoals(t)
  <2>1. mem' \in Memories
    <3>1. PICK m \in {mem, Synthesized} :
            mem' = [m EXCEPT !.pending = {}, !.warm = TRUE,
                             !.since = IF mem.warm THEN 0 ELSE m.since]
      BY <1>6 DEF SynthesizeGoals
    <3>2. m \in Memories
      BY SynthesizedIsMemory
    <3> QED BY <3>1, <3>2 DEF Memories
  <2>2. swallowed' \in Nat
    BY <1>6 DEF SynthesizeGoals, Swallow
  <2>3. file' \in [items : Seq(Operations), last : {"none", "recent", "old"},
                   mem : Memories]
    BY <1>6, <2>1, SnapshotType DEF SynthesizeGoals
  <2> QED BY <1>6, <2>1, <2>2, <2>3 DEF SynthesizeGoals, Memories
<1> QED BY <1>1, <1>2, <1>3, <1>4, <1>5, <1>6 DEF CallbackStep

LEMMA OtherStepTypes ==
    ASSUME PipeTypeOK, QueueTypeOK,
           \/ \E t \in Tasks : Interrupted(t)
           \/ BufferStep \/ SynthesisAges \/ LifecycleStep \/ UNCHANGED allVars
    PROVE  PipeTypeOK'
<1> USE DEF PipeTypeOK
<1>1. Snapshot(mem) \in [items : Seq(Operations),
                         last : {"none", "recent", "old"}, mem : Memories]
  BY SnapshotType
<1>2. ASSUME NEW t \in Tasks, Interrupted(t) PROVE PipeTypeOK'
  <2>1. loopAt' \in {loopAt, "off"} /\ toAdd' \in {toAdd, <<>>}
    BY <1>2 DEF Interrupted
  <2>2. <<>> \in Seq(Operations)
    OBVIOUS
  <2>3. toAdd' \in Seq(Operations)
    BY <2>1, <2>2
  <2>4. running' \in BOOLEAN /\ cutShort' \in BOOLEAN
    BY <1>2 DEF Interrupted
  <2> QED BY <1>2, <2>1, <2>3, <2>4 DEF Interrupted, Memories
<1>3. CASE BufferStep
  BY <1>3 DEF BufferStep, pipeVars, Memories
<1>4. CASE SynthesisAges
  <2>1. mem' \in Memories
    <3>1. [mem EXCEPT !.synthesis = "old"] \in Memories
      BY DEF Memories
    <3> QED BY <1>4, <3>1 DEF SynthesisAges
  <2>2. UNCHANGED <<loopAt, toAdd, db, stage, extracted, covered, activities,
                    file, running, ctlAt, swallowed, cutShort, restarts>>
    BY <1>4 DEF SynthesisAges
  <2> QED BY <2>1, <2>2 DEF Memories
<1>5. CASE LifecycleStep
  <2>1. CASE StopTempo
    BY <1>1, <2>1 DEF StopTempo, Memories
  <2>2. CASE CancelLoop
    BY <2>2 DEF CancelLoop, Memories
  <2>3. CASE Stopped
    BY <2>3 DEF Stopped, Memories
  <2>4. CASE SaveBeforeExit
    BY <1>1, <2>4 DEF SaveBeforeExit, Memories
  <2>5. CASE ResumeTempo
    BY <2>5 DEF ResumeTempo, Memories
  <2>6. CASE Restart
    <3>1. mem' \in Memories
      BY <2>6, FreshIsMemory DEF Restart
    <3>2. <<>> \in Seq(Operations)
      OBVIOUS
    <3>3. /\ loopAt' = "top" /\ toAdd' = <<>> /\ db' = None
          /\ stage' = [t \in Tasks |-> "actions"]
          /\ running' = TRUE /\ ctlAt' = "none" /\ restarts' = restarts + 1
          /\ UNCHANGED <<extracted, covered, activities, file, cutShort,
                         swallowed>>
      BY <2>6 DEF Restart
    <3> QED BY <3>1, <3>2, <3>3 DEF Memories
  <2> QED BY <1>5, <2>1, <2>2, <2>3, <2>4, <2>5, <2>6 DEF LifecycleStep
<1>6. CASE UNCHANGED allVars
  BY <1>6 DEF allVars, pipeVars, Memories
<1> QED BY <1>2, <1>3, <1>4, <1>5, <1>6

\* Whoever else moves, the loop stays where it is.
LEMMA LeaveSparesLoop ==
    ASSUME TaskTypeOK, NEW t \in Tasks, t # loop,
           NEW method, NEW current, NEW cancelling,
           Leave(t, method, current, cancelling)
    PROVE  pc'[loop] = pc[loop]
<1>1. CASE StartTimer(t, current, cancelling)
  <2>1. PICK n \in Timers : pc' = [pc EXCEPT ![t] = "idle", ![n] = "sleep"]
    BY <1>1 DEF StartTimer
  <2> QED BY <2>1, PipelineTasks DEF TaskTypeOK
<1>2. CASE Return(t, current, cancelling)
  BY <1>2, PipelineTasks DEF Return, TaskTypeOK
<1> QED BY <1>1, <1>2 DEF Leave

LEMMA LockSparesLoop ==
    ASSUME TaskTypeOK, NEW t \in Tasks, t # loop, NEW method, NEW queue,
           Locked(t, method, queue) \/ Trigger(t, method, queue)
    PROVE  pc'[loop] = pc[loop]
<1>1. \/ Suspend(t, method, "callback") \/ Suspend(t, method, "lock")
      \/ Leave(t, method, timerTask, doomed)
  BY DEF Trigger, Locked
<1> QED BY <1>1, LeaveSparesLoop, PipelineTasks DEF Suspend, TaskTypeOK

LEMMA BufferStepSparesLoop ==
    ASSUME TaskTypeOK, BufferStep, pc[loop] = "idle"
    PROVE  pc'[loop] = "idle"
<1>1. ASSUME NEW t \in Tasks, Acquire(t) PROVE pc'[loop] = "idle"
  <2>1. t # loop
    BY <1>1 DEF Acquire
  <2> QED BY <1>1, <2>1, LockSparesLoop DEF Acquire
<1>2. ASSUME NEW n \in Timers, TimerFires(n) PROVE pc'[loop] = "idle"
  <2>1. n \in Tasks /\ n # loop
    BY TaskFacts, PipelineTasks
  <2>2. CASE Return(n, timerTask, doomed)
    BY <2>1, <2>2, LeaveSparesLoop DEF Leave
  <2>3. CASE Trigger(n, "timer", ops)
    BY <2>1, <2>3, LockSparesLoop
  <2> QED BY <1>2, <2>2, <2>3 DEF TimerFires
<1>3. CASE StopReturns(ctl)
  BY <1>3, PipelineTasks DEF StopReturns, TaskTypeOK
<1>4. CASE ThresholdPasses \/ CooldownPasses
  BY <1>4 DEF ThresholdPasses, CooldownPasses, taskVars
<1> QED BY <1>1, <1>2, <1>3, <1>4 DEF BufferStep

\* The session is in good hands: it is opened by a callback or by the loop
\* outside the buffer, and neither leaves where it is without closing it.
LEMMA SessionHeldKept ==
    ASSUME PipelineInv, [PipelineNext]_allVars
    PROVE  SessionHeld'
<1>1. /\ IInv /\ TaskTypeOK /\ SessionHeld /\ PipeTypeOK
  BY PipeTypes DEF PipelineInv, PipelineTypeOK, IInv, TypeOK
<1>2. ASSUME CallbacksGoOn, db' = db, db # None => pc[db] = "callback"
      PROVE  SessionHeld'
  BY <1>1, <1>2 DEF SessionHeld, CallbacksGoOn, PipeTypeOK
<1>3. ASSUME CallbacksGoOn, UNCHANGED <<db, loopAt>>,
             pc[loop] = "idle" => pc'[loop] = "idle"
      PROVE  SessionHeld'
  BY <1>1, <1>3 DEF SessionHeld, CallbacksGoOn, PipeTypeOK
<1>4. ASSUME UNCHANGED <<db, loopAt, vars>> PROVE SessionHeld'
  BY <1>1, <1>4 DEF SessionHeld, vars, taskVars
<1>5. CASE LoopStep
  <2>1. CallbacksGoOn
    BY <1>1, <1>5, LoopStepIsQuiet, QuietKeepsIInv
  <2>2. CASE ReceiveObservation \/ StartSynthesis
    BY <2>2 DEF ReceiveObservation, StartSynthesis, InLoop, SessionHeld, vars,
       taskVars
  <2>3. CASE StoreOperations \/ EndSynthesis
    BY <2>3 DEF StoreOperations, EndSynthesis, SessionHeld
  <2>4. CASE \/ WakeUp \/ SkipObservation \/ AddOperation \/ AddedAll
             \/ CheckBuffer \/ EndRound \/ EndLoop
    <3>1. db' = None \/ (db' = db /\ loopAt \notin {"stage1", "synthesis"})
      BY <2>4 DEF WakeUp, SkipObservation, AddOperation, AddedAll, CheckBuffer,
         EndRound, EndLoop, InLoop, pipeVars
    <3> QED BY <1>1, <1>2, <2>1, <3>1 DEF SessionHeld
  <2> QED BY <1>5, <2>2, <2>3, <2>4 DEF LoopStep
<1>6. ASSUME NEW t \in Tasks, CallbackStep(t) PROVE SessionHeld'
  <2>1. CASE OpenSession(t)
    BY <2>1 DEF OpenSession, SessionHeld, vars, taskVars
  <2>2. CASE ~OpenSession(t)
    <3>1. db' = None
      BY <1>6, <2>2 DEF CallbackStep, BuildActions, FailActions,
         ProposeActivities, Reconcile, SynthesizeGoals
    <3> QED BY <3>1 DEF SessionHeld
  <2> QED BY <2>1, <2>2
<1>7. ASSUME NEW t \in Tasks, Interrupted(t) PROVE SessionHeld'
  <2>1. OthersGoOn(t)
    BY <1>1, <1>7, InterruptedKeepsIInv
  <2>2. CASE db' = None
    BY <2>2 DEF SessionHeld
  <2>3. CASE db' = db /\ db # t /\ db # None /\ pc[db] = "callback"
    BY <1>1, <2>1, <2>3 DEF SessionHeld, OthersGoOn, PipeTypeOK
  <2>4. CASE db' = db /\ db # t /\ db = loop /\ pc[loop] = "idle"
    <3>1. loopAt' = loopAt /\ CancelledErrorIn(t)
      BY <1>7, <2>4 DEF Interrupted
    <3>2. pc'[loop] = "idle"
      BY <1>1, <2>4, <3>1, PipelineTasks DEF CancelledErrorIn, TaskTypeOK
    <3> QED BY <1>1, <2>4, <3>1, <3>2 DEF SessionHeld, CallbackInv, IInv
  <2> QED BY <1>1, <1>7, <2>2, <2>3, <2>4 DEF Interrupted, SessionHeld
<1>8. CASE BufferStep
  <2>1. CallbacksGoOn
    BY <1>1, <1>8, BufferStepIsQuiet, QuietKeepsIInv
  <2>2. UNCHANGED <<db, loopAt>>
    BY <1>8 DEF BufferStep, pipeVars
  <2> QED BY <1>1, <1>3, <1>8, <2>1, <2>2, BufferStepSparesLoop
<1>9. CASE LifecycleStep
  <2>1. CASE StopTempo
    <3>1. CallbacksGoOn
      BY <1>1, <2>1, LifecycleIsQuiet, QuietKeepsIInv
    <3>2. UNCHANGED <<db, loopAt>> /\ pc'[loop] = pc[loop]
      BY <1>1, <2>1, PipelineTasks DEF StopTempo, Stop, TaskTypeOK
    <3> QED BY <1>3, <3>1, <3>2
  <2>2. CASE CancelLoop
    <3>1. CallbacksGoOn
      BY <1>1, <2>2, LifecycleIsQuiet, QuietKeepsIInv
    <3> QED BY <1>3, <2>2, <3>1 DEF CancelLoop
  <2>3. CASE Stopped \/ SaveBeforeExit
    BY <1>4, <2>3 DEF Stopped, SaveBeforeExit
  <2>4. CASE ResumeTempo
    <3>1. CallbacksGoOn
      BY <1>1, <2>4, LifecycleIsQuiet, QuietKeepsIInv
    <3>2. db' = db /\ (db # None => pc[db] = "callback")
      BY <1>1, <2>4 DEF ResumeTempo, SessionHeld
    <3> QED BY <1>2, <3>1, <3>2
  <2>5. CASE Restart
    BY <2>5 DEF Restart, SessionHeld
  <2> QED BY <1>9, <2>1, <2>2, <2>3, <2>4, <2>5 DEF LifecycleStep
<1>10. CASE SynthesisAges \/ UNCHANGED allVars
  BY <1>4, <1>10 DEF SynthesisAges, allVars, pipeVars
<1> QED BY <1>5, <1>6, <1>7, <1>8, <1>9, <1>10 DEF PipelineNext

LEMMA TypesKept ==
    ASSUME PipelineInv, [PipelineNext]_allVars
    PROVE  PipelineTypeOK'
<1>1. PipeTypeOK /\ QueueTypeOK
  BY PipeTypes DEF PipelineInv, IInv, TypeOK
<1>2. PipeTypeOK'
  BY <1>1, LoopStepTypes, CallbackStepTypes, OtherStepTypes DEF PipelineNext
<1>3. TypeOK'
  BY BufferKept DEF IInv
<1> QED BY <1>2, <1>3, SessionHeldKept DEF PipeTypeOK, PipelineTypeOK

-----------------------------------------------------------------------------
(* The kinds of steps, as the callbacks and their stages see them *)

\* A step that moves no stage.
Quietly ==
    QuietStep /\ UNCHANGED <<stage, covered, restarts, cutShort>>

\* The callback of t goes on to a later stage.
Advances(t) ==
    /\ stage[t] # "actions"
    /\ \E s \in {"reconcile", "synthesis"} : stage' = [stage EXCEPT ![t] = s]
    /\ UNCHANGED <<vars, covered, restarts, cutShort>>

\* Stage 2 of t fails.
Raises(t) ==
    /\ stage[t] = "actions" /\ CallbackRaises(t)
    /\ UNCHANGED <<stage, covered, restarts, cutShort>>

\* The callback of t succeeds after its stage 2.
Returns(t) ==
    /\ stage[t] # "actions" /\ CallbackReturns(t)
    /\ stage' = [stage EXCEPT ![t] = "actions"]
    /\ UNCHANGED <<covered, restarts, cutShort>>

CallbackKind(t) == BuildActions(t) \/ Advances(t) \/ Raises(t) \/ Returns(t)

LEMMA CallbackStepKinds ==
    ASSUME PipelineInv, NEW t \in Tasks, CallbackStep(t)
    PROVE  Quietly \/ CallbackKind(t)
<1>1. IInv
  BY DEF PipelineInv
<1>2. CASE OpenSession(t)
  BY <1>1, <1>2, StillIsQuiet DEF OpenSession, Quietly
<1>3. CASE BuildActions(t)
  BY <1>3 DEF CallbackKind
<1>4. CASE FailActions(t)
  BY <1>4 DEF FailActions, InStage, CallbackKind, Raises
<1>5. ASSUME NEW created, Accumulate(t, created), stage[t] = "activities",
             UNCHANGED <<covered, restarts, cutShort>>
      PROVE  CallbackKind(t)
  <2>1. \/ UNCHANGED vars /\ \E s \in {"reconcile", "synthesis"} :
                                stage' = [stage EXCEPT ![t] = s]
        \/ CallbackReturns(t) /\ stage' = [stage EXCEPT ![t] = "actions"]
    BY <1>5 DEF Accumulate
  <2> QED BY <1>5, <2>1 DEF CallbackKind, Advances, Returns
<1>6. CASE ProposeActivities(t)
  BY <1>5, <1>6 DEF ProposeActivities, ProposeFails, InStage
<1>7. CASE Reconcile(t)
  BY <1>7 DEF Reconcile, InStage, CallbackKind, Advances
<1>8. CASE SynthesizeGoals(t)
  BY <1>8 DEF SynthesizeGoals, InStage, CallbackKind, Returns
<1> QED BY <1>2, <1>3, <1>4, <1>6, <1>7, <1>8 DEF CallbackStep

LEMMA StepKinds ==
    ASSUME PipelineInv, [PipelineNext]_allVars
    PROVE  \/ Quietly
           \/ \E t \in Tasks : CallbackKind(t) \/ Interrupted(t)
           \/ Restart
<1>1. IInv
  BY DEF PipelineInv
<1>2. CASE LoopStep
  <2>1. UNCHANGED <<stage, covered, restarts, cutShort>>
    BY <1>2 DEF LoopStep, WakeUp, ReceiveObservation, SkipObservation,
       StoreOperations, AddOperation, AddedAll, CheckBuffer, StartSynthesis,
       EndSynthesis, EndRound, EndLoop, pipeVars
  <2> QED BY <1>2, <2>1, LoopStepIsQuiet DEF Quietly
<1>3. CASE BufferStep
  BY <1>3, BufferStepIsQuiet DEF Quietly, BufferStep, pipeVars
<1>4. CASE \E t \in Tasks : CallbackStep(t) \/ Interrupted(t)
  BY <1>4, CallbackStepKinds
<1>5. CASE SynthesisAges \/ UNCHANGED allVars
  BY <1>1, <1>5, StillIsQuiet DEF SynthesisAges, allVars, pipeVars, Quietly
<1>6. CASE LifecycleStep
  <2>1. CASE \/ StopTempo \/ CancelLoop \/ Stopped \/ SaveBeforeExit
             \/ ResumeTempo
    <3>1. UNCHANGED <<stage, covered, restarts, cutShort>>
      BY <2>1 DEF StopTempo, CancelLoop, Stopped, SaveBeforeExit, ResumeTempo
    <3> QED BY <2>1, <3>1, LifecycleIsQuiet DEF Quietly
  <2> QED BY <1>6, <2>1 DEF LifecycleStep
<1> QED BY <1>2, <1>3, <1>4, <1>5, <1>6 DEF PipelineNext

-----------------------------------------------------------------------------
(* The stages *)

\* A callback that ends, one way or another, takes its stage along.
LEMMA StagesEnd ==
    ASSUME PipeTypeOK, StagesInCallback, NEW t \in Tasks, OthersGoOn(t),
           stage' = [stage EXCEPT ![t] = "actions"], covered' = covered
    PROVE  StagesInCallback'
<1> SUFFICES ASSUME NEW u \in Tasks, stage'[u] # "actions"
             PROVE  /\ pc'[u] = "callback"
                    /\ \A o \in Range(batch'[u]) : covered'[o] > 0
  BY DEF StagesInCallback
<1>1. u # t /\ stage[u] # "actions"
  BY DEF PipeTypeOK
<1> QED BY <1>1 DEF StagesInCallback, OthersGoOn

LEMMA StagesKept ==
    ASSUME PipelineInv, [PipelineNext]_allVars
    PROVE  StagesInCallback'
<1>1. IInv /\ PipeTypeOK /\ StagesInCallback
  BY PipeTypes DEF PipelineInv
<1>2. CASE Quietly
  <2>1. CallbacksGoOn /\ UNCHANGED <<stage, covered>>
    BY <1>1, <1>2, QuietKeepsIInv DEF Quietly
  <2> QED BY <1>1, <2>1 DEF StagesInCallback, CallbacksGoOn
<1>3. ASSUME NEW t \in Tasks, BuildActions(t) PROVE StagesInCallback'
  <2>1. /\ pc' = pc /\ batch' = batch /\ pc[t] = "callback"
        /\ stage' = [stage EXCEPT ![t] = "activities"]
        /\ covered' = [o \in Operations |->
                          covered[o] + IF o \in Range(batch[t]) THEN 1 ELSE 0]
    BY <1>3 DEF BuildActions, InStage, vars, taskVars, lockVars
  <2> SUFFICES ASSUME NEW u \in Tasks, stage'[u] # "actions",
                      NEW o \in Range(batch'[u])
               PROVE  pc'[u] = "callback" /\ covered'[o] > 0
    BY <1>1, <2>1 DEF StagesInCallback, PipeTypeOK
  <2>2. o \in Operations
    <3>1. batch[u] \in Seq(Operations)
      BY <1>1 DEF IInv, TypeOK, LockTypeOK
    <3> QED BY <2>1, <3>1 DEF Range
  <2>3. covered[o] \in Nat
    BY <1>1, <2>2 DEF PipeTypeOK
  <2>4. CASE u = t
    BY <2>1, <2>2, <2>3, <2>4
  <2>5. CASE u # t
    BY <1>1, <2>1, <2>2, <2>3, <2>5 DEF StagesInCallback, PipeTypeOK
  <2> QED BY <2>4, <2>5
<1>4. ASSUME NEW t \in Tasks, Advances(t) PROVE StagesInCallback'
  <2>1. pc' = pc /\ batch' = batch /\ covered' = covered
    BY <1>4 DEF Advances, vars, taskVars, lockVars
  <2>2. \A u \in Tasks : stage'[u] # "actions" => stage[u] # "actions"
    BY <1>1, <1>4 DEF Advances, PipeTypeOK
  <2> QED BY <1>1, <2>1, <2>2 DEF StagesInCallback
<1>5. ASSUME NEW t \in Tasks, Raises(t) PROVE StagesInCallback'
  <2>1. stage' = [stage EXCEPT ![t] = "actions"]
    BY <1>1, <1>5 DEF Raises, PipeTypeOK
  <2> QED BY <1>1, <1>5, <2>1, EndGoesOn, StagesEnd DEF Raises
<1>6. ASSUME NEW t \in Tasks, Returns(t) PROVE StagesInCallback'
  BY <1>1, <1>6, EndGoesOn, StagesEnd DEF Returns
<1>7. ASSUME NEW t \in Tasks, Interrupted(t) PROVE StagesInCallback'
  BY <1>1, <1>7, InterruptedKeepsIInv, StagesEnd DEF Interrupted
<1>8. CASE Restart
  BY <1>8 DEF Restart, StagesInCallback
<1> QED BY <1>2, <1>3, <1>4, <1>5, <1>6, <1>7, <1>8, StepKinds DEF CallbackKind

-----------------------------------------------------------------------------
(* The operations *)

\* What is added was never accepted before, and joins at the end.
Joins(o) ==
    /\ o \notin Range(Accepted)
    /\ ops' = Append(ops, o) /\ delivered' = delivered

LEMMA QuietOps ==
    ASSUME QuietStep
    PROVE  \/ UNCHANGED <<ops, delivered>>
           \/ \E o \in Operations : Joins(o)
<1>1. CASE \E o \in Operations : Add(loop, o)
  BY <1>1 DEF Add, Enqueued, Joins
<1>2. CASE ~\E o \in Operations : Add(loop, o)
  BY <1>2 DEF QuietStep, BufferMoves, DoomedOnly, CheckTimeTrigger, Flush,
     StartTimerIfNeeded, Stop, StopReturns, Acquire, TimerFires,
     ThresholdPasses, CooldownPasses
<1> QED BY <1>1, <1>2

\* A callback that succeeds takes its batch off the front of the buffer.
LEMMA ReturnsOps ==
    ASSUME IInv, NEW t \in Tasks, CallbackReturns(t)
    PROVE  /\ batch[t] \in Seq(Operations) /\ ops' \in Seq(Operations)
           /\ ops = batch[t] \o ops'
           /\ delivered' = delivered \o batch[t]
           /\ Accepted' = Accepted
<1>1. /\ ops \in Seq(Operations) /\ delivered \in Seq(Operations)
      /\ batch[t] \in Seq(Operations) /\ IsPrefix(batch[t], ops)
  BY DEF IInv, TypeOK, QueueTypeOK, LockTypeOK, CallbackInv, CallbackReturns
<1>2. ops' \in Seq(Operations) /\ batch[t] \o ops' = ops
  <2>1. /\ Remaining(t) \in Seq(Operations)
        /\ batch[t] \o Remaining(t) = ops
    BY <1>1, PrefixSplit DEF Remaining
  <2>2. ops' = Remaining(t)
    BY DEF CallbackReturns
  <2> QED BY <2>1, <2>2
<1>3. delivered' = delivered \o batch[t]
  BY DEF CallbackReturns
<1>4. \A b, r \in Seq(Operations) :
        (delivered \o b) \o r = delivered \o (b \o r)
  BY <1>1, ThreeParts
<1> QED BY <1>1, <1>2, <1>3, <1>4 DEF Accepted

\* What a running callback was given is still in the buffer.
LEMMA BatchIsBuffered ==
    ASSUME IInv, NEW t \in Tasks, pc[t] = "callback"
    PROVE  Range(batch[t]) \subseteq Range(ops)
<1>1. /\ ops \in Seq(Operations)
      /\ batch[t] \in Seq(Operations) /\ IsPrefix(batch[t], ops)
  BY DEF IInv, TypeOK, QueueTypeOK, LockTypeOK, CallbackInv
<1>2. /\ SubSeq(ops, Len(batch[t]) + 1, Len(ops)) \in Seq(Operations)
      /\ batch[t] \o SubSeq(ops, Len(batch[t]) + 1, Len(ops)) = ops
  BY <1>1, PrefixSplit
<1>3. Range(batch[t] \o SubSeq(ops, Len(batch[t]) + 1, Len(ops)))
        = Range(batch[t]) \cup Range(SubSeq(ops, Len(batch[t]) + 1, Len(ops)))
  BY <1>1, <1>2, RangeOfConcat
<1> QED BY <1>2, <1>3

\* Of the other steps, only one that builds actions changes what is covered,
\* and only the end of a callback takes anything out of the buffer.
LEMMA OpsOfKinds ==
    ASSUME PipelineInv, NEW t \in Tasks,
           BuildActions(t) \/ Advances(t) \/ Raises(t) \/ Interrupted(t)
    PROVE  UNCHANGED <<ops, delivered>>
BY DEF BuildActions, Advances, Raises, Interrupted, CallbackRaises,
       CancelledErrorIn, vars

LEMMA CoveredGrows ==
    ASSUME PipelineInv, [PipelineNext]_allVars, NEW o \in Operations,
           covered[o] > 0
    PROVE  covered'[o] > 0
<1>1. PipeTypeOK /\ covered[o] \in Nat
  BY PipeTypes DEF PipeTypeOK
<1>2. ASSUME NEW t \in Tasks, BuildActions(t) PROVE covered'[o] > 0
  <2>1. covered'[o] = covered[o] + IF o \in Range(batch[t]) THEN 1 ELSE 0
    BY <1>2 DEF BuildActions
  <2> QED BY <1>1, <2>1
<1>3. CASE covered' = covered
  BY <1>3
<1> QED BY <1>2, <1>3, StepKinds
        DEF CallbackKind, Quietly, Advances, Raises, Returns, Interrupted,
            Restart

\* A buffered operation leaves the buffer of a living process only once it is
\* covered.
LEMMA LeavesCovered ==
    ASSUME PipelineInv, [PipelineNext]_allVars, restarts' = restarts,
           NEW o \in Range(ops)
    PROVE  o \in Range(ops') \/ covered'[o] > 0
<1>1. /\ IInv /\ ops \in Seq(Operations) /\ restarts \in Nat
      /\ StagesInCallback
  BY DEF PipelineInv, PipelineTypeOK, TypeOK, QueueTypeOK
<1>2. CASE Quietly
  <2>1. CASE ops' = ops
    BY <2>1
  <2>2. CASE \E p \in Operations : ops' = Append(ops, p)
    BY <1>1, <2>2, RangeOfAppend
  <2> QED BY <1>2, <2>1, <2>2, QuietOps DEF Quietly, Joins
<1>3. ASSUME NEW t \in Tasks, Returns(t)
      PROVE  o \in Range(ops') \/ covered'[o] > 0
  <2>1. /\ batch[t] \in Seq(Operations) /\ ops' \in Seq(Operations)
        /\ ops = batch[t] \o ops'
    BY <1>1, <1>3, ReturnsOps DEF Returns
  <2>2. Range(batch[t] \o ops') = Range(batch[t]) \cup Range(ops')
    BY <2>1, RangeOfConcat
  <2>3. o \in Range(batch[t]) => covered[o] > 0
    BY <1>1, <1>3 DEF Returns, StagesInCallback
  <2> QED BY <1>3, <2>1, <2>2, <2>3 DEF Returns
<1>4. ASSUME NEW t \in Tasks, CallbackKind(t) \/ Interrupted(t), ~Returns(t)
      PROVE  o \in Range(ops')
  BY <1>4, OpsOfKinds DEF CallbackKind
<1>5. ~Restart
  BY <1>1 DEF Restart
<1> QED BY <1>2, <1>3, <1>4, <1>5, StepKinds

\* Every step that writes the state file writes the buffer as it finds it.
LEMMA FileSteps ==
    ASSUME PipelineNext
    PROVE  \/ file' = file
           \/ file'.items = ops /\ file'.last = lastOp
<1>1. \A m : Snapshot(m).items = ops /\ Snapshot(m).last = lastOp
  BY DEF Snapshot
<1>2. CASE LoopStep
  BY <1>1, <1>2 DEF LoopStep, WakeUp, ReceiveObservation, SkipObservation,
       StoreOperations, AddOperation, AddedAll, CheckBuffer, StartSynthesis,
       EndSynthesis, EndRound, EndLoop, pipeVars
<1>3. ASSUME NEW t \in Tasks, CallbackStep(t)
      PROVE  \/ file' = file
             \/ file'.items = ops /\ file'.last = lastOp
  BY <1>1, <1>3 DEF CallbackStep, OpenSession, BuildActions, FailActions,
     ProposeActivities, Reconcile, SynthesizeGoals
<1>4. CASE \/ \E t \in Tasks : Interrupted(t)
           \/ BufferStep \/ SynthesisAges
  BY <1>4 DEF Interrupted, BufferStep, SynthesisAges, pipeVars
<1>5. CASE LifecycleStep
  BY <1>1, <1>5 DEF LifecycleStep, StopTempo, CancelLoop, Stopped,
     SaveBeforeExit, ResumeTempo, Restart
<1> QED BY <1>2, <1>3, <1>4, <1>5 DEF PipelineNext

LEMMA FileKept ==
    ASSUME PipelineInv, [PipelineNext]_allVars
    PROVE  FileIsTimed' /\ SavedIsRecoverable'
<1>1. /\ PendingIsTimed /\ FileIsTimed /\ SavedIsRecoverable
      /\ ops \in Seq(Operations) /\ file.items \in Seq(Operations)
  BY DEF PipelineInv, IInv, PipelineTypeOK, TypeOK, QueueTypeOK
<1>2. \/ file' = file
      \/ file'.items = ops /\ file'.last = lastOp
  BY FileSteps DEF allVars, pipeVars
<1>3. FileIsTimed'
  BY <1>1, <1>2 DEF FileIsTimed, PendingIsTimed
<1>4. ASSUME Restart PROVE SavedIsRecoverable'
  <2>1. file' = file /\ ops' = file.items
    BY <1>4 DEF Restart
  <2> QED BY <2>1 DEF SavedIsRecoverable
<1>5. ASSUME ~Restart PROVE SavedIsRecoverable'
  <2>1. restarts' = restarts
    BY <1>5, StepKinds DEF Quietly, CallbackKind, BuildActions, Advances,
       Raises, Returns, Interrupted
  <2> SUFFICES ASSUME NEW o \in Range(file'.items)
               PROVE  covered'[o] > 0 \/ o \in Range(ops')
    BY DEF SavedIsRecoverable
  <2>2. o \in Operations
    <3>1. file'.items \in Seq(Operations)
      BY <1>1, <1>2
    <3> QED BY <3>1 DEF Range
  <2>3. covered[o] > 0 \/ o \in Range(ops)
    BY <1>1, <1>2 DEF SavedIsRecoverable
  <2> QED BY <2>1, <2>2, <2>3, CoveredGrows, LeavesCovered
<1> QED BY <1>3, <1>4, <1>5

-----------------------------------------------------------------------------
(* The loop until the first stop *)

\* Whom the buffer's own steps cancel: timers, unless stop_timer is called.
SparesClients == doomed' \subseteq doomed \cup Timers

LEMMA CancelledTimers == \A current : Cancelled(current) \subseteq Timers
BY DEF Cancelled

LEMMA LeaveSpares ==
    ASSUME NEW t, NEW method, NEW current,
           NEW cancelling \in SUBSET (doomed \cup Timers),
           Leave(t, method, current, cancelling)
    PROVE  SparesClients
BY CancelledTimers DEF Leave, StartTimer, Return, SparesClients

LEMMA TriggerSpares ==
    ASSUME NEW t, NEW method, NEW queue,
           Locked(t, method, queue) \/ Trigger(t, method, queue)
    PROVE  SparesClients
<1>1. \/ Suspend(t, method, "callback") \/ Suspend(t, method, "lock")
      \/ Leave(t, method, timerTask, doomed)
  BY DEF Trigger, Locked
<1> QED BY <1>1, LeaveSpares DEF Suspend, SparesClients

LEMMA MovesSpare ==
    ASSUME BufferMoves
    PROVE  SparesClients \/ Stop(ctl, "stop")
<1>1. ASSUME NEW t, StartTimer(t, timerTask, doomed) PROVE SparesClients
  BY <1>1, CancelledTimers DEF StartTimer, SparesClients
<1>2. CASE \E o \in Operations : Add(loop, o)
  BY <1>1, <1>2, TriggerSpares DEF Add
<1>3. CASE CheckTimeTrigger(loop) \/ Flush(loop)
  BY <1>3, TriggerSpares DEF CheckTimeTrigger, Flush
<1>4. CASE StartTimerIfNeeded(loop)
  BY <1>1, <1>4 DEF StartTimerIfNeeded
<1>5. CASE StopReturns(ctl) \/ ThresholdPasses \/ CooldownPasses
  BY <1>5 DEF StopReturns, ThresholdPasses, CooldownPasses, taskVars,
     SparesClients
<1>6. CASE \E t \in Tasks : Acquire(t)
  BY <1>6, TriggerSpares DEF Acquire
<1>7. CASE \E n \in Timers : TimerFires(n)
  <2>1. PICK n \in Timers : TimerFires(n)
    BY <1>7
  <2>2. CASE Return(n, timerTask, doomed)
    BY <2>2 DEF Return, SparesClients
  <2> QED BY <2>1, <2>2, TriggerSpares DEF TimerFires
<1> QED BY <1>2, <1>3, <1>4, <1>5, <1>6, <1>7 DEF BufferMoves

LEMMA EndSpares ==
    ASSUME NEW t, EndStep(t) \/ CancelledErrorIn(t)
    PROVE  SparesClients
<1>1. CASE CallbackReturns(t)
  <2>1. doomed \cup (Cancelled(timerTask) \ {t}) \in SUBSET (doomed \cup Timers)
    BY CancelledTimers
  <2>2. \/ Leave(t, call[t], None, doomed \cup (Cancelled(timerTask) \ {t}))
        \/ Leave(t, call[t], timerTask, doomed)
    BY <1>1 DEF CallbackReturns
  <2> QED BY <2>1, <2>2, LeaveSpares
<1>2. CASE CallbackRaises(t)
  BY <1>2, LeaveSpares DEF CallbackRaises
<1>3. CASE CancelledErrorIn(t)
  BY <1>3 DEF CancelledErrorIn, SparesClients
<1> QED BY <1>1, <1>2, <1>3 DEF EndStep

\* As long as nothing was stopped nothing is stopped later on, and the steps
\* cancel timers only.
LEMMA UnstoppedSpares ==
    ASSUME PipelineInv, [PipelineNext]_allVars, stops' = 0
    PROVE  SparesClients /\ stops = 0 /\ ctlAt' = "none"
<1>1. IInv /\ stops \in Nat /\ UntouchedUntilStop
  BY DEF PipelineInv, IInv, TypeOK, BoundTypeOK
<1> DEFINE Calm == stops' = stops /\ (SparesClients \/ ctlAt = "pausing")
<1>2. ASSUME UNCHANGED vars PROVE Calm
  BY <1>2 DEF vars, taskVars, boundVars, SparesClients
<1>3. ASSUME BufferMoves PROVE Calm \/ Stop(ctl, "stop")
  BY <1>3, MovesSpare
     DEF BufferMoves, Add, CheckTimeTrigger, Flush, StartTimerIfNeeded,
         StopReturns, Acquire, TimerFires, ThresholdPasses, CooldownPasses,
         boundVars
<1>4. ASSUME NEW t \in Tasks, EndStep(t) \/ CancelledErrorIn(t) PROVE Calm
  BY <1>4, EndSpares
     DEF EndStep, CallbackReturns, CallbackRaises, CancelledErrorIn, boundVars
<1>5. ASSUME Calm, ctlAt' = ctlAt
      PROVE  SparesClients /\ stops = 0 /\ ctlAt' = "none"
  BY <1>1, <1>5 DEF UntouchedUntilStop
<1>6. ~Stop(ctl, "stop")
  BY <1>1 DEF Stop
<1> HIDE DEF Calm
<1>7. CASE LoopStep
  <2>1. ctlAt' = ctlAt
    BY <1>7 DEF LoopStep, WakeUp, ReceiveObservation, SkipObservation,
       StoreOperations, AddOperation, AddedAll, CheckBuffer, StartSynthesis,
       EndSynthesis, EndRound, EndLoop, pipeVars
  <2>2. BufferMoves \/ UNCHANGED vars
    <3>1. CASE AddOperation
      <4>1. Head(toAdd) \in Operations
        BY <3>1, HeadAndTail DEF AddOperation, PipelineInv, PipelineTypeOK
      <4> QED BY <3>1, <4>1 DEF AddOperation, BufferMoves
    <3>2. CASE ~AddOperation
      BY <1>7, <3>2 DEF LoopStep, WakeUp, ReceiveObservation, SkipObservation,
         StoreOperations, AddedAll, CheckBuffer, StartSynthesis,
         EndSynthesis, EndRound, EndLoop, BufferMoves
    <3> QED BY <3>1, <3>2
  <2> QED BY <1>2, <1>3, <1>5, <1>6, <2>1, <2>2
<1>8. ASSUME NEW t \in Tasks, CallbackStep(t)
      PROVE  SparesClients /\ stops = 0 /\ ctlAt' = "none"
  <2>1. ctlAt' = ctlAt
    BY <1>8 DEF CallbackStep, OpenSession, BuildActions, FailActions,
       ProposeActivities, Reconcile, SynthesizeGoals
  <2>2. EndStep(t) \/ UNCHANGED vars
    BY <1>8 DEF CallbackStep, OpenSession, BuildActions, FailActions,
       ProposeActivities, ProposeFails, Accumulate, Reconcile, SynthesizeGoals,
       EndStep
  <2> QED BY <1>2, <1>4, <1>5, <2>1, <2>2
<1>9. ASSUME NEW t \in Tasks, Interrupted(t)
      PROVE  SparesClients /\ stops = 0 /\ ctlAt' = "none"
  <2>1. Calm /\ ctlAt' = ctlAt
    <3>1. CASE CancelledErrorIn(t)
      BY <1>4, <1>9, <3>1 DEF Interrupted
    <3>2. CASE ~CancelledErrorIn(t)
      BY <1>9, <3>2 DEF Interrupted, Calm, SparesClients, boundVars
    <3> QED BY <3>1, <3>2
  <2> QED BY <1>5, <2>1
<1>10. CASE BufferStep
  <2>1. BufferMoves /\ ctlAt' = ctlAt
    BY <1>10 DEF BufferStep, BufferMoves, pipeVars
  <2> QED BY <1>3, <1>5, <1>6, <2>1
<1>11. CASE LifecycleStep
  <2>1. CASE StopTempo
    BY <1>6, <2>1 DEF StopTempo
  <2>2. CASE CancelLoop
    BY <1>1, <2>2 DEF CancelLoop, UntouchedUntilStop, boundVars
  <2>3. CASE Stopped
    BY <1>1, <2>3 DEF Stopped, UntouchedUntilStop, vars, boundVars
  <2>4. CASE SaveBeforeExit
    BY <1>2, <1>5, <2>4 DEF SaveBeforeExit
  <2>5. CASE ResumeTempo
    <3>1. (StartTimerIfNeeded(loop) \/ UNCHANGED vars) /\ ctlAt' = ctlAt
      BY <2>5 DEF ResumeTempo
    <3> QED BY <1>2, <1>3, <1>5, <1>6, <3>1 DEF BufferMoves
  <2>6. CASE Restart
    BY <2>6 DEF Restart, boundVars, SparesClients
  <2> QED BY <1>11, <2>1, <2>2, <2>3, <2>4, <2>5, <2>6 DEF LifecycleStep
<1>12. CASE SynthesisAges \/ UNCHANGED allVars
  BY <1>2, <1>5, <1>12 DEF SynthesisAges, allVars, pipeVars
<1> QED BY <1>7, <1>8, <1>9, <1>10, <1>11, <1>12 DEF PipelineNext

\* Only stage 1, the adding round and a cancelled loop change what the loop
\* still has to add.
LEMMA AddingSteps ==
    ASSUME [PipelineNext]_allVars
    PROVE  \/ UNCHANGED <<toAdd, extracted>>
           \/ StoreOperations \/ AddOperation
           \/ Interrupted(loop) \/ Restart
<1>1. CASE LoopStep
  BY <1>1 DEF LoopStep, WakeUp, ReceiveObservation, SkipObservation, AddedAll,
     CheckBuffer, StartSynthesis, EndSynthesis, EndRound, EndLoop, pipeVars
<1>2. CASE \E t \in Tasks : CallbackStep(t)
  BY <1>2 DEF CallbackStep, OpenSession, BuildActions, FailActions,
     ProposeActivities, Reconcile, SynthesizeGoals
<1>3. CASE \E t \in Tasks : Interrupted(t)
  BY <1>3 DEF Interrupted
<1>4. CASE LifecycleStep
  BY <1>4 DEF LifecycleStep, StopTempo, CancelLoop, Stopped, SaveBeforeExit,
     ResumeTempo
<1>5. CASE BufferStep \/ SynthesisAges \/ UNCHANGED allVars
  BY <1>5 DEF BufferStep, SynthesisAges, allVars, pipeVars
<1> QED BY <1>1, <1>2, <1>3, <1>4, <1>5 DEF PipelineNext

LEMMA OnlyAddingHoldsKept ==
    ASSUME PipelineInv, [PipelineNext]_allVars
    PROVE  OnlyAddingHolds'
<1>1. OnlyAddingHolds
  BY DEF PipelineInv
<1>2. CASE LoopStep
  BY <1>1, <1>2 DEF LoopStep, WakeUp, ReceiveObservation, SkipObservation,
     StoreOperations, AddOperation, AddedAll, CheckBuffer, StartSynthesis,
     EndSynthesis, EndRound, EndLoop, pipeVars, InLoop, OnlyAddingHolds
<1>3. CASE \E t \in Tasks : CallbackStep(t)
  BY <1>1, <1>3 DEF CallbackStep, OpenSession, BuildActions, FailActions,
     ProposeActivities, Reconcile, SynthesizeGoals, OnlyAddingHolds
<1>4. CASE \E t \in Tasks : Interrupted(t)
  BY <1>1, <1>4 DEF Interrupted, OnlyAddingHolds
<1>5. CASE LifecycleStep
  BY <1>1, <1>5 DEF LifecycleStep, StopTempo, CancelLoop, Stopped,
     SaveBeforeExit, ResumeTempo, Restart, OnlyAddingHolds
<1>6. CASE BufferStep \/ SynthesisAges \/ UNCHANGED allVars
  BY <1>1, <1>6 DEF BufferStep, SynthesisAges, allVars, pipeVars,
     OnlyAddingHolds
<1> QED BY <1>2, <1>3, <1>4, <1>5, <1>6 DEF PipelineNext

LEMMA UntouchedKept ==
    ASSUME PipelineInv, [PipelineNext]_allVars
    PROVE  UntouchedUntilStop'
<1>1. UntouchedUntilStop
  BY DEF PipelineInv
<1>2. stops' = 0 => /\ doomed' \subseteq doomed \cup Timers
                    /\ stops = 0 /\ ctlAt' = "none"
  BY UnstoppedSpares DEF SparesClients
<1> QED BY <1>1, <1>2, PipelineTasks DEF UntouchedUntilStop

LEMMA RestartsCount ==
    ASSUME PipelineInv, [PipelineNext]_allVars, restarts' = 0
    PROVE  restarts' = restarts /\ ~Restart
<1>1. restarts \in Nat
  BY DEF PipelineInv, PipelineTypeOK
<1>2. ~Restart
  BY <1>1 DEF Restart
<1> QED BY <1>2, StepKinds DEF Quietly, CallbackKind, BuildActions, Advances,
           Raises, Returns, Interrupted

LEMMA NothingStrandedKept ==
    ASSUME PipelineInv, [PipelineNext]_allVars
    PROVE  NothingStranded'
<1> SUFFICES ASSUME stops' = 0, restarts' = 0, NEW o \in extracted'
             PROVE  \/ covered'[o] > 0 \/ o \in Range(ops')
                    \/ o \in Range(toAdd')
  BY DEF NothingStranded
<1>1. /\ stops = 0 /\ restarts = 0 /\ restarts' = restarts /\ ~Restart
      /\ loop \notin doomed
  BY UnstoppedSpares, RestartsCount DEF PipelineInv, UntouchedUntilStop
<1>2. /\ ops \in Seq(Operations) /\ toAdd \in Seq(Operations)
      /\ extracted \subseteq Operations
  BY DEF PipelineInv, PipelineTypeOK, TypeOK, QueueTypeOK
<1>3. ASSUME o \in extracted
      PROVE  covered'[o] > 0 \/ o \in Range(ops') \/ o \in Range(toAdd)
  <2>1. covered[o] > 0 \/ o \in Range(ops) \/ o \in Range(toAdd)
    BY <1>1, <1>3 DEF PipelineInv, NothingStranded
  <2>2. o \in Operations
    BY <1>2, <1>3
  <2> QED BY <1>1, <2>1, <2>2, CoveredGrows, LeavesCovered
<1>4. CASE UNCHANGED <<toAdd, extracted>>
  BY <1>3, <1>4
<1>5. CASE StoreOperations
  <2>1. PICK s \in BoundedSeq(Operations \ extracted, MaxObserved) :
          toAdd' = s /\ extracted' = extracted \cup Range(s)
    BY <1>5 DEF StoreOperations
  <2>2. toAdd = <<>>
    BY <1>5 DEF StoreOperations, InLoop, PipelineInv, OnlyAddingHolds
  <2> QED BY <1>3, <2>1, <2>2, RangeOfEmpty
<1>6. CASE AddOperation
  <2>1. /\ extracted' = extracted /\ toAdd' = Tail(toAdd)
        /\ toAdd # <<>> /\ ops' = Append(ops, Head(toAdd))
    BY <1>6 DEF AddOperation, Add, Enqueued
  <2>2. /\ Head(toAdd) \in Operations
        /\ Range(toAdd) = {Head(toAdd)} \cup Range(Tail(toAdd))
    BY <1>2, <2>1, HeadAndTail
  <2>3. Head(toAdd) \in Range(ops')
    BY <1>2, <2>1, <2>2, RangeOfAppend
  <2> QED BY <1>3, <2>1, <2>2, <2>3
<1>7. CASE Interrupted(loop)
  BY <1>1, <1>7 DEF Interrupted, CancelledErrorIn, Runs
<1> QED BY <1>1, <1>4, <1>5, <1>6, <1>7, AddingSteps

-----------------------------------------------------------------------------
(* Once per operation *)

LEMMA BufferedOnceKept ==
    ASSUME PipelineInv, [PipelineNext]_allVars
    PROVE  BufferedOnce'
<1> SUFFICES ASSUME restarts' = 0
             PROVE  /\ IsInjective(ops')
                    /\ \A o \in Operations :
                          covered'[o] > 0 => o \in Range(Accepted')
  BY DEF BufferedOnce
<1>1. /\ ~Restart /\ IsInjective(ops)
      /\ \A o \in Operations : covered[o] > 0 => o \in Range(Accepted)
  BY RestartsCount DEF PipelineInv, BufferedOnce
<1>2. /\ IInv /\ PipeTypeOK
      /\ ops \in Seq(Operations) /\ delivered \in Seq(Operations)
      /\ Range(Accepted) = Range(delivered) \cup Range(ops)
  BY PipeTypes, RangeOfConcat DEF PipelineInv, IInv, TypeOK, QueueTypeOK,
     Accepted
<1>3. CASE UNCHANGED <<ops, delivered, covered>>
  BY <1>1, <1>3 DEF Accepted
<1>4. ASSUME NEW p \in Operations, Joins(p), covered' = covered
      PROVE  /\ IsInjective(ops')
             /\ \A o \in Operations : covered'[o] > 0 => o \in Range(Accepted')
  <2>1. p \notin Range(ops)
    BY <1>2, <1>4 DEF Joins
  <2>2. IsInjective(ops') /\ ops' \in Seq(Operations)
    BY <1>1, <1>2, <1>4, <2>1, InjectiveAppend, AppendProperties DEF Joins
  <2>3. Range(ops) \subseteq Range(ops')
    BY <1>2, <1>4, RangeOfAppend DEF Joins
  <2>4. Range(delivered \o ops') = Range(delivered) \cup Range(ops')
    BY <1>2, <2>2, RangeOfConcat
  <2>5. Accepted' = delivered \o ops'
    BY <1>4 DEF Accepted, Joins
  <2> QED BY <1>1, <1>2, <1>4, <2>2, <2>3, <2>4, <2>5
<1>5. ASSUME NEW t \in Tasks, BuildActions(t)
      PROVE  /\ IsInjective(ops')
             /\ \A o \in Operations : covered'[o] > 0 => o \in Range(Accepted')
  <2>1. /\ UNCHANGED <<ops, delivered>> /\ pc[t] = "callback"
        /\ covered' = [o \in Operations |->
                          covered[o] + IF o \in Range(batch[t]) THEN 1 ELSE 0]
    BY <1>5 DEF BuildActions, InStage, vars
  <2>2. Range(batch[t]) \subseteq Range(ops)
    BY <1>2, <2>1, BatchIsBuffered
  <2>3. Accepted' = Accepted
    BY <2>1 DEF Accepted
  <2>4. \A o \in Operations :
          covered'[o] > 0 => covered[o] > 0 \/ o \in Range(batch[t])
    BY <1>2, <2>1 DEF PipeTypeOK
  <2> QED BY <1>1, <1>2, <2>1, <2>2, <2>3, <2>4
<1>6. ASSUME NEW t \in Tasks, Returns(t)
      PROVE  /\ IsInjective(ops')
             /\ \A o \in Operations : covered'[o] > 0 => o \in Range(Accepted')
  <2>1. /\ batch[t] \in Seq(Operations) /\ ops' \in Seq(Operations)
        /\ ops = batch[t] \o ops' /\ Accepted' = Accepted
    BY <1>2, <1>6, ReturnsOps DEF Returns
  <2>2. IsInjective(batch[t] \o ops')
    BY <1>1, <2>1
  <2>3. IsInjective(ops')
    BY <2>1, <2>2, InjectiveParts
  <2>4. covered' = covered
    BY <1>6 DEF Returns
  <2> QED BY <1>1, <2>1, <2>3, <2>4
<1>7. CASE Quietly
  BY <1>3, <1>4, <1>7, QuietOps DEF Quietly
<1>8. ASSUME NEW t \in Tasks, Advances(t) \/ Raises(t) \/ Interrupted(t)
      PROVE  UNCHANGED <<ops, delivered, covered>>
  BY <1>8, OpsOfKinds DEF Advances, Raises, Interrupted
<1> QED BY <1>1, <1>3, <1>5, <1>6, <1>7, <1>8, StepKinds DEF CallbackKind

LEMMA UncoveredKept ==
    ASSUME PipelineInv, [PipelineNext]_allVars
    PROVE  BufferedUncovered' /\ RepeatedOnlyWhenCut'
<1> DEFINE Goal == /\ \A o \in Range(ops') : covered'[o] > 0 => InProgress(o)'
                   /\ \A o \in Operations : covered'[o] <= 1
<1> SUFFICES ASSUME restarts' = 0, ~cutShort' PROVE Goal
  BY DEF BufferedUncovered, RepeatedOnlyWhenCut
<1>1. restarts = 0 /\ ~Restart
  BY RestartsCount
<1>2. ~cutShort
  BY <1>1, StepKinds DEF Quietly, CallbackKind, BuildActions, Advances, Raises,
     Returns, Interrupted
<1>3. /\ \A o \in Range(ops) : covered[o] > 0 => InProgress(o)
      /\ \A o \in Operations : covered[o] <= 1
      /\ IsInjective(ops)
      /\ \A o \in Operations : covered[o] > 0 => o \in Range(Accepted)
  BY <1>1, <1>2 DEF PipelineInv, BufferedUncovered, RepeatedOnlyWhenCut,
     BufferedOnce
<1>4. /\ IInv /\ PipeTypeOK /\ StagesInCallback /\ ops \in Seq(Operations)
  BY PipeTypes DEF PipelineInv, IInv, TypeOK, QueueTypeOK
<1>5. \A t, u \in Tasks : pc[t] = "callback" /\ stage[u] # "actions" => t = u
  BY <1>4 DEF IInv, CallbackInv, StagesInCallback
<1>6. CASE Quietly
  <2>1. UNCHANGED <<stage, covered>> /\ CallbacksGoOn
    BY <1>4, <1>6, QuietKeepsIInv DEF Quietly
  <2>2. \A o : InProgress(o) => InProgress(o)'
    BY <1>4, <2>1 DEF InProgress, StagesInCallback, CallbacksGoOn
  <2>3. CASE ops' = ops
    BY <1>3, <2>1, <2>2, <2>3
  <2>4. ASSUME NEW p \in Operations, Joins(p) PROVE Goal
    <3>1. covered[p] > 0 => FALSE
      BY <1>3, <2>4 DEF Joins
    <3>2. Range(ops') = Range(ops) \cup {p}
      BY <1>4, <2>4, RangeOfAppend DEF Joins
    <3> QED BY <1>3, <2>1, <2>2, <3>1, <3>2
  <2> QED BY <1>6, <2>3, <2>4, QuietOps DEF Quietly
<1>7. ASSUME NEW t \in Tasks, BuildActions(t) PROVE Goal
  <2>1. /\ UNCHANGED <<ops, batch>> /\ pc[t] = "callback" /\ stage[t] = "actions"
        /\ stage' = [stage EXCEPT ![t] = "activities"]
        /\ covered' = [o \in Operations |->
                          covered[o] + IF o \in Range(batch[t]) THEN 1 ELSE 0]
    BY <1>7 DEF BuildActions, InStage, vars, lockVars
  <2>2. \A o \in Range(ops) : ~(covered[o] > 0)
    BY <1>3, <1>5, <2>1 DEF InProgress
  <2>3. Range(batch[t]) \subseteq Range(ops) /\ Range(ops) \subseteq Operations
    <3>1. Range(batch[t]) \subseteq Range(ops)
      BY <1>4, <2>1, BatchIsBuffered
    <3>2. Range(ops) \subseteq Operations
      BY <1>4 DEF Range
    <3> QED BY <3>1, <3>2
  <2>4. \A o \in Operations : covered[o] \in Nat
    BY <1>4 DEF PipeTypeOK
  <2>5. ASSUME NEW o \in Range(batch[t]) PROVE InProgress(o)'
    <3>1. stage'[t] # "actions" /\ batch'[t] = batch[t]
      BY <1>4, <2>1 DEF PipeTypeOK
    <3> QED BY <3>1 DEF InProgress
  <2>6. \A o \in Operations : covered'[o] <= 1
    BY <1>3, <2>1, <2>2, <2>3, <2>4
  <2>7. \A o \in Range(ops) : covered'[o] > 0 => o \in Range(batch[t])
    BY <2>1, <2>2, <2>3, <2>4
  <2> QED BY <2>1, <2>5, <2>6, <2>7
<1>8. ASSUME NEW t \in Tasks, Advances(t) PROVE Goal
  <2>1. UNCHANGED <<ops, batch, covered>>
    BY <1>8 DEF Advances, vars, lockVars
  <2>2. \A u \in Tasks : stage[u] # "actions" => stage'[u] # "actions"
    BY <1>4, <1>8 DEF Advances, PipeTypeOK
  <2> QED BY <1>3, <2>1, <2>2 DEF InProgress
<1>9. ASSUME NEW t \in Tasks, Raises(t) PROVE Goal
  <2>1. UNCHANGED <<ops, covered>> /\ pc[t] = "callback" /\ stage[t] = "actions"
    BY <1>9 DEF Raises, CallbackRaises
  <2>2. \A o \in Range(ops) : ~(covered[o] > 0)
    BY <1>3, <1>5, <2>1 DEF InProgress
  <2> QED BY <1>3, <2>1, <2>2
<1>10. ASSUME NEW t \in Tasks, Returns(t) PROVE Goal
  <2>1. /\ batch[t] \in Seq(Operations) /\ ops' \in Seq(Operations)
        /\ ops = batch[t] \o ops'
    BY <1>4, <1>10, ReturnsOps DEF Returns
  <2>2. IsInjective(batch[t] \o ops')
    BY <1>3, <2>1
  <2>3. Range(batch[t]) \cap Range(ops') = {}
    BY <2>1, <2>2, InjectiveParts
  <2>4. Range(batch[t] \o ops') = Range(batch[t]) \cup Range(ops')
    BY <2>1, RangeOfConcat
  <2>5. pc[t] = "callback" /\ covered' = covered
    BY <1>10 DEF Returns, CallbackReturns
  <2>6. \A o \in Range(ops) : covered[o] > 0 => o \in Range(batch[t])
    BY <1>3, <1>5, <2>5 DEF InProgress
  <2> QED BY <1>3, <2>1, <2>3, <2>4, <2>5, <2>6
<1>11. ASSUME NEW t \in Tasks, Interrupted(t) PROVE Goal
  <2>1. /\ UNCHANGED <<ops, covered>> /\ stage[t] = "actions"
        /\ stage' = [stage EXCEPT ![t] = "actions"]
    BY <1>11, OpsOfKinds DEF Interrupted
  <2>2. OthersGoOn(t)
    BY <1>4, <1>11, InterruptedKeepsIInv
  <2>3. \A o : InProgress(o) => InProgress(o)'
    BY <1>4, <2>1, <2>2
       DEF InProgress, StagesInCallback, OthersGoOn, PipeTypeOK
  <2> QED BY <1>3, <2>1, <2>3
<1> QED BY <1>1, <1>6, <1>7, <1>8, <1>9, <1>10, <1>11, StepKinds
        DEF CallbackKind

-----------------------------------------------------------------------------
(* The theorems *)

\* A pipeline without a saved state file starts in the invariant (setup).
THEOREM PipelineInvInit == PipelineInit => PipelineInv
<1> SUFFICES ASSUME PipelineInit PROVE PipelineInv
  OBVIOUS
<1>1. IInv
  BY InitIInv DEF PipelineInit
<1>2. /\ loopAt = "top" /\ toAdd = <<>> /\ db = None
      /\ stage = [t \in Tasks |-> "actions"]
      /\ extracted = {} /\ covered = [o \in Operations |-> 0]
      /\ activities = 0 /\ mem = FreshMemory
      /\ file = [items |-> <<>>, last |-> "none", mem |-> FreshMemory]
      /\ running = TRUE /\ ctlAt = "none" /\ cutShort = FALSE
      /\ swallowed = 0 /\ restarts = 0
      /\ ops = <<>> /\ doomed = {}
  BY DEF PipelineInit, Init
<1>3. FreshMemory \in Memories
  BY <1>2, FreshIsMemory
<1>4. PipelineTypeOK
  <2>1. <<>> \in Seq(Operations)
    OBVIOUS
  <2> QED BY <1>1, <1>2, <1>3, <2>1 DEF PipelineTypeOK, SessionHeld, IInv
<1>5. StagesInCallback /\ FileIsTimed
  BY <1>2 DEF StagesInCallback, FileIsTimed
<1>6. SavedIsRecoverable
  BY <1>2, RangeOfEmpty DEF SavedIsRecoverable
<1>7. OnlyAddingHolds /\ UntouchedUntilStop /\ NothingStranded
  BY <1>2 DEF OnlyAddingHolds, UntouchedUntilStop, NothingStranded
<1>8. BufferedOnce
  BY <1>2 DEF BufferedOnce, IsInjective
<1>9. BufferedUncovered /\ RepeatedOnlyWhenCut
  BY <1>2, RangeOfEmpty DEF BufferedUncovered, RepeatedOnlyWhenCut
<1> QED BY <1>1, <1>4, <1>5, <1>6, <1>7, <1>8, <1>9 DEF PipelineInv

\* Every step of the loop, a callback, the request that stops and a restart keeps it.
THEOREM PipelineInvInductive ==
    PipelineInv /\ [PipelineNext]_allVars => PipelineInv'
BY BufferKept, TypesKept, StagesKept, FileKept, OnlyAddingHoldsKept,
   UntouchedKept, NothingStrandedKept, BufferedOnceKept, UncoveredKept
   DEF PipelineInv

\* The invariant holds in every state of the pipeline.
THEOREM PipelineInvariance == PipelineSpec => []PipelineInv
BY PipelineInvInit, PipelineInvInductive, PTL DEF PipelineSpec

\* Every variable of the pipeline keeps its type, the buffer's included.
THEOREM PipelineTypeCorrect == PipelineSpec => []PipelineTypeOK
<1>1. PipelineInv => PipelineTypeOK
  BY DEF PipelineInv
<1> QED BY <1>1, PipelineInvariance, PTL

\* The state file never holds an operation that is neither in actions nor in
\* the buffer (buffer.py:164-165), through pauses, cancellations and restarts.
THEOREM SavedRecoverable == PipelineSpec => []SavedIsRecoverable
<1>1. PipelineInv => SavedIsRecoverable
  BY DEF PipelineInv
<1> QED BY <1>1, PipelineInvariance, PTL

\* While recording goes on, what stage 1 committed is in actions, buffered, or
\* about to be added.
THEOREM NothingIsStranded == PipelineSpec => []NothingStranded
<1>1. PipelineInv => NothingStranded
  BY DEF PipelineInv
<1> QED BY <1>1, PipelineInvariance, PTL

\* Retries never repeat a committed batch.
THEOREM NoRepeatedBatch == PipelineSpec => []RepeatedOnlyWhenCut
<1>1. PipelineInv => RepeatedOnlyWhenCut
  BY DEF PipelineInv
<1> QED BY <1>1, PipelineInvariance, PTL

\* In a living process the buffer gives up an operation only for its actions
\* (orchestrator.stop, "preserving buffered operations for resume").
THEOREM LeavesOnlyWhenCovered == PipelineSpec => LeavesOnlyCovered
<1>1. PipelineInv /\ [PipelineNext]_allVars =>
        [restarts' = restarts =>
           \A o \in Range(ops) : o \in Range(ops') \/ covered'[o] > 0]_allVars
  BY LeavesCovered
<1> QED BY <1>1, PipelineInvariance, PTL DEF PipelineSpec, LeavesOnlyCovered

\* A candidate waits for the reconcile job until a pass is through.
LEMMA PendingStep ==
    ASSUME PipelineInv, PipelineNext, restarts' = restarts
    PROVE  \/ mem.pending \subseteq mem'.pending
           \/ \E t \in Tasks : stage[t] = "synthesis" /\ stage'[t] = "actions"
<1>1. PipeTypeOK /\ mem \in Memories /\ restarts \in Nat
  BY PipeTypes DEF PipeTypeOK
<1>2. CASE mem' = mem
  BY <1>2
<1>3. CASE EndSynthesis
  <2>1. mem' = mem \/ mem' = Synthesized
    BY <1>3 DEF EndSynthesis
  <2> QED BY <1>1, <2>1 DEF Memories, Synthesized
<1>4. CASE LoopStep
  BY <1>2, <1>3, <1>4 DEF LoopStep, WakeUp, ReceiveObservation, SkipObservation,
     StoreOperations, AddOperation, AddedAll, CheckBuffer, StartSynthesis,
     EndRound, EndLoop, pipeVars
<1>5. ASSUME NEW t \in Tasks, NEW created, Accumulate(t, created)
      PROVE  mem.pending \subseteq mem'.pending
  <2>1. mem' = [mem EXCEPT !.pending = mem.pending \cup created,
                           !.batches = mem.batches + 1,
                           !.since = IF mem.warm THEN mem.since + 1
                                                 ELSE mem.since]
    BY <1>5 DEF Accumulate, Candidates
  <2>2. mem'.pending = mem.pending \cup created
    BY <1>1, <2>1 DEF Memories
  <2> QED BY <2>2
<1>6. ASSUME NEW t \in Tasks, ProposeActivities(t)
      PROVE  mem.pending \subseteq mem'.pending
  BY <1>5, <1>6 DEF ProposeActivities, ProposeFails
<1>7. ASSUME NEW t \in Tasks, Reconcile(t)
      PROVE  mem.pending \subseteq mem'.pending
  <2>1. \E changes \in 0..1 : mem' = [mem EXCEPT !.fresh = mem.fresh + changes]
    BY <1>7 DEF Reconcile
  <2> QED BY <1>1, <2>1 DEF Memories
<1>8. ASSUME NEW t \in Tasks, SynthesizeGoals(t)
      PROVE  stage[t] = "synthesis" /\ stage'[t] = "actions"
  <2>1. stage[t] = "synthesis" /\ stage' = [stage EXCEPT ![t] = "actions"]
    BY <1>8 DEF SynthesizeGoals, InStage
  <2> QED BY <1>1, <2>1 DEF PipeTypeOK
<1>9. CASE \E t \in Tasks : CallbackStep(t) \/ Interrupted(t)
  BY <1>2, <1>6, <1>7, <1>8, <1>9 DEF CallbackStep, OpenSession, BuildActions,
     FailActions, Interrupted
<1>10. CASE BufferStep \/ SynthesisAges
  <2>1. mem' = mem \/ mem' = [mem EXCEPT !.synthesis = "old"]
    BY <1>10 DEF BufferStep, SynthesisAges, pipeVars
  <2> QED BY <1>1, <2>1 DEF Memories
<1>11. CASE LifecycleStep
  BY <1>1, <1>2, <1>11 DEF LifecycleStep, StopTempo, CancelLoop, Stopped,
     SaveBeforeExit, ResumeTempo, Restart
<1> QED BY <1>4, <1>9, <1>10, <1>11 DEF PipelineNext

\* In a living process a candidate leaves the list that waits for reconciliation only
\* at the end of a pass that reconciles and synthesizes (_reconcile_and_synthesize).
THEOREM PendingWaitsForPass == PipelineSpec => PendingUntilPass
<1>1. PipelineInv /\ [PipelineNext]_allVars =>
        [restarts' = restarts =>
           \/ mem.pending \subseteq mem'.pending
           \/ \E t \in Tasks : stage[t] = "synthesis" /\ stage'[t] = "actions"
        ]_allVars
  BY PendingStep
<1> QED BY <1>1, PipelineInvariance, PTL DEF PipelineSpec, PendingUntilPass

-----------------------------------------------------------------------------
(* The composition keeps the buffer's promise *)

\* While the process lives the buffer inside the pipeline is the same batch
\* queue the buffer is on its own: the loop that is cancelled, paused and
\* resumed, the stages and the state file add no way to lose, reorder or hand
\* over twice what was accepted.
THEOREM LivingBufferIsBatchQueue ==
    PipelineSpec =>
        [][restarts' = restarts => [Queue!Next]_(Queue!vars)]_allVars
<1>1. ASSUME PipelineInv, [PipelineNext]_allVars, restarts' = restarts
      PROVE  [Queue!Next]_(Queue!vars)
  <2>1. IInv /\ restarts \in Nat
    BY <1>1 DEF PipelineInv, PipelineTypeOK
  <2>2. ASSUME UNCHANGED <<ops, delivered>> PROVE UNCHANGED Queue!vars
    BY <2>2 DEF Queue!vars, Accepted
  <2>3. CASE QuietStep
    <3>1. BufferMoves => [Next]_vars
      BY MovesAreSteps
    <3> QED BY <2>1, <2>2, <2>3, <3>1, QueueStep DEF QuietStep, DoomedOnly
  <2>4. ASSUME NEW t \in Tasks, EndStep(t) PROVE [Queue!Next]_(Queue!vars)
    <3>1. [Next]_vars
      BY <2>4 DEF EndStep, Next, TaskStep
    <3> QED BY <2>1, <3>1, QueueStep
  <2>5. ASSUME NEW t \in Tasks, Interrupted(t) PROVE [Queue!Next]_(Queue!vars)
    BY <1>1, <2>2, <2>5, OpsOfKinds
  <2>6. ~Restart
    BY <1>1, <2>1 DEF Restart
  <2> QED BY <1>1, <2>3, <2>4, <2>5, <2>6, BufferCases
<1>2. PipelineInv /\ [PipelineNext]_allVars =>
        [restarts' = restarts => [Queue!Next]_(Queue!vars)]_allVars
  BY <1>1
<1> QED BY <1>2, PipelineInvariance, PTL DEF PipelineSpec
=============================================================================
