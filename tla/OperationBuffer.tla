--------------------------- MODULE OperationBuffer ---------------------------
(***************************************************************************)
(* tempo/buffer.py: the buffer between stage 1 (operations) and the rest   *)
(* of the pipeline, as the asyncio tasks that run its methods see it.      *)
(*                                                                         *)
(* A task runs without interruption from one suspension to the next, so a  *)
(* step is the code between two awaits that really suspend: the sleep of a *)
(* timer, the wait for _trigger_lock, the on_trigger callback and the      *)
(* gather of stop_timer.  Clients are the tasks that call the buffer's     *)
(* methods; each timer is a task of its own.                               *)
(*                                                                         *)
(* Time is abstract.  A clock only matters through two comparisons: has    *)
(* the inactivity threshold passed since the last operation, and has the   *)
(* cooldown after a failure passed.                                        *)
(***************************************************************************)
EXTENDS Naturals, Sequences, SequencesExt

CONSTANTS
    Operations,       \* the operations stage 1 may produce
    Clients,          \* tasks that call the buffer's methods
    Timers,           \* identities of timer tasks, reused once a task is done
    None,
    MaxBufferSize,    \* max_buffer_size
    MaxFailures,      \* bound on the callbacks that raise
    MaxCancels,       \* bound on the client tasks that are cancelled
    MaxStops          \* bound on the calls of stop_timer and close

ASSUME ConstantsAssumption ==
    /\ MaxBufferSize \in Nat \ {0}
    /\ MaxFailures \in Nat
    /\ MaxCancels \in Nat
    /\ MaxStops \in Nat
    /\ Clients \cap Timers = {}
    /\ None \notin Clients \cup Timers

Tasks == Clients \cup Timers

VARIABLES
    ops,          \* self.operations
    lastOp,       \* self.last_operation_time: unset, or how long ago
    suppressed,   \* now < self._trigger_suppressed_until
    timerTask,    \* self._timer_task
    owned,        \* self._timer_tasks
    hooked,       \* self.on_trigger is not None
    holder,       \* the task that holds self._trigger_lock
    waiters,      \* the tasks queued on self._trigger_lock
    pc,           \* where each task is suspended; "idle": not in the buffer
    call,         \* the method each task is in
    batch,        \* operations_to_process of a task in the callback
    doomed,       \* tasks that get CancelledError when they next run
    gathered,     \* the timers that stop_timer still waits for
    delivered,    \* history: operations of the callbacks that succeeded
    fails, cancels, stops

taskVars  == <<timerTask, owned, pc, call, doomed, gathered>>
lockVars  == <<holder, waiters, batch>>
boundVars == <<fails, cancels, stops>>
vars == <<ops, lastOp, suppressed, hooked, delivered, taskVars, lockVars,
          boundVars>>

Methods == {"none", "add", "check", "flush", "timer", "stop", "close"}

\* A cancelled task is woken only to raise CancelledError.
Runs(t) == t \notin doomed

\* timer.cancel() if it is not done: a done task takes no notice.
Cancelled(t) == IF t \in Timers /\ pc[t] # "idle" THEN {t} ELSE {}

Accepted == delivered \o ops

Init ==
    /\ ops = <<>> /\ delivered = <<>>
    /\ lastOp = "none"
    /\ suppressed = FALSE
    /\ timerTask = None /\ owned = {}
    /\ hooked = TRUE
    /\ holder = None /\ waiters = <<>>
    /\ pc = [t \in Tasks |-> "idle"]
    /\ call = [t \in Tasks |-> "none"]
    /\ batch = [t \in Tasks |-> <<>>]
    /\ doomed = {}
    /\ gathered = [c \in Clients |-> {}]
    /\ fails = 0 /\ cancels = 0 /\ stops = 0

-----------------------------------------------------------------------------
(* Timers *)

\* Mutant: the running task is stored in place of the new timer.
StartTimerOfCaller(t, current, cancelling) ==
    \E n \in Timers :
        /\ pc[n] = "idle"
        /\ timerTask' = t
        /\ owned' = owned \cup {n}
        /\ doomed' = cancelling \cup Cancelled(current)
        /\ pc' = [pc EXCEPT ![t] = "idle", ![n] = "sleep"]
        /\ call' = [call EXCEPT ![t] = "none", ![n] = "timer"]
        /\ UNCHANGED gathered

\* Mutant: the timer that is replaced is not cancelled.
StartAnotherTimer(t, current, cancelling) ==
    \E n \in Timers :
        /\ pc[n] = "idle"
        /\ timerTask' = n
        /\ owned' = owned \cup {n}
        /\ doomed' = cancelling
        /\ pc' = [pc EXCEPT ![t] = "idle", ![n] = "sleep"]
        /\ call' = [call EXCEPT ![t] = "none", ![n] = "timer"]
        /\ UNCHANGED gathered

\* _reset_timer, called by t as the last thing it does before it leaves.
StartTimer(t, current, cancelling) ==
    \E n \in Timers :
        /\ pc[n] = "idle"
        /\ timerTask' = n
        /\ owned' = owned \cup {n}
        /\ doomed' = cancelling \cup Cancelled(current)
        /\ pc' = [pc EXCEPT ![t] = "idle", ![n] = "sleep"]
        /\ call' = [call EXCEPT ![t] = "none", ![n] = "timer"]
        /\ UNCHANGED gathered

\* t ends: a timer task is done, a client is back in its own code.
Return(t, current, cancelling) ==
    /\ timerTask' = current
    /\ owned' = owned \ {t}
    /\ doomed' = cancelling \ {t}
    /\ pc' = [pc EXCEPT ![t] = "idle"]
    /\ call' = [call EXCEPT ![t] = "none"]
    /\ gathered' = [c \in Clients |-> gathered[c] \ {t}]

\* t is past _trigger, which left _timer_task = current: add goes on to
\* _reset_timer, every other caller is finished.
Leave(t, method, current, cancelling) ==
    IF method = "add" THEN StartTimer(t, current, cancelling)
                      ELSE Return(t, current, cancelling)

-----------------------------------------------------------------------------
(* The trigger *)

Suspend(t, method, where) ==
    /\ pc' = [pc EXCEPT ![t] = where]
    /\ call' = [call EXCEPT ![t] = method]
    /\ UNCHANGED <<timerTask, owned, doomed, gathered>>

\* The body of _trigger once t has the lock and the buffer holds queue.
Locked(t, method, queue) ==
    \/ /\ queue # <<>> /\ hooked
       /\ holder' = t
       /\ batch' = [batch EXCEPT ![t] = queue]
       /\ Suspend(t, method, "callback")
    \/ /\ queue = <<>> \/ ~hooked
       /\ holder' = None
       /\ Leave(t, method, timerTask, doomed)
       /\ UNCHANGED batch

\* Mutant: a held lock is taken too.
LockFreeToAll == \A i \in DOMAIN waiters : waiters[i] \in doomed

\* The lock is taken at once unless it is held or a live task is ahead.
LockFree == holder = None /\ \A i \in DOMAIN waiters : waiters[i] \in doomed

Trigger(t, method, queue) ==
    \/ /\ LockFree
       /\ Locked(t, method, queue)
       /\ UNCHANGED waiters
    \/ /\ ~LockFree
       /\ waiters' = Append(waiters, t)
       /\ Suspend(t, method, "lock")
       /\ UNCHANGED <<holder, batch>>

Acquire(t) ==
    /\ pc[t] = "lock" /\ Runs(t)
    /\ holder = None /\ waiters # <<>> /\ Head(waiters) = t
    /\ waiters' = Tail(waiters)
    /\ Locked(t, call[t], ops)
    /\ UNCHANGED <<ops, lastOp, suppressed, hooked, delivered, boundVars>>

\* Mutant: the buffer is cleared, with what was added during the callback.
RemainingNone(t) == <<>>

\* del self.operations[:num_ops]
Remaining(t) == SubSeq(ops, Len(batch[t]) + 1, Len(ops))

\* Mutant: the time is reset although operations remain.
TimeOfNone(queue) == "none"

TimeOf(queue) == IF queue = <<>> THEN "none" ELSE lastOp

\* The callback succeeded: only what it was given leaves the buffer.
CallbackReturns(t) ==
    /\ pc[t] = "callback" /\ Runs(t)
    /\ suppressed' = FALSE
    /\ ops' = Remaining(t)
    /\ lastOp' = TimeOf(ops')
    /\ delivered' = delivered \o batch[t]
    /\ holder' = None
    /\ batch' = [batch EXCEPT ![t] = <<>>]
    /\ IF ops' = <<>>
       THEN Leave(t, call[t], None, doomed \cup (Cancelled(timerTask) \ {t}))
       ELSE Leave(t, call[t], timerTask, doomed)
    /\ UNCHANGED <<hooked, waiters, boundVars>>

\* The callback raised an Exception: everything stays, for a cooldown.
CallbackRaises(t) ==
    /\ pc[t] = "callback" /\ Runs(t)
    /\ fails < MaxFailures
    /\ fails' = fails + 1
    /\ suppressed' = TRUE
    /\ holder' = None
    /\ batch' = [batch EXCEPT ![t] = <<>>]
    /\ Leave(t, call[t], timerTask, doomed)
    /\ UNCHANGED <<ops, lastOp, hooked, delivered, waiters, cancels, stops>>

\* Mutant: a cancelled callback keeps the lock.
HolderKept(t) == holder

HolderWithout(t) == IF holder = t THEN None ELSE holder

\* CancelledError at the await where t is suspended.  It is not an Exception,
\* so _trigger only lets go of the lock; the timer swallows it, a client
\* propagates it and never reaches _reset_timer.
CancelledErrorIn(t) ==
    /\ pc[t] # "idle" /\ ~Runs(t)
    /\ holder' = HolderWithout(t)
    /\ IF pc[t] = "lock"
       THEN \E i \in DOMAIN waiters :
               waiters[i] = t /\ waiters' = RemoveAt(waiters, i)
       ELSE UNCHANGED waiters
    /\ batch' = [batch EXCEPT ![t] = <<>>]
    /\ owned' = owned \ {t}
    /\ doomed' = doomed \ {t}
    /\ pc' = [pc EXCEPT ![t] = "idle"]
    /\ call' = [call EXCEPT ![t] = "none"]
    /\ gathered' = [c \in Clients |->
                      IF c = t THEN {} ELSE gathered[c] \ {t}]
    /\ UNCHANGED <<ops, lastOp, suppressed, timerTask, hooked, delivered,
                   boundVars>>

-----------------------------------------------------------------------------
(* The methods clients call *)

\* Mutant: a new operation overtakes the ones that wait.
EnqueuedFirst(o) == <<o>> \o ops

Enqueued(o) == Append(ops, o)

\* A fresh entity id: stage 1 never yields the same operation twice.
Add(c, o) ==
    /\ pc[c] = "idle"
    /\ o \notin Range(Accepted)
    /\ ops' = Enqueued(o)
    /\ lastOp' = "recent"
    /\ IF Len(ops') >= MaxBufferSize /\ ~suppressed
       THEN Trigger(c, "add", ops')
       ELSE /\ StartTimer(c, timerTask, doomed)
            /\ UNCHANGED lockVars
    /\ UNCHANGED <<suppressed, hooked, delivered, boundVars>>

\* Mutant: the fallback only looks while a retry is suppressed.
CheckInCooldown(c) ==
    /\ pc[c] = "idle"
    /\ ops # <<>> /\ lastOp = "old" /\ suppressed
    /\ Trigger(c, "check", ops)
    /\ UNCHANGED <<ops, lastOp, suppressed, hooked, delivered, boundVars>>

CheckTimeTrigger(c) ==
    /\ pc[c] = "idle"
    /\ ops # <<>> /\ lastOp = "old" /\ ~suppressed
    /\ Trigger(c, "check", ops)
    /\ UNCHANGED <<ops, lastOp, suppressed, hooked, delivered, boundVars>>

Flush(c) ==
    /\ pc[c] = "idle"
    /\ Trigger(c, "flush", ops)
    /\ UNCHANGED <<ops, lastOp, suppressed, hooked, delivered, boundVars>>

\* The sleep of _timer_callback is over.
TimerFires(n) ==
    /\ pc[n] = "sleep" /\ Runs(n)
    /\ IF ops = <<>>
       THEN Return(n, timerTask, doomed) /\ UNCHANGED lockVars
       ELSE Trigger(n, "timer", ops)
    /\ UNCHANGED <<ops, lastOp, suppressed, hooked, delivered, boundVars>>

StartTimerIfNeeded(c) ==
    /\ pc[c] = "idle"
    /\ ops # <<>> /\ Cancelled(timerTask) = {}
    /\ StartTimer(c, timerTask, doomed)
    /\ UNCHANGED <<ops, lastOp, suppressed, hooked, delivered, lockVars,
                   boundVars>>

\* stop_timer up to its gather; close is stop_timer and the end of the hook.
Stop(c, method) ==
    /\ pc[c] = "idle" /\ stops < MaxStops
    /\ stops' = stops + 1
    /\ timerTask' = None
    /\ doomed' = doomed \cup owned
    /\ IF owned = {}
       THEN /\ hooked' = (hooked /\ method # "close")
            /\ UNCHANGED <<pc, call, gathered>>
       ELSE /\ pc' = [pc EXCEPT ![c] = "gather"]
            /\ call' = [call EXCEPT ![c] = method]
            /\ gathered' = [gathered EXCEPT ![c] = owned]
            /\ UNCHANGED hooked
    /\ UNCHANGED <<ops, lastOp, suppressed, owned, delivered, lockVars, fails,
                   cancels>>

\* The gather is over: _timer_tasks.clear().
StopReturns(c) ==
    /\ pc[c] = "gather" /\ Runs(c)
    /\ gathered[c] = {}
    /\ owned' = {}
    /\ hooked' = (hooked /\ call[c] # "close")
    /\ pc' = [pc EXCEPT ![c] = "idle"]
    /\ call' = [call EXCEPT ![c] = "none"]
    /\ UNCHANGED <<ops, lastOp, suppressed, timerTask, doomed, gathered,
                   delivered, lockVars, boundVars>>

-----------------------------------------------------------------------------
(* The environment *)

\* Somebody cancels the task that called the buffer.
CancelClient(c) ==
    /\ pc[c] # "idle" /\ Runs(c) /\ cancels < MaxCancels
    /\ cancels' = cancels + 1
    /\ doomed' = doomed \cup {c}
    /\ UNCHANGED <<ops, lastOp, suppressed, timerTask, owned, hooked, pc, call,
                   gathered, delivered, lockVars, fails, stops>>

ThresholdPasses ==
    /\ lastOp = "recent"
    /\ lastOp' = "old"
    /\ UNCHANGED <<ops, suppressed, hooked, delivered, taskVars, lockVars,
                   boundVars>>

CooldownPasses ==
    /\ suppressed
    /\ suppressed' = FALSE
    /\ UNCHANGED <<ops, lastOp, hooked, delivered, taskVars, lockVars,
                   boundVars>>

TaskStep(t) ==
    \/ Acquire(t)
    \/ CallbackReturns(t)
    \/ CallbackRaises(t)
    \/ CancelledErrorIn(t)

ClientStep(c) ==
    \/ \E o \in Operations : Add(c, o)
    \/ CheckTimeTrigger(c)
    \/ Flush(c)
    \/ StartTimerIfNeeded(c)
    \/ \E m \in {"stop", "close"} : Stop(c, m)
    \/ StopReturns(c)
    \/ CancelClient(c)

Next ==
    \/ \E t \in Tasks : TaskStep(t)
    \/ \E n \in Timers : TimerFires(n)
    \/ \E c \in Clients : ClientStep(c)
    \/ ThresholdPasses
    \/ CooldownPasses

Spec == Init /\ [][Next]_vars

\* What asyncio and the orchestrator's loop justify: a woken task runs, sleeps
\* and cooldowns end, on_trigger ends one way or the other, and the loop keeps
\* calling check_time_trigger until it is cancelled or stopped.
Fairness ==
    /\ \A c \in Clients : WF_vars(stops = 0 /\ cancels = 0 /\ CheckTimeTrigger(c))
    /\ WF_vars(ThresholdPasses) /\ WF_vars(CooldownPasses)
    /\ \A t \in Tasks :
         /\ WF_vars(Acquire(t)) /\ WF_vars(CancelledErrorIn(t))
         /\ WF_vars(CallbackReturns(t) \/ CallbackRaises(t))
    /\ \A n \in Timers : WF_vars(TimerFires(n))
    /\ \A c \in Clients : WF_vars(StopReturns(c))

FairSpec == Spec /\ Fairness

-----------------------------------------------------------------------------
(* Properties *)

QueueTypeOK ==
    /\ ops \in Seq(Operations) /\ delivered \in Seq(Operations)
    /\ lastOp \in {"none", "recent", "old"}
    /\ suppressed \in BOOLEAN /\ hooked \in BOOLEAN

TaskTypeOK ==
    /\ timerTask \in Timers \cup {None}
    /\ owned \subseteq Timers
    /\ pc \in [Tasks -> {"idle", "sleep", "lock", "callback", "gather"}]
    /\ call \in [Tasks -> Methods]
    /\ doomed \subseteq Tasks
    /\ gathered \in [Clients -> SUBSET Timers]

LockTypeOK ==
    /\ holder \in Tasks \cup {None}
    /\ waiters \in Seq(Tasks)
    /\ batch \in [Tasks -> Seq(Operations)]

BoundTypeOK == fails \in Nat /\ cancels \in Nat /\ stops \in Nat

TypeOK == QueueTypeOK /\ TaskTypeOK /\ LockTypeOK /\ BoundTypeOK

\* _trigger_lock serializes the callbacks: two tasks are never in on_trigger at
\* the same time, whatever is cancelled while it waits for or holds the lock
\* (buffer.py:61, "Serialize trigger callbacks to avoid concurrent writes").
OneCallback ==
    \A t, u \in Tasks : pc[t] = "callback" /\ pc[u] = "callback" => t = u

\* What a callback was given is still the oldest part of the buffer, although
\* other tasks add and are cancelled while it runs: "del operations[:num_ops]"
\* removes those operations and no other (buffer.py:188-191).
BatchIsOldest ==
    \A t \in Tasks : pc[t] = "callback" => IsPrefix(batch[t], ops)

\* Pending operations carry the time that check_time_trigger compares; without
\* it the fallback of the class's note (buffer.py:32-33) would never fire.
PendingIsTimed == ops # <<>> => lastOp # "none"

\* No operation is lost, reordered or handed over twice by a success, and a
\* failure or a cancellation hands over nothing: the buffer is a batch queue.
Queue == INSTANCE BatchQueue WITH accepted <- Accepted, handed <- delivered

ImplementsBatchQueue == Queue!Spec

\* As long as nobody stops the buffer there is one inactivity timer at most
\* that is not being cancelled, and it is the one _timer_task names, so the
\* next add resets it (_reset_timer, _trigger's own cleanup).
OneTimer ==
    stops = 0 => \A n \in Timers : pc[n] # "idle" /\ Runs(n) => timerTask = n

\* Every pending operation is handed over sooner or later, unless the loop that
\* checks the buffer is cancelled or stopped: a failed trigger leaves no timer
\* behind, and what retries it is check_time_trigger (buffer.py:32-33).
EveryOperationDelivered ==
    \A o \in Operations :
        o \in Range(ops) ~> (o \in Range(delivered) \/ stops > 0 \/ cancels > 0)

\* A task queued on _trigger_lock gets it or is cancelled: cancelled waiters and
\* holders do not swallow the wake-up of the next.
LockIsHandedOn ==
    \A t \in Tasks : pc[t] = "lock" ~> pc[t] # "lock"

-----------------------------------------------------------------------------
(* Claims of the source that its code does not keep *)

\* buffer.py:64-65: "When a trigger fails and operations stay, suppress
\* re-trigger for a cooldown period to avoid a tight retry loop on every add()".
AddHonoursCooldown ==
    [][ \A c \in Clients :
          pc[c] # "callback" /\ pc'[c] = "callback" /\ call'[c] = "add"
             => ~suppressed ]_vars

\* buffer.py:226: stop_timer is to "Cancel and await every owned timer": none is
\* left that has not been told to end, whatever an earlier stop_timer forgot.
StopCancelsTimers ==
    [][ stops' # stops =>
          \A n \in Timers : pc[n] # "idle" => n \in doomed' ]_vars

\* buffer.py:129: an add is to "Reset the inactivity timer"; it does not cut
\* short a callback that a timer has already started.
AddLeavesCallbackRunning ==
    [][ \A n \in Timers :
          pc[n] = "callback" /\ Len(Accepted') > Len(Accepted)
             => (n \in doomed' => n \in doomed) ]_vars
=============================================================================
