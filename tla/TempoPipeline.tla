---------------------------- MODULE TempoPipeline ----------------------------
(***************************************************************************)
(* tempo/pipelines/tempo_pipeline.py and orchestrator.py around the        *)
(* operation buffer: the observation loop that feeds it (stage 1), the     *)
(* stages its callback runs (actions, activities, reconcile, goal          *)
(* synthesis), the database sessions they take one at a time, the state    *)
(* file, and the way recording is stopped, resumed and restarted.          *)
(*                                                                         *)
(* The loop is the client `loop` of the buffer; the request that stops     *)
(* recording is the client `ctl`.  Entities are abstracted to what the     *)
(* properties tell apart: which operations stage 1 committed, in how many  *)
(* committed batches of actions each took part, and which activities wait  *)
(* for the reconcile job.                                                  *)
(***************************************************************************)
EXTENDS OperationBuffer

CONSTANTS
    loop, ctl,            \* the two clients
    MaxObserved,          \* operations one observation yields at most
    WarmupBatches,        \* RECONCILE_WARMUP_BATCHES
    GroupSize,            \* RECONCILE_GROUP_SIZE
    MinNewActivities,     \* GOAL_SYNTHESIS_MIN_NEW_ACTIVITIES
    MaxSynthesisFailures, \* bound on stages 3 to 5 and synthesis that fail
    MaxRestarts,          \* bound on the process dying and coming back
    PeriodicSaves         \* bound: does a run last STATE_SAVE_INTERVAL_SECONDS?

ASSUME PipelineAssumption ==
    /\ Clients = {loop, ctl} /\ loop # ctl
    /\ MaxObserved \in Nat /\ MaxRestarts \in Nat
    /\ WarmupBatches \in Nat \ {0} /\ GroupSize \in Nat \ {0}
    /\ MinNewActivities \in Nat \ {0} /\ MaxSynthesisFailures \in Nat
    /\ PeriodicSaves \in BOOLEAN

VARIABLES
    loopAt,      \* where _observation_loop is; "off": its task has ended
    toAdd,       \* ops_for_buffer still to be added
    db,          \* the task inside a database session (the write lock)
    stage,       \* the stage a task's callback has reached
    extracted,   \* operations committed by stage 1
    covered,     \* how many committed stage-2 batches took each operation
    activities,  \* number of activities stage 3 has created
    mem,         \* the pipeline's counters, saved and restored together
    file,        \* the state file
    running,     \* orchestrator.running
    ctlAt,       \* how far stop_tempo is
    cutShort,    \* history: a callback was cancelled after stage 2 committed
    swallowed, restarts

pipeVars == <<loopAt, toAdd, db, stage, extracted, covered, activities, mem,
              file, running, ctlAt, cutShort, swallowed, restarts>>
allVars == <<vars, pipeVars>>

FreshMemory ==
    [batches |-> 0, warm |-> FALSE, pending |-> {}, since |-> 0,
     fresh |-> 0, synthesis |-> "none"]

\* save_state: the whole buffer and every counter, replaced atomically.
Snapshot(m) == [items |-> ops, last |-> lastOp, mem |-> m]

PipelineInit ==
    /\ Init
    /\ loopAt = "top" /\ toAdd = <<>>
    /\ db = None
    /\ stage = [t \in Tasks |-> "actions"]
    /\ extracted = {} /\ covered = [o \in Operations |-> 0]
    /\ activities = 0
    /\ mem = FreshMemory
    /\ file = [items |-> <<>>, last |-> "none", mem |-> FreshMemory]
    /\ running = TRUE /\ ctlAt = "none"
    /\ cutShort = FALSE
    /\ swallowed = 0 /\ restarts = 0

\* The loop runs its own code: it is in no method of the buffer.
InLoop(where) == loopAt = where /\ pc[loop] = "idle" /\ Runs(loop)

InStage(t, s) == pc[t] = "callback" /\ Runs(t) /\ stage[t] = s

-----------------------------------------------------------------------------
(* Stage 1: the observation loop *)

\* A gap between two rounds (sleep and wake) flushes what is pending.
WakeUp ==
    /\ InLoop("top") /\ running /\ ops # <<>>
    /\ Flush(loop)
    /\ UNCHANGED pipeVars

\* An update passed the audit and a session is opened for the adapter.
ReceiveObservation ==
    /\ InLoop("top") /\ running
    /\ db = None /\ db' = loop
    /\ loopAt' = "stage1"
    /\ UNCHANGED <<vars, toAdd, stage, extracted, covered, activities,
                   mem, file, running, ctlAt, swallowed, cutShort, restarts>>

\* No update, or one that is blocked or fails before it is stored.
SkipObservation ==
    /\ \/ InLoop("top") /\ running /\ UNCHANGED db
       \/ InLoop("stage1") /\ db' = None
    /\ loopAt' = "periodic"
    /\ UNCHANGED <<vars, toAdd, stage, extracted, covered, activities,
                   mem, file, running, ctlAt, swallowed, cutShort, restarts>>

\* Mutant: the buffer is fed inside the session, which SkipObservation ends.
AddInSession ==
    /\ InLoop("stage1")
    /\ \/ /\ toAdd = <<>>
          /\ \E o \in Operations \ extracted :
                toAdd' = <<o>> /\ extracted' = extracted \cup {o}
          /\ UNCHANGED vars
       \/ /\ toAdd # <<>>
          /\ Add(loop, Head(toAdd))
          /\ toAdd' = Tail(toAdd)
          /\ UNCHANGED extracted
    /\ UNCHANGED <<loopAt, db, stage, covered, activities, mem, file, running,
                   ctlAt, cutShort, swallowed, restarts>>

\* The session of stage 1 commits the operations it found.
StoreOperations ==
    /\ InLoop("stage1")
    /\ \E s \in BoundedSeq(Operations \ extracted, MaxObserved) :
          /\ IsInjective(s)
          /\ toAdd' = s
          /\ extracted' = extracted \cup Range(s)
    /\ db' = None
    /\ loopAt' = "adding"
    /\ UNCHANGED <<vars, stage, covered, activities, mem, file, running,
                   ctlAt, swallowed, cutShort, restarts>>

\* "Add to buffer outside session": one awaited add after the other.
AddOperation ==
    /\ InLoop("adding") /\ toAdd # <<>>
    /\ Add(loop, Head(toAdd))
    /\ toAdd' = Tail(toAdd)
    /\ UNCHANGED <<loopAt, db, stage, extracted, covered, activities, mem,
                   file, running, ctlAt, swallowed, cutShort, restarts>>

AddedAll ==
    /\ InLoop("adding") /\ toAdd = <<>>
    /\ loopAt' = "periodic"
    /\ UNCHANGED <<vars, toAdd, db, stage, extracted, covered,
                   activities, mem, file, running, ctlAt, swallowed, cutShort, restarts>>

\* check_periodic_jobs: the buffer's time trigger first.
CheckBuffer ==
    /\ InLoop("periodic")
    /\ \/ CheckTimeTrigger(loop)
       \/ /\ ops = <<>> \/ lastOp # "old" \/ suppressed
          /\ UNCHANGED vars
    /\ loopAt' = "goals"
    /\ UNCHANGED <<toAdd, db, stage, extracted, covered, activities, mem, file,
                   running, ctlAt, swallowed, cutShort, restarts>>

SynthesisDue ==
    mem.fresh >= MinNewActivities \/ mem.synthesis \in {"none", "old"}

\* A job that fails and is logged.
Swallow == swallowed < MaxSynthesisFailures /\ swallowed' = swallowed + 1

\* The counters are set inside the session, before its commit, which may fail.
Synthesized == [mem EXCEPT !.fresh = 0, !.synthesis = "recent"]

\* _run_goal_synthesis: a session, and an outcome that is never raised.
StartSynthesis ==
    /\ InLoop("goals") /\ SynthesisDue
    /\ db = None /\ db' = loop
    /\ loopAt' = "synthesis"
    /\ UNCHANGED <<vars, toAdd, stage, extracted, covered, activities,
                   mem, file, running, ctlAt, swallowed, cutShort, restarts>>

EndSynthesis ==
    /\ InLoop("synthesis")
    /\ db' = None
    /\ loopAt' = "save"
    /\ \/ mem' = Synthesized /\ UNCHANGED swallowed
       \/ mem' \in {mem, Synthesized} /\ Swallow
    /\ UNCHANGED <<vars, toAdd, stage, extracted, covered, activities,
                   file, running, ctlAt, cutShort, restarts>>

\* The end of a round; every STATE_SAVE_INTERVAL_SECONDS the state is saved.
EndRound ==
    /\ InLoop("save") \/ (InLoop("goals") /\ ~SynthesisDue)
    /\ UNCHANGED file \/ (PeriodicSaves /\ file' = Snapshot(mem))
    /\ loopAt' = "top"
    /\ UNCHANGED <<vars, toAdd, db, stage, extracted, covered,
                   activities, mem, running, ctlAt, swallowed, cutShort, restarts>>

EndLoop ==
    /\ InLoop("top") /\ ~running
    /\ loopAt' = "off"
    /\ UNCHANGED <<vars, toAdd, db, stage, extracted, covered,
                   activities, mem, file, running, ctlAt, swallowed, cutShort, restarts>>

-----------------------------------------------------------------------------
(* Stages 2 to 5: _on_buffer_trigger, run by the task t that holds the lock *)

\* Every stage has a session of its own, taken when the database is free.
OpenSession(t) ==
    /\ pc[t] = "callback" /\ Runs(t)
    /\ db = None /\ db' = t
    /\ UNCHANGED <<vars, loopAt, toAdd, stage, extracted, covered, activities,
                   mem, file, running, ctlAt, swallowed, cutShort, restarts>>

\* Stage 2 commits the actions of the whole batch.
BuildActions(t) ==
    /\ InStage(t, "actions") /\ db = t
    /\ db' = None
    /\ covered' = [o \in Operations |->
                      covered[o] + IF o \in Range(batch[t]) THEN 1 ELSE 0]
    /\ stage' = [stage EXCEPT ![t] = "activities"]
    /\ UNCHANGED <<vars, loopAt, toAdd, extracted, activities, mem, file,
                   running, ctlAt, swallowed, cutShort, restarts>>

\* Mutant: a stage 2 that failed is taken for one that succeeded.
FailActionsSilently(t) ==
    /\ InStage(t, "actions") /\ db = t
    /\ db' = None
    /\ CallbackReturns(t)
    /\ UNCHANGED <<loopAt, toAdd, stage, extracted, covered, activities, mem,
                   file, running, ctlAt, cutShort, swallowed, restarts>>

\* Only stage 2 lets its exception out of the callback.
FailActions(t) ==
    /\ InStage(t, "actions") /\ db = t
    /\ db' = None
    /\ CallbackRaises(t)
    /\ UNCHANGED <<loopAt, toAdd, stage, extracted, covered, activities, mem,
                   file, running, ctlAt, swallowed, cutShort, restarts>>

\* Mutant: the candidates that already wait are forgotten.
CandidatesReplaced(created) == created

Candidates(created) == mem.pending \cup created

\* After stage 3, with the ids it created: count the batch, and go on to the
\* reconcile when the warm-up or the group is complete.
Accumulate(t, created) ==
    LET m == [mem EXCEPT !.pending = Candidates(created),
                         !.batches = @ + 1,
                         !.since = IF mem.warm THEN @ + 1 ELSE @]
        due == IF m.warm THEN m.since >= GroupSize
                         ELSE m.batches >= WarmupBatches
    IN /\ mem' = m
       /\ IF due
          THEN /\ stage' = [stage EXCEPT ![t] =
                      IF m.pending # {} THEN "reconcile" ELSE "synthesis"]
               /\ UNCHANGED vars
          ELSE /\ stage' = [stage EXCEPT ![t] = "actions"]
               /\ CallbackReturns(t)

\* Mutant: the exception of stage 3 leaves the callback.
ProposeRaises(t) ==
    /\ Swallow
    /\ stage' = [stage EXCEPT ![t] = "actions"]
    /\ CallbackRaises(t)
    /\ UNCHANGED <<mem, activities>>

\* The exception of stage 3 is logged, and nothing was created.  When the commit
\* at the end of the session raised it, created_ids has been assigned and is kept.
ProposeFails(t) ==
    /\ Swallow
    /\ \E kept \in {{}, {activities + 1}} : Accumulate(t, kept)
    /\ UNCHANGED activities

\* Stage 3 creates an activity, matches existing ones only, or fails and is
\* logged.
ProposeActivities(t) ==
    /\ InStage(t, "activities") /\ db = t
    /\ db' = None
    /\ \/ /\ Accumulate(t, {activities + 1})
          /\ activities' = activities + 1
          /\ UNCHANGED swallowed
       \/ /\ Accumulate(t, {})
          /\ UNCHANGED <<activities, cutShort, swallowed>>
       \/ ProposeFails(t)
    /\ UNCHANGED <<loopAt, toAdd, extracted, covered, file, running, ctlAt,
                   cutShort, restarts>>

\* A reconcile that fails is only logged; its changes are counted if it was the
\* commit that failed.
Reconcile(t) ==
    /\ InStage(t, "reconcile") /\ db = t
    /\ db' = None
    /\ stage' = [stage EXCEPT ![t] = "synthesis"]
    /\ \E changes \in 0..1 : mem' = [mem EXCEPT !.fresh = @ + changes]
    /\ Swallow \/ UNCHANGED swallowed
    /\ UNCHANGED <<vars, loopAt, toAdd, extracted, covered, activities, file,
                   running, ctlAt, cutShort, restarts>>

\* The rest of the callback runs without an await: the candidates are
\* dropped, the state is saved with the batch still in it, and _trigger
\* deletes the batch.
SynthesizeGoals(t) ==
    /\ InStage(t, "synthesis") /\ db = t
    /\ db' = None
    /\ \E m \in {mem, Synthesized} :
          /\ Swallow \/ (m = Synthesized /\ UNCHANGED swallowed)
          /\ mem' = [m EXCEPT !.pending = {},
                              !.warm = TRUE,
                              !.since = IF mem.warm THEN 0 ELSE @]
    /\ file' = Snapshot(mem')
    /\ stage' = [stage EXCEPT ![t] = "actions"]
    /\ CallbackReturns(t)
    /\ UNCHANGED <<loopAt, toAdd, extracted, covered, activities, running,
                   ctlAt, cutShort, restarts>>

\* CancelledError rolls back the open session and leaves the loop for good.
Interrupted(t) ==
    /\ IF pc[t] = "idle"
       THEN /\ t = loop /\ loop \in doomed
            /\ doomed' = doomed \ {loop}
            /\ UNCHANGED <<ops, lastOp, suppressed, timerTask, owned, hooked,
                           pc, call, gathered, delivered, lockVars, boundVars>>
       ELSE CancelledErrorIn(t)
    /\ db' = IF db = t THEN None ELSE db
    /\ stage' = [stage EXCEPT ![t] = "actions"]
    /\ IF t = loop
       THEN loopAt' = "off" /\ toAdd' = <<>> /\ running' = FALSE
       ELSE UNCHANGED <<loopAt, toAdd, running>>
    /\ cutShort' = (cutShort \/ stage[t] # "actions")
    /\ UNCHANGED <<extracted, covered, activities, mem, file, ctlAt, swallowed,
                   restarts>>

-----------------------------------------------------------------------------
(* The buffer's own steps, inside this process *)

BufferStep ==
    /\ \/ \E t \in Tasks : Acquire(t)
       \/ \E n \in Timers : TimerFires(n)
       \/ StopReturns(ctl)
       \/ ThresholdPasses
       \/ CooldownPasses
    /\ UNCHANGED pipeVars

\* GOAL_SYNTHESIS_INTERVAL_SECONDS have passed since the last synthesis.
SynthesisAges ==
    /\ mem.synthesis = "recent"
    /\ mem' = [mem EXCEPT !.synthesis = "old"]
    /\ UNCHANGED <<vars, loopAt, toAdd, db, stage, extracted, covered,
                   activities, file, running, ctlAt, swallowed, cutShort, restarts>>

-----------------------------------------------------------------------------
(* Stop, resume and restart *)

\* stop_tempo and orchestrator.stop up to the first await that suspends: the
\* flag, the state file, and the timers.
StopTempo ==
    /\ ctlAt = "none" /\ running
    /\ running' = FALSE
    /\ file' = Snapshot(mem)
    /\ Stop(ctl, "stop")
    /\ ctlAt' = "pausing"
    /\ UNCHANGED <<loopAt, toAdd, db, stage, extracted, covered, activities,
                   mem, swallowed, cutShort, restarts>>

\* observer.stop has been awaited: what is left of the loop is cancelled.
CancelLoop ==
    /\ ctlAt = "pausing" /\ pc[ctl] = "idle"
    /\ ctlAt' = "joining"
    /\ doomed' = IF loopAt = "off" THEN doomed ELSE doomed \cup {loop}
    /\ UNCHANGED <<ops, lastOp, suppressed, timerTask, owned, hooked, pc, call,
                   gathered, delivered, lockVars, boundVars, loopAt, toAdd, db,
                   stage, extracted, covered, activities, mem, file, running,
                   swallowed, cutShort, restarts>>

Stopped ==
    /\ ctlAt = "joining" /\ loopAt = "off"
    /\ ctlAt' = "none"
    /\ UNCHANGED <<vars, loopAt, toAdd, db, stage, extracted, covered,
                   activities, mem, file, running, swallowed, cutShort, restarts>>

\* shutdown_resources while paused: orchestrator.close saves once more.
SaveBeforeExit ==
    /\ ctlAt = "none" /\ ~running /\ loopAt = "off"
    /\ file' = Snapshot(mem)
    /\ UNCHANGED <<vars, loopAt, toAdd, db, stage, extracted, covered,
                   activities, mem, running, ctlAt, cutShort, swallowed,
                   restarts>>

\* start_tempo on a paused orchestrator: the same pipeline and buffer go on.
ResumeTempo ==
    /\ ctlAt = "none" /\ ~running /\ loopAt = "off"
    /\ running' = TRUE
    /\ loopAt' = "top"
    /\ \/ StartTimerIfNeeded(loop)
       \/ /\ ops = <<>> \/ Cancelled(timerTask) # {}
          /\ UNCHANGED vars
    /\ UNCHANGED <<toAdd, db, stage, extracted, covered, activities, mem, file,
                   ctlAt, swallowed, cutShort, restarts>>

\* The process dies at any point and is started again: a new pipeline restores
\* the file; the counters only when the file has buffered items.
Restart ==
    /\ restarts < MaxRestarts /\ restarts' = restarts + 1
    /\ ops' = file.items
    /\ lastOp' = IF file.items = <<>> THEN "none" ELSE file.last
    /\ mem' = IF file.items = <<>> THEN FreshMemory ELSE file.mem
    /\ suppressed' = FALSE /\ hooked' = TRUE /\ delivered' = <<>>
    /\ \E n \in Timers :
          LET restored == IF file.items = <<>> THEN {} ELSE {n}
          IN /\ timerTask' = IF file.items = <<>> THEN None ELSE n
             /\ owned' = restored
             /\ pc' = [t \in Tasks |-> IF t \in restored THEN "sleep" ELSE "idle"]
             /\ call' = [t \in Tasks |-> IF t \in restored THEN "timer" ELSE "none"]
    /\ holder' = None /\ waiters' = <<>>
    /\ batch' = [t \in Tasks |-> <<>>]
    /\ doomed' = {} /\ gathered' = [c \in Clients |-> {}]
    /\ loopAt' = "top" /\ toAdd' = <<>> /\ db' = None
    /\ stage' = [t \in Tasks |-> "actions"]
    /\ running' = TRUE /\ ctlAt' = "none"
    /\ UNCHANGED <<extracted, covered, activities, file, cutShort, swallowed, boundVars>>

-----------------------------------------------------------------------------

LoopStep ==
    \/ WakeUp \/ ReceiveObservation \/ SkipObservation \/ StoreOperations
    \/ AddOperation \/ AddedAll \/ CheckBuffer
    \/ StartSynthesis \/ EndSynthesis \/ EndRound \/ EndLoop

CallbackStep(t) ==
    \/ OpenSession(t) \/ BuildActions(t) \/ FailActions(t)
    \/ ProposeActivities(t) \/ Reconcile(t) \/ SynthesizeGoals(t)

LifecycleStep ==
    \/ StopTempo \/ CancelLoop \/ Stopped \/ SaveBeforeExit \/ ResumeTempo
    \/ Restart

PipelineNext ==
    \/ LoopStep
    \/ \E t \in Tasks : CallbackStep(t) \/ Interrupted(t)
    \/ BufferStep
    \/ SynthesisAges
    \/ LifecycleStep

PipelineSpec == PipelineInit /\ [][PipelineNext]_allVars

\* asyncio runs what is runnable, the write lock is first come first served,
\* sessions end (every model call has a timeout), and time passes.  Nothing
\* makes the user produce observations, stop, or resume.
PipelineFairness ==
    /\ WF_allVars(LoopStep) /\ SF_allVars(StartSynthesis)
    /\ \A t \in Tasks :
         /\ WF_allVars(CallbackStep(t)) /\ SF_allVars(OpenSession(t))
         /\ WF_allVars(Interrupted(t))
         /\ WF_allVars(Acquire(t) /\ UNCHANGED pipeVars)
    /\ \A n \in Timers : WF_allVars(TimerFires(n) /\ UNCHANGED pipeVars)
    /\ WF_allVars(ThresholdPasses /\ UNCHANGED pipeVars)
    /\ WF_allVars(CooldownPasses /\ UNCHANGED pipeVars)

FairPipelineSpec == PipelineSpec /\ PipelineFairness

-----------------------------------------------------------------------------
(* Properties *)

Memories ==
    [batches : Nat, warm : BOOLEAN, pending : SUBSET (1..activities + 1),
     since : Nat, fresh : Nat, synthesis : {"none", "recent", "old"}]

\* The one session belongs to a callback, or to the loop where it waits for
\* nothing else.
SessionHeld ==
    db # None =>
        \/ pc[db] = "callback"
        \/ db = loop /\ pc[loop] = "idle" /\ loopAt \in {"stage1", "synthesis"}

PipelineTypeOK ==
    /\ TypeOK
    /\ SessionHeld
    /\ loopAt \in {"top", "stage1", "adding", "periodic", "goals", "synthesis",
                   "save", "off"}
    /\ toAdd \in Seq(Operations)
    /\ db \in Tasks \cup {None}
    /\ stage \in [Tasks -> {"actions", "activities", "reconcile", "synthesis"}]
    /\ extracted \subseteq Operations
    /\ covered \in [Operations -> Nat]
    /\ activities \in Nat /\ mem \in Memories
    /\ file \in [items : Seq(Operations), last : {"none", "recent", "old"},
                 mem : Memories]
    /\ running \in BOOLEAN /\ cutShort \in BOOLEAN
    /\ ctlAt \in {"none", "pausing", "joining"}
    /\ swallowed \in Nat /\ restarts \in Nat

\* What the state file holds is recoverable: an operation saved there has
\* become part of a committed batch of actions or is still in the buffer, at
\* every point between saves, pauses and restarts (buffer.py:164-165, "so the
\* periodic state-save preserves them and they survive restarts").
SavedIsRecoverable ==
    \A o \in Range(file.items) : covered[o] > 0 \/ o \in Range(ops)

\* Operations stage 1 committed are never stranded while recording goes on:
\* they are in actions, in the buffer, or about to be added to it.
NothingStranded ==
    stops = 0 /\ restarts = 0 =>
        \A o \in extracted :
            covered[o] > 0 \/ o \in Range(ops) \/ o \in Range(toAdd)

\* Retrying a failed batch never repeats work that was committed: an operation
\* takes part in two committed batches only when the process died or a
\* callback was cancelled after its stage 2.
RepeatedOnlyWhenCut ==
    ~cutShort /\ restarts = 0 => \A o \in Operations : covered[o] <= 1

\* A buffered operation leaves the buffer of a living process only after its
\* actions are committed, through pauses, cancelled callbacks and resumes
\* (orchestrator.stop, "preserving buffered operations for resume").
LeavesOnlyCovered ==
    [][ restarts' = restarts =>
          \A o \in Range(ops) : o \in Range(ops') \/ covered'[o] > 0 ]_allVars

\* An activity waiting for the reconcile job stops waiting only at the end of a
\* reconcile-and-synthesize pass, or because the process died.
PendingUntilPass ==
    [][ restarts' = restarts =>
          \/ mem.pending \subseteq mem'.pending
          \/ \E t \in Tasks : stage[t] = "synthesis" /\ stage'[t] = "actions"
        ]_allVars

\* Stage 1's database session is closed before the buffer is fed, so the loop
\* never waits for the trigger lock with the session that its holder needs:
\* every callback ends (and, as callbacks exclude each other, the buffer is again
\* and again in none).
CallbackEnds ==
    []<>(\A t \in Tasks : pc[t] # "callback")

\* While recording goes on every operation stage 1 commits becomes part of an
\* action sooner or later, whatever the time trigger, the size trigger and the
\* cooldowns do.
EveryOperationActed ==
    \A o \in Operations : o \in extracted ~> covered[o] > 0

-----------------------------------------------------------------------------
(* Claims of the source that its code does not keep *)

\* orchestrator.py:235: stop is to "Pause all work while preserving buffered
\* operations for resume": once it is through, no timer is left to run the
\* pipeline.
PausedIsQuiet ==
    ~running /\ ctlAt = "none" /\ loopAt = "off" =>
        \A n \in Timers : pc[n] = "idle"

\* tempo_pipeline.py:252: a callback is to "Accumulate created activity IDs":
\* what waits for the reconcile job has been created.
PendingWereCreated == \A a \in mem.pending : a <= activities

\* tempo_pipeline.py:513: restore_state is to "Restore pipeline state from a
\* previously saved dict", which save_state fills with the counters as well.
RestoresCounters ==
    [][ restarts' # restarts => mem' = file.mem ]_allVars
=============================================================================
