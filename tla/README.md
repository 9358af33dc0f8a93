# A TLA+ verification of Tempo

Tempo (`src/tempo`) watches the screen, turns what it sees into a hierarchy of
operations, actions, activities and goals, and lets the user edit that
hierarchy.  This directory holds TLA+ models of the parts of it that are hard to
test, TLC runs that check them on small instances, and TLAPS proofs of what
matters most for every instance.

## The system and its parts

| part | state | operations | hard behaviour |
|---|---|---|---|
| operation buffer (`buffer.py`) | pending operations, time of the last one, the inactivity timer, the trigger lock, a cooldown | `add`, `check_time_trigger`, `flush`, timer, `stop_timer`, `close` | timers, the loop and clients interleave at every await; cancellation while waiting for or holding the lock; failed callbacks |
| pipeline (`pipelines/tempo_pipeline.py`) | counters of warm-up and groups, activities that wait for the reconcile job, time of the last synthesis | `process_observation`, the buffer callback with stages 2 to 5, periodic jobs, save and restore | a stage fails, a callback is cancelled between two stages, a crash between a commit and a save |
| orchestrator (`pipelines/orchestrator.py`) | `running`, the state file | observation loop, `start`, `stop`, `close` | stop against a loop and timers that still run; resume; observer restarts |
| database (`db.py`, `store.py`) | entities and relations; one write lock | sessions | one session at a time: who waits for it holding what |
| stage jobs (`pipelines/*_operation*.py`, `activity_reconcile.py`, `goal_*.py`) | none of their own | turn a model's answer into rows | any answer must leave a sound hierarchy |
| hierarchy edits (`hierarchy.py`) | revisions, user locks | update, reparent, merge, split, delete, create | stale clients, cycles, locked entities |
| hierarchy compile (`hierarchy_compile.py`) | drafts, backups, the live file and its log | compile, accept, revert | file operations in a thread beside requests that open and write the same paths |
| server (`server.py`) | status, the current system, orchestrator and task | start, stop, shutdown, further routes | requests interleave at every await; set-ups fail half-way |
| screen observer (`observers/`) | capture files, transcription queue, update queue | capture, transcribe, scan for orphans, watchdog, stop, restart | crashes between files, cancellation at any await, full queues |
| assistant (`assistant_*.py`) | settings and feedback, refresh gate, shown suggestions, conversations | suggestion job, settings, refine, feedback, chat | answers that come after what they rest on has changed; retried requests; shared model slots |

The observer hands updates to the orchestrator's loop.  The loop audits one,
opens a database session for stage 1, and awaits one `add` of the buffer per
operation.  A trigger of the buffer (size, inactivity timer, the loop's time
check, a flush after wake-up) calls the pipeline's `_on_buffer_trigger` in the
task that triggered, which takes a session per stage.  `stop` and `start` come
from HTTP requests, tasks of the same event loop; so do edits and compiles.

Everything runs in one asyncio event loop.  A task is never interrupted between
two awaits that suspend, so an action of a model is the code between two such
awaits, and the interleavings of these actions are all there is.

## Modules

`BatchQueue` is the abstract specification of the buffer: operations are
accepted one at a time and handed over in batches of the oldest ones, and only a
handler that succeeded takes a batch out.

`OperationBuffer` is `buffer.py`.  Its tasks are `Clients`, which call methods,
and `Timers`, each a task of `_timer_callback`.  `pc[t]` says where a task is
suspended: the sleep of a timer, the wait for `_trigger_lock`, the callback, or
the gather of `stop_timer`.  A cancelled task is in `doomed` until it runs again
and gets its `CancelledError` (`CancelledErrorIn`).  `asyncio.Lock` is modelled
as CPython 3.11 to 3.13 behave: a free lock is taken without suspending unless a
live waiter is queued; waiters are served in order; a cancelled waiter leaves
the queue.  Time appears only in the comparisons that the code makes: `lastOp`
is unset, recent, or old enough for the inactivity threshold, and `suppressed`
says that the cooldown of a failure has not ended.  `delivered` is a history
variable of the operations of successful callbacks.

| action | code |
|---|---|
| `Add`, `CheckTimeTrigger`, `Flush`, `StartTimerIfNeeded` | the methods up to their first suspension; `Trigger`/`Locked` is the head of `_trigger`, `StartTimer` is `_reset_timer`, `Leave`/`Return` what follows `_trigger` |
| `TimerFires` | `_timer_callback` after its sleep |
| `Acquire` | a waiter gets `_trigger_lock` and reads the buffer again |
| `CallbackReturns`, `CallbackRaises` | `_trigger` after the callback |
| `CancelledErrorIn` | the exception path of a cancelled task, from wherever it is suspended |
| `Stop`, `StopReturns` | `stop_timer` and `close`, before and after the gather |
| `CancelClient`, `ThresholdPasses`, `CooldownPasses` | the environment |

`TempoPipeline` extends it with the rest of the recording path.  The
observation loop is the buffer's client `loop`, and its place in a round is
`loopAt`; the request that stops recording is the client `ctl`.  The stages of a
callback are actions of the task that is in it (`stage[t]`), each inside the
single database session `db`.  Entities are abstracted to `extracted` (operations
stage 1 committed), `covered[o]` (committed batches of actions with `o`), and a
count of activities.  `mem` is what `save_state` writes besides the buffer,
`file` the state file.  `Restart` is a crash at any point followed by
`restore_state`.

In the code the session of stage 1 is committed in a thread of the database
driver; the model lets other tasks run between that commit and the first add,
and between two adds, as they can while an add is suspended.

`HierarchyService` is `hierarchy.py` with the part of `store.py` and `models.py`
it writes through.  `entities` maps row ids to records of the metadata an edit
looks at, `parts` holds the `part_of` links, and `view[c]` is what client `c` has
loaded.  Every edit runs in one session, which excludes others and is rolled back
by any error, so each edit is one action and a refused edit is none; what is
concurrent is the clients, whose copies go stale.  A text is the number of the
transaction that wrote it, which makes any two wordings comparable.  `born` is a
history variable: the transaction that inserted a row, since SQLite gives the id
of a deleted newest row out again.

| action | code |
|---|---|
| `UpdateEntity`, `ReparentEntity`, `MergeEntities`, `SplitEntity`, `DeleteEntity`, `CreateEntity` | the methods of those names; `Current` is `_get` with `_assert_revision`, `FitsUnder` is `_validate_parent`, `Rewired` and `PartsOfSplit` are the loops over relations |
| `Load` | `get_hierarchy` |

`ActivityReconcile` extends it with the job that competes with those edits.
`ProposeActivity` is stage 3 creating a candidate, which waits in `pending`. `StartJob`
opens the job's session, `Decide` applies one decision of the model (`DecideTarget` for
match, revise and merge, with any entity as the target; `DecideNew`, or none) to the
working copy `job.rows` and `job.links`, and `CommitJob`, `FailJob` and `CancelJob` end
the session.  `job.misled` records that an answer named the candidate itself, or an
entity of another tier.  While it is open no other session runs, as `db.py`'s write lock
has it.

`ActionBuilder` is stages 1 and 2: `ProcessObservation` stores an observation's
operations with the capture's time, which may be older than what is stored;
`BuildActions` turns a batch into actions.  `Covers` are the checks of
`_parse_action_items_from_response` on any list of segments, `Groups` what they
make of the batch in the order `Sorted` gives them, `NewAction`, `Chains` and
`OverlapsWith` the actions and their relations.  An answer that is refused makes one
action of the whole batch; a call that fails is `AttemptFails`.

`Resynthesis` is what re-thinks the hierarchy between recordings and in a compile:
`ApplyEdits` is `_apply_edits` on a batch (`Merged`, `Detached`, `DroppedActions`,
`Reparented`; `Heir` is where the merges, in their order, leave an entity's children),
`ProposeActivities` is stage 3, and a goal synthesis is `DraftGoals`, then `RefineGoals`
with self-refine (`Recovered`), `_persist_goals` (`GoalsOf`, `PutLinks`, `Reworded`,
`Misses`, `Rivals`) and the deletion of goals that were missed three times.  A text
is 0 or 1 and whoever rewrites it flips it, so a change of wording shows.

`HierarchyCompile` has the files.  A database is a main file and a log beside it;
`of` is the database that a file belongs to wherever it is moved, `marks` the
transactions in it.  `conn[w]` is the database a writer has open, also after its
path was taken over.  `upset` records what has disturbed a swap or a copy, each event
by name, and the properties say which events they exclude.

| action | code |
|---|---|
| `Open`, `Commit`, `Close`, `StartRecording`, `StopRecording` | requests and the recorder on the live database (`db.py`) |
| `StartCompile`, `CopyMain`, `CopyWal`, `EditDraft`, `FinishCompile`, `FailCompile` | `compile`, with the sweep of old drafts, which may be any; the copy of file and log is not atomic |
| `AbandonCompile` | the client of the event stream goes away |
| `StartAccept`, `Quiesce`, `FoldLive` to `DropSidecar`, `EndAccept`, `Revert` | `accept` with `_swap_in_draft`, one file operation per action since it runs in a thread, and `revert`; `Checkpoint` may fold or fail unnoticed |

`ScreenObserver` has one capture worker, the transcription tasks it starts and
watches, and the files of each capture on disk: picture, metadata, transcription,
failure marker.  `frame[c]` is the task that saves a capture, `worker[w]` where a
transcription task is and with which capture, `phase` a step of `stop`.  `left` bounds
all faults together: a crash, a pause, a death of the process, a removed picture.

`AssistantService` keeps apart the contexts a suggestion may be made for by what
`context_id` hashes: observations, edits of evidence, focus, recent feedback.
Feedback has a `day`, and `RecentSuggestions` and `Kept` are `recent_suggestions`: what is
older than `Window` days is left out of a context, and `feedback` keeps the `Newest` of
the rest.  `job` is
the suggestion job between its start, its slot and its call; `chat[n]` a request
between its session's lock, its two calls and the thread that stores its turn.
`Restart` gives back what `state.json` and the conversation's file hold.

`RecordingSession` has `start_tempo`, `stop_tempo` and `shutdown_resources` as
requests whose steps end at their awaits.  A request creates at most one system, one
orchestrator and one task, which carry its number, so a global names whose it is.
`CompareConfig` to `CleanedUp` tear down, `ResumePaused` to `WireOrchestrator` are
the branches of a start, `TaskBegins` to `LoopCancelled` the tasks.  `Sent` is the
head of each route: `overlap` is a history variable that becomes true when a start
is at work together with another request.

The proofs are in the modules named after what they are about: `TempoPipeline_proofs`,
in which the operation buffer comes first, `ActivityReconcile_proofs`, in which the
edits of `HierarchyService` do, `ActionBuilder_proofs`, `Resynthesis_proofs`,
`HierarchyCompile_proofs`, `ScreenObserver_proofs`, `AssistantService_proofs` and
`RecordingSession_proofs`.  The modules `MC...` give the constants of the models the
values for TLC.

## Runs

| run | instance | checks |
|---|---|---|
| `buffer_safety` | 3 operations, 2 clients, 3 timers, size 3, a failure, a cancelled client, a stop or close | types; callbacks are serialized; a batch is the head of the buffer; pending operations carry their time; one timer; the buffer implements the batch queue |
| `buffer_live` | 2 operations, 1 client, 3 timers, size 2 | every operation is handed over, unless the loop is cancelled or stopped; the lock is handed on |
| `pipeline_safety` | 3 operations, 2 timers, size 2, warm-up and groups of 2 batches, one failure of stage 2 and one of a later stage | types; nothing is stranded; batches are repeated only when cut after stage 2; candidates are dropped only by a pass |
| `pipeline_restart` | 2 operations, 2 timers, size 2, one stop, one crash | what is saved is in actions or in the buffer; nothing leaves the buffer uncovered |
| `pipeline_live` | 2 operations, 2 timers, size 2 (the second add triggers), failures as above | every callback ends; every operation reaches an action |
| `reconcile_safety` | a goal, an activity and two of their children, of which one is a candidate; 1 client, 6 ids, 2 transactions | types; links leave their tiers only by an answer that names another tier; equal revisions mean equal content; only a delete orphans, or an answer that names its own candidate; what the user locks or words survives unless it is a candidate |
| `compile_safety` | 2 compiles, 2 accept or revert requests, 1 edit, the recorder, 2 seconds | only a completed draft becomes live; what was committed outside a swap survives in the live file or a backup; a live database is there between swaps and has its own log; each unless an event it names has happened |
| `synthesis_safety` | 2 goals, one with two missed passes, 2 activities, an action of both; one batch of edits, one proposal, two passes | goals the user owns are neither deleted nor reworded, others are deleted only after three missed passes; nothing loses its place but by what takes it away |
| `actions_safety` | 3 operations, capture times 0 to 2, up to 2 segments of any bounds, repeated batches | each build puts each operation into one action; FOLLOWS is one line forward in time, and no pair is related twice |
| `screen_safety` | 2 captures, 2 transcription tasks, an update queue of 1, one fault | a queued capture can be found on disk; a saved one is heard or given up |
| `assistant_safety` | 1 suggestion, 2 chat requests, 1 slot, 2 changes, an edit, a day after which feedback is old, a restart | slots are respected; nothing obsolete is shown or stored, no request has two turns; everything ends |
| `recording_safety` | 4 requests, 2 at work at a time, set-ups and closes that raise | one loop, the one that a stop ends; status, globals and loop agree when no request is at work; shutdown leaves nothing it could close |

Twelve further configurations are not part of these runs: each checks one property that
the code breaks, and TLC answers with the behaviour.  They are named under Findings.

The bounds.  Three timers are enough for a timer in a callback, one that is being
cancelled and a new one at the same time; a fourth only waits behind them.  Two
clients are enough for one that waits for the lock while the other holds it or is
cancelled.  The maximum size is 3 in `buffer_safety` because an add must stay
below it while a batch is in a callback for the callback to be aborted.  One
failure, one cancellation and one stop already meet every other step; with more
of them the runs exceed five minutes.  `MaxObserved` is 2 where the code between
two adds of one observation matters.

In the reconcile runs one client is enough to be stale: its own edits of
neighbouring entities, creations and the job all change rows it has loaded.
`MaxWrites` 2 lets two of a proposal, an edit and a job follow each other in any
order, with a job open at any point between them; `MaxId` 6 leaves a split its two
rows, or, after deletions, reused ids.  (The same properties were checked once with
three transactions and `MaxId` 4.)  The model's answers name any entity of the graph as
the target, the candidate included, and at most one further entity to merge.

In `compile_safety` two requests and two compiles meet in every way two can; a third
repeats one of them; a behaviour is not followed beyond the point where both events that
void all its properties have happened (`StillPromised`).  Only seconds in which a swap
names its backup are counted, and two let backups share one or not.  What a failed
checkpoint folds in part lies between the two outcomes of `Checkpoint`.  In
`synthesis_safety` goal 2 starts with two missed passes, so that two passes reach the
threshold and the grace before it; the batches were chosen so that merges chain, meet a
child of both sides, and follow a detach.  In `screen_safety` two captures fill the
queue of updates and leave one in the worker's hands; with one fault at a time every
await is cut once, and no property needs a second.  In `assistant_safety` one slot makes
the job and both chats wait for each other; the second sender may be a retry of the
first.  `Window`, `Newest` and `MaxDays` 1 stand for 30 days, 20 items and a time after
which feedback no longer counts; days before the first feedback change nothing and are
not counted.  With one suggestion only its age drops it; that newer feedback pushes it
out was checked once with two suggestions, both statuses and two days, without chats. In
`recording_safety` four requests are a start, a stop, a resume and a shutdown or second
stop; `MaxAtWork` 2 is the least number at which requests overlap.

Deadlock is checked in the pipeline runs, where the loop goes on for ever, and in
`reconcile_safety`, where a client can always read.  It is off for the buffer
alone, where clients may stop calling it, and in the newer runs, whose bounds on
requests, captures and passes end every behaviour.

Fairness.  `OperationBuffer!Fairness` says that a woken task runs, sleeps and
cooldowns end, the callback ends one way or the other, and the client keeps
calling `check_time_trigger`, as the loop does every round until it is cancelled or the
buffer is stopped; from then on nothing is promised of what is pending.  `PipelineFairness`
drops the last two assumptions: the loop is modelled, and the callback ends
because its stages do.  It adds that the database's lock, first come first
served, is not withheld from a waiting task for ever (strong fairness of taking a
session) and that sessions end, since model calls have timeouts.  `PeriodicSaves` is FALSE
in `pipeline_live` only: a save changes the file alone, which no liveness property is
about.  Nothing makes
the user produce observations, stop or resume.

`ScreenFairness` lets the tasks of the event loop and its threads go on (weak
fairness).  A saving of a transcription and a permanent error are strongly fair
together, since the code retries transient errors for ever: if the service never
answered again, nothing could be promised.  The watchdog's pass is strongly fair,
because passes are skipped while the display sleeps, and it does not sleep for ever.
`AssistantFairness` lets calls end (they have a timeout of 90 seconds) and waiting
tasks run; taking a slot is strongly fair for a chat, as `asyncio.Semaphore` wakes
waiters in order.

## Findings

Shown by a counterexample of TLC; each configuration checks the one property named.

* `buffer.py:132` (`Buffer_add.cfg`, `AddLeavesCallbackRunning`): an add below the
  maximum size cancels `_timer_task` even when that task is past its sleep and inside
  the callback.
* `buffer.py:92` (`Buffer_cooldown.cfg`, `AddHonoursCooldown`): the cooldown is tested
  before the wait for the lock only.
* `orchestrator.py:255` (`Pipeline_pause.cfg`, `PausedIsQuiet`): `stop` pauses the
  buffer before the loop has ended; the loop can start a timer that runs the pipeline
  while Tempo is stopped.
* `tempo_pipeline.py:543` (`Pipeline_restore.cfg`, `RestoresCounters`): the counters
  are restored inside `if items:`.
* `activity_reconcile.py:457` (`Reconcile_selfreference.cfg`,
  `ActionsKeepTheirActivity`): a decision that names the candidate as its own target is
  renamed to `new` but runs through the branch for targets, which removes the
  candidate's links and the candidate.
* `activity_reconcile.py:506` and `:514` (`Reconcile_useredits.cfg`,
  `ReconcileKeepsUserEdits`): a candidate that the user has edited or locked while it
  waited is deleted or renamed; the guards look at the target and at further
  activities only (a locked candidate turns a merge into a match, which deletes it
  too).

* `buffer.py:234` (`Buffer_stop.cfg`, `StopCancelsTimers`): `stop_timer` clears
  `_timer_tasks` after its gather, and with it a timer that was started meanwhile; a
  later `stop_timer` or `close` neither cancels nor awaits that one.
* `tempo_pipeline.py:294` (`Pipeline_rollback.cfg`, `PendingWereCreated`): the ids that
  stage 3 created are taken before its session commits; when the commit fails they wait
  for the reconcile job although their rows were rolled back.
* `activity_reconcile.py:458` (`Reconcile_tiers.cfg`, `Layered`): a target is looked up
  without regard to its type, and a decision that names a goal or an action hangs the
  candidate's actions under it.
* `hierarchy_compile.py:846` (`Compile_checkpoint.cfg`, `BackupIsFolded`): a checkpoint
  that fails, or is busy, is not noticed, and the swap unlinks the log with what it held.
* `hierarchy_compile.py:325` and `:312` (`Compile_sweep.cfg`, `RunningDraftIsKept`):
  `copy2` gives a draft the time of the live file; when that is over a day old the sweep
  of another compile takes the draft of a running one.
* `hierarchy_compile.py:328` (`Compile_torn.cfg`, `CopyHasItsLog`): the log copied after
  the file is whichever lies at the live path by then, also that of the draft which a
  swap has moved there.

### Divergences met while modelling

The properties of the newer modules are stated for what the code does keep; the
conditions in them name what it does not.

* `hierarchy_compile.py:284`: `_swap_lock` is meant to serialize swaps, but
  `server.py:1562` makes a compiler, and a lock, per request.  Two accepts at once, or
  an accept and a revert or sweep of its draft, can leave no live database or
  overwrite a backup (`"twoSwaps"` and `"sweptDraft"` in `upset`).  A compile whose client
  leaves while the copy runs in its thread is modelled as ended at once; the rest of that
  copy only adds files nobody names.
* A request that opens the live path while it is moved away creates an empty database
  there, whose log then stands beside the draft that is moved in (`"gapOpened"`).
* `screen.py:588`: the comment says that a watchdog's restart skips the scan; line
  1240 makes it scan again, which `HeardOrGivenUp` needs, and which queues captures
  that are in the queue already a second time.
* A transcription saved just before a pause or death, and not yet in the update queue,
  is never heard: the scan takes it for done (`cut` in `HeardOrGivenUp`).
* `screen.py:877`: a transcription task that crashed makes `stop` raise before it stops
  the capture worker; the observer stays running through the pause.
* `server.py:648`: two starts at the same time both pass the test of the status.  Two
  resumes leave two tasks of which the first has no handle; two fresh starts can use a
  system that the other is still setting up; a close clears the global `orchestrator`
  by name after an await, whoever it names by then, and leaves a loop that no stop
  reaches (`overlap` in `LoopIsKnown`).
* `server.py:623`: a system whose `setup` failed stays current; every later start with
  the same configuration makes an orchestrator on it that fails at once.  An
  orchestrator whose `setup` failed stays current too, and every later start resumes it
  and fails, until the configuration changes.  (`LoopIsKnown` holds: the status says
  so.)
* `goal_synthesis.py`: `_parse_response` never fills `dropped_goals`, so goals are
  deleted by the miss count only; goals merged away by the user are still offered to the
  model; an answer with an unknown activity id rolls the whole pass back.
* `assistant_service.py:346`: a failed save leaves the change in memory although the
  request is refused.
* `server.py:387`: a `close` that raises ends a shutdown with the orchestrator still named,
  its loop and the system as they were; in a start it is swallowed, and the orchestrator
  is forgotten without being closed (`Closed`).  The `except` of `stop_tempo`
  (`server.py:829`) has no counterpart: of what it awaits, the timers and tasks are
  gathered with their exceptions, and `orchestrator.stop` catches the errors of the save
  and of the observer.

## Proofs

Every theorem is about the specification the runs check, for every value of its
constants that satisfies the assumptions of its module; these exclude only what the
code excludes (bounds are natural numbers, distinct things have distinct names) and
TLC evaluates them in every run.  No theorem assumes anything else.  Each proof has the
same shape: an inductive invariant, named below, that the initial states have and every
action keeps, and of which the property is a part or a consequence.

| module | invariants of the runs proved | other results |
|---|---|---|
| `TempoPipeline_proofs`, of the buffer | `TypeOK`, `OneCallback`, `BatchIsOldest`, `PendingIsTimed`, `OneTimer` | `ImplementsBatchQueue` |
| `TempoPipeline_proofs`, of the pipeline | `PipelineTypeOK`, `SavedIsRecoverable`, `NothingStranded`, `RepeatedOnlyWhenCut` | `LeavesOnlyCovered`, `PendingUntilPass`, `LivingBufferIsBatchQueue` |
| `ActivityReconcile_proofs` | `ReconcileTypeOK`; `RevisionNamesContent`, of the edits alone and beside the job | `Layered` of the edits alone; `LayersKept`, `OrphanedOnlyByDelete`, `ProtectedUnlessCandidate` |
| `ActionBuilder_proofs` | `BuilderTypeOK`, `EveryOperationOncePerBuild`, `RelationsFit` | |
| `Resynthesis_proofs` | `SynthesisTypeOK` | `PassesKeepOwned`, `PlacesAreKept` |
| `HierarchyCompile_proofs` | `CompileTypeOK`, `LiveIsWhole`, `SettledIsKept`, `SwapLeavesSoundDatabase` | |
| `ScreenObserver_proofs` | `ScreenTypeOK`, `KeptUntilSettled` | |
| `AssistantService_proofs` | `AssistantTypeOK`, `AnswersAreCurrent` | |
| `RecordingSession_proofs` | `SessionTypeOK`, `LoopIsKnown` | |

**The buffer.**  `IInv` is type correctness, `PendingIsTimed`, and `CallbackInv`: a task
in the callback holds the lock, and its batch is a non-empty prefix of the buffer.
Mutual exclusion alone is not inductive, since the end of a callback releases the lock
whoever holds it.  The lemmas `StartTimerStep` to `TriggerStep` say what the shared
parts of the actions do to the tasks (`CallbacksAfter`: who can be in a callback
afterwards, and with which batch), so that the proof of each action is short.  The
refinement rests on `PrefixSplit`: what `del operations[:num_ops]` leaves, behind the
batch it removes, is the old buffer.  `OneTimer` needs that a timer is never inside
`add` (`TimersNeverAdd`): the timer that starts its successor is the one the buffer
holds, and whoever else starts one has cancelled that one first.

**The pipeline.**  `PipelineInv` adds to the buffer's invariant that a stage after the
first runs inside the callback, on a batch whose actions are committed
(`StagesInCallback`); so what `del` removes at its end is covered, which is
`LeavesOnlyCovered`.  `FileIsTimed` lets a restored buffer have its time.
`UntouchedUntilStop` and `OnlyAddingHolds` say that before the first stop nothing cuts
the loop between the commit of stage 1 and its adds, which is the reason
`NothingStranded` holds exactly that long.  `RepeatedOnlyWhenCut` is not inductive:
it needs that an operation is buffered once (`BufferedOnce`) and that what is buffered
and already covered is in a batch whose callback goes on (`BufferedUncovered`), so
that no later batch can have it.  `LivingBufferIsBatchQueue` carries the refinement
over to the composition: every step of the pipeline that is not a restart is a step of
`BatchQueue` or a stutter, so loops that are cancelled, paused and resumed and the
state file add no way to lose or reorder operations.

**The edits and the job.**  `RevisionNamesContent` is not inductive: a copy ahead of its
row could be caught up with by another content.  `CopiesBehind` adds that a copy of a
row is never ahead of it and that nothing was inserted by a transaction yet to come.
`RowsAdvance` says what all edits have in common (a row is unchanged, or has a later
revision, or is new), and `EditKeepsIInv` derives the invariant from it, so the proof of
each edit only shows its rows and links.  `ReconcileInv` adds what an open job has in
its working copy: rows of the database or later revisions of them in the same tiers
(`CopyIsLater`), every row the user protects and as it is worded, candidates aside
(`CopyProtects`), and a parent for what had one (`CopyKeepsParents`), which the
database's lock keeps true until the commit.  The layers of the copy hold as long as no
answer named another tier, and the parents as long as none named its own candidate;
`job.misled` carries both conditions to the commit, where `LayersKept` and
`OrphanedOnlyByDelete` exempt just that.  Neither needs the layers of the database as an
invariant: both say what one step does to a layered graph.
That the candidates a job takes are pending ones is an induction over the list, done as
the absence of a least counterexample (`PrefixesExist`, `CandidatesFacts`).

**Operations and actions.**  `BuilderInv` joins the properties with `PendingOnce` (the
buffer holds an operation once, so the places of a batch and its operations can be
exchanged for each other) and `OfStored` (actions are made of stored operations, so
their times exist).  `GroupsPartition` is the heart of `OncePerBuild`: a list of
segments that passes the checks of `_parse_action_items_from_response`, whatever its
order and length, partitions the batch, and any other list is replaced by the batch as
a whole.  `ChainsFacts` and `OverlapsFacts` say that a build relates new actions only,
each to one before it, and never a pair that `_create_co_occurs_relations` has related.

**Re-thinking the hierarchy.**  `SynthesisInv` joins the types with `MissesCounted` (the
stored count of a goal that is not the user's is the number of completed passes in a
row that left it out, so the threshold means what the comment in `_persist_goals` says)
and `OwedIsPaid` (while an answer is being refined nothing is owed).  That a pass gives
back what self-refine forgot is `RecoveredFacts`, that the recovered answer names all
the first one did, with `FinalFacts` and `PassRows`: no two items put links to one goal,
and a goal that an item is about is not deleted.  `NewIdsFit` says that the ids of new
rows are new and distinct, from the number of new places before each.  What a batch of
merges of any length does to the children of an entity is `HeirFacts`, by the absence of
a least counterexample over its prefixes (`HeirsExist`); `EditedKeeps` follows a link
from there through the other steps of `_apply_edits`.

**Compile and swap.**  `CompileInv` follows what is settled through a swap: it is in the
live file and its log, after the checkpoint in main files, after the move in a backup
(`SettledInFiles`).  `OneSwap`, `DraftIsThere`, `GapIsEmpty`, `CompilesOwnDrafts` and
`DraftsOfTokens` each hold as long as certain events have not happened (`upset`: two swaps
at once, a draft taken from a swap or from a running compile, a database created in the
gap, a torn copy, a log that was not folded), and these are the conditions the
properties have.  Each theorem has only those it needs: `SettledIsKept` survives torn
copies and swept drafts, `LiveIsWhole` survives two swaps and failed checkpoints.

**The screen observer.**  `Written`: a capture that is queued or in a worker's hands has
been saved before, so no later step begins its files anew, and a file beside its picture
tells a scan of it.  `FreshFiles` says that before the metadata there is the picture at
most, and `EmitsSaved` that metadata is removed after the transcription is saved.

**Recording.**  `SessionInv` has what a request owns before and after it creates it
(`Untouched`, `Wired`, `Created`), and the steps of each kind of request (`KindsFit`).
`InOrder` is the part that needs no start to overlap another request: such a start is
alone (`Alone`), so a loop it meets has ended (`OneLoop`), the status and the loop
disagree only while a stop is at work (`StatusFits`), and globals name what belongs
together (`CurrentFits`, `OpenIsCurrent`).  A close that raises leaves the orchestrator
named after a shutdown, which is why the end of `LoopIsKnown` asks that none is.

**The assistant.**  `AnswersAreCurrent` says nothing of requests that are still at work,
so the inductive invariant does.  `AdviceInv`: what is shown is of the current epoch,
and the context last looked at has the focus and the feedback of the settings, since
every change of them drops what is shown; feedback that ages can only take away from
what is suppressed.  `AtWorkAlone` and `AtWorkOnLast`: the session's lock lets one
request work, on the conversation as it found it, so its revision is still the length of
the conversation when its turn is appended.  `StoresInEpoch`: a change waits for the
thread that stores, which stores what was current when accepted.  `OneRevision` and
`TurnsOfRequests`: requests with one id name one revision, and a turn at place `i` is
that of a request for `i - 1`; two turns of one id would have one place.  A turn that a
crash leaves behind or not is covered by `TurnAppended` in both `StoreTurnStep` and
`RestartStep`.  `TypeInv` adds that what was spent of a bound is in its counter, that
the context in flight is the job's through every tick (`GateSteps`), and that a call
begins with a free slot only.

Checked by TLC only is liveness, which is out of the prover's reach:
`EveryOperationDelivered`, `LockIsHandedOn`, `CallbackEnds`, `EveryOperationActed`,
`HeardOrGivenUp` and `EverythingEnds`.

The runs with `SYMMETRY` check safety properties only.

## Plan

The composition of `RecordingSession` with `HierarchyCompile`, in which an accept meets
a start between its test of the status and the opening of the database.

Not modelled: `cli.py`, `providers.py`, `queries.py`, OS backends, OCR, prompts and the
desktop application, which are wiring, I/O and presentation without a protocol of
their own; `goal_propose.py` and `goal_reconcile.py`, which the pipeline no longer
runs; `trigger_goal_resynthesis` and `clear`, which nothing calls; the prompts' blocks,
scores, behavioural relations, previews and diffs inside the modelled parts.
