--------------------------- MODULE ScreenObserver ---------------------------
(* The screen observer: captures are saved to disk and queued for one            *)
(* transcription worker, which hands texts to the recording loop.  The capture   *)
(* worker starts and watches the transcription worker and is itself restarted    *)
(* after a crash; a pause stops both, a resume starts them again, and the        *)
(* process may die at any point (observers/screen.py, observers/observer.py).    *)
(*                                                                              *)
(* Captures are numbered in the order they are taken, which is that of their     *)
(* file names.  Pictures and texts are left out.                                 *)
EXTENDS Integers, FiniteSets, Sequences, SequencesExt

CONSTANTS
    MaxCaptures,     \* bound: captures
    Workers,         \* transcription tasks that may exist at one time
    UpdateLimit,     \* Observer._QUEUE_MAX_SIZE
    MaxRetries,      \* _MAX_PERMANENT_RETRIES
    MaxFaults        \* bound: crashes, pauses, deaths and removals together

ASSUME ScreenAssumption ==
    /\ MaxCaptures \in Nat /\ UpdateLimit \in Nat \ {0} /\ MaxRetries \in Nat /\ MaxFaults \in Nat
    /\ Workers \subseteq Nat \ {0}

Captures == 1..MaxCaptures
None == 0

VARIABLES
    files,    \* the files of each capture on disk
    frame,    \* where the task that saves the capture is
    queue,    \* _transcription_queue
    updates,  \* update_queue
    running,  \* Observer._running
    capture,  \* where the capture worker is
    worker,   \* the transcription tasks: where they are, with which capture
    txn,      \* _transcription_task
    scanned,  \* _transcription_worker_started_once
    tries,    \* _permanent_retry_counts
    phase,    \* recording, paused, or a step of stop
    left,     \* faults still to spend
    heard,    \* history: captures whose text reached the recording loop
    cut       \* history: a pause, a crash of the capture worker or a death has happened

svars == <<files, frame, queue, updates, running, capture, worker, txn, scanned,
           tries, phase, left, heard, cut>>

File == {"jpg", "meta", "torn", "json", "failed"}  \* "torn": an unreadable meta
Busy == {"calling", "emitting", "retry", "marking"}
Over == {"ended", "crashed"}

ScreenTypeOK ==
    /\ files \in [Captures -> SUBSET File]
    /\ frame \in [Captures -> {"no", "noting", "noted", "alone", "done"}]
    /\ queue \in Seq(Captures)
    /\ updates \in Seq(Captures) /\ Len(updates) <= UpdateLimit
    /\ running \in BOOLEAN /\ scanned \in BOOLEAN
    /\ capture \in {"off", "start", "top", "mid", "crashed"}
    /\ worker \in [Workers -> [pc : {"new", "scan", "found", "wait"} \cup Busy \cup Over,
                               item : Captures \cup {None}, found : SUBSET Captures]]
    /\ \A w \in Workers : (worker[w].item # None) = (worker[w].pc \in Busy)
    /\ txn \in Workers \cup {None}
    /\ tries \in [Captures -> 0..MaxRetries + 1]
    /\ phase \in {"on", "frames", "txn", "off"}
    /\ left \in 0..MaxFaults
    /\ heard \subseteq Captures /\ cut \in BOOLEAN

Idle(pc) == [pc |-> pc, item |-> None, found |-> {}]
Fault == left > 0 /\ left' = left - 1

ScreenInit ==
    /\ files = [c \in Captures |-> {}] /\ frame = [c \in Captures |-> "no"]
    /\ queue = <<>> /\ updates = <<>>
    /\ running = TRUE /\ capture = "start"
    /\ worker = [w \in Workers |-> Idle("ended")] /\ txn = None /\ scanned = FALSE
    /\ tries = [c \in Captures |-> 0]
    /\ phase = "on"
    /\ left = MaxFaults
    /\ heard = {} /\ cut = FALSE

-----------------------------------------------------------------------------
(* Saving a capture: debounce_callback and _persist_capture. *)

others == <<worker, txn, scanned, tries, running, capture, phase, updates, heard, cut>>

\* A change of the screen after a mouse event; the picture is saved.  Cancelled
\* before that, the capture is as good as never taken.
TakeCapture(c) ==
    /\ running
    /\ frame[c] = "no" /\ \A b \in 1..c - 1 : frame[b] # "no"
    /\ frame' = [frame EXCEPT ![c] = "noting"]
    /\ files' = [files EXCEPT ![c] = {"jpg"}]
    /\ UNCHANGED <<queue, left, others>>

\* The content filter deletes the picture.
FilterCapture(c) ==
    /\ frame[c] = "noting"
    /\ frame' = [frame EXCEPT ![c] = "done"]
    /\ files' = [files EXCEPT ![c] = {}]
    /\ UNCHANGED <<queue, left, others>>

\* The thread that writes the metadata goes on when its task is cancelled.
WriteMeta(c) ==
    /\ frame[c] \in {"noting", "alone"}
    /\ files' = [files EXCEPT ![c] = @ \cup {"meta"}]
    /\ frame' = [frame EXCEPT ![c] = IF frame[c] = "noting" THEN "noted" ELSE "done"]
    /\ UNCHANGED <<queue, left, others>>

QueueCapture(c) ==
    /\ frame[c] = "noted"
    /\ queue' = Append(queue, c)
    /\ frame' = [frame EXCEPT ![c] = "done"]
    /\ UNCHANGED <<files, left, others>>

\* External: the user clears screenshots while the application runs.
RemoveJpeg(c) ==
    /\ Fault /\ frame[c] = "done" /\ "jpg" \in files[c]
    /\ files' = [files EXCEPT ![c] = @ \ {"jpg"}]
    /\ UNCHANGED <<frame, queue, others>>

-----------------------------------------------------------------------------
(* The transcription worker. *)

outside == <<frame, running, capture, txn, phase, cut>>

\* The head of the worker's loop.
Looped == Idle(IF running THEN "wait" ELSE "ended")

\* _scan_orphaned_captures
Orphaned == {c \in Captures : /\ files[c] \cap {"meta", "torn"} # {} /\ "jpg" \in files[c]
                              /\ files[c] \cap {"json", "failed"} = {}}

BeginWorker(w) ==
    /\ worker[w].pc = "new"
    /\ worker' = [worker EXCEPT ![w] = IF scanned THEN Looped ELSE Idle("scan")]
    /\ scanned' = TRUE
    /\ UNCHANGED <<files, queue, updates, tries, left, heard, outside>>

Scan(w) ==
    /\ worker[w].pc = "scan"
    /\ worker' = [worker EXCEPT ![w] = [pc |-> "found", item |-> None, found |-> Orphaned]]
    /\ UNCHANGED <<files, queue, updates, tries, scanned, left, heard, outside>>

QueueOrphans(w) ==
    /\ worker[w].pc = "found"
    /\ \E s \in [1..Cardinality(worker[w].found) -> worker[w].found] :
          /\ \A i, j \in DOMAIN s : i < j => s[i] < s[j]
          /\ queue' = queue \o s
    /\ worker' = [worker EXCEPT ![w] = Looped]
    /\ UNCHANGED <<files, updates, tries, scanned, left, heard, outside>>

\* A capture without readable metadata or without its picture is passed over.
Receive(w) ==
    /\ worker[w].pc = "wait" /\ queue # <<>>
    /\ queue' = Tail(queue)
    /\ LET c == Head(queue)
           usable == "meta" \in files[c] /\ "jpg" \in files[c]
       IN /\ worker' = [worker EXCEPT ![w] = IF usable THEN [Idle("calling") EXCEPT !.item = c] ELSE Looped]
          /\ files' = [files EXCEPT ![c] = IF usable \/ "meta" \notin @ THEN @ ELSE @ \ {"meta"}]
    /\ UNCHANGED <<updates, tries, scanned, left, heard, outside>>

\* The wait ends without an item, and running is looked at again.
WaitTimesOut(w) ==
    /\ worker[w].pc = "wait" /\ ~running
    /\ worker' = [worker EXCEPT ![w] = Idle("ended")]
    /\ UNCHANGED <<files, queue, updates, tries, scanned, left, heard, outside>>

\* Mutant: the metadata is removed before the transcription is saved.
SaveAfterRemoval(w) ==
    /\ worker[w].pc = "calling"
    /\ files' = [files EXCEPT ![worker[w].item] = @ \ {"meta"}]
    /\ worker' = [worker EXCEPT ![w].pc = "emitting"]
    /\ UNCHANGED <<queue, updates, tries, scanned, left, heard, outside>>

\* The calls succeed, and the transcription is written.
SaveTranscription(w) ==
    /\ worker[w].pc = "calling"
    /\ files' = [files EXCEPT ![worker[w].item] = @ \cup {"json"}]
    /\ worker' = [worker EXCEPT ![w].pc = "emitting"]
    /\ UNCHANGED <<queue, updates, tries, scanned, left, heard, outside>>

\* Mutant: the update is put without waiting for room.
EmitAtOnce(w) ==
    LET c == worker[w].item IN
    /\ worker[w].pc = "emitting"
    /\ updates' = Append(updates, c)
    /\ files' = [files EXCEPT ![c] = @ \ {"meta"}]
    /\ tries' = [tries EXCEPT ![c] = 0]
    /\ worker' = [worker EXCEPT ![w] = Looped]
    /\ UNCHANGED <<queue, scanned, left, heard, outside>>

\* put waits for room; an empty text makes no update.
Emit(w) ==
    LET c == worker[w].item IN
    /\ worker[w].pc = "emitting"
    /\ \/ Len(updates) < UpdateLimit /\ updates' = Append(updates, c) /\ heard' = heard
       \/ updates' = updates /\ heard' = heard \cup {c}
    /\ files' = [files EXCEPT ![c] = @ \ {"meta"}]
    /\ tries' = [tries EXCEPT ![c] = 0]
    /\ worker' = [worker EXCEPT ![w] = Looped]
    /\ UNCHANGED <<queue, scanned, left, outside>>

TransientError(w) ==
    /\ worker[w].pc = "calling"
    /\ worker' = [worker EXCEPT ![w].pc = "retry"]
    /\ UNCHANGED <<files, queue, updates, tries, scanned, left, heard, outside>>

\* Any other exception: of a call, or of saving the second transcription.
PermanentError(w) ==
    LET c == worker[w].item IN
    /\ worker[w].pc = "calling"
    /\ \E written \in {{}, {"json"}} : files' = [files EXCEPT ![c] = @ \cup written]
    /\ tries' = [tries EXCEPT ![c] = IF @ > MaxRetries THEN @ ELSE @ + 1]
    /\ worker' = [worker EXCEPT ![w].pc = IF tries'[c] > MaxRetries THEN "marking" ELSE "retry"]
    /\ UNCHANGED <<queue, updates, scanned, left, heard, outside>>

Retry(w) ==
    /\ worker[w].pc = "retry"
    /\ queue' = Append(queue, worker[w].item)
    /\ worker' = [worker EXCEPT ![w] = Looped]
    /\ UNCHANGED <<files, updates, tries, scanned, left, heard, outside>>

MarkFailed(w) ==
    LET c == worker[w].item IN
    /\ worker[w].pc = "marking"
    /\ files' = [files EXCEPT ![c] = @ \cup {"failed"}]
    /\ tries' = [tries EXCEPT ![c] = 0]
    /\ worker' = [worker EXCEPT ![w] = Looped]
    /\ UNCHANGED <<queue, updates, scanned, left, heard, outside>>

\* Writing the marker raises inside the handler, which ends the worker.
WorkerCrashes(w) ==
    /\ worker[w].pc = "marking" /\ Fault
    /\ worker' = [worker EXCEPT ![w] = Idle("crashed")]
    /\ UNCHANGED <<files, queue, updates, tries, scanned, heard, outside>>

\* What a cancellation of worker w does: a capture in hand is queued again, and a
\* thread that was writing finishes.
Cancelled(w) ==
    LET c == worker[w].item
        written == CASE worker[w].pc = "calling" -> {{}, {"json"}}
                     [] worker[w].pc = "marking" -> {{"failed"}}
                     [] OTHER -> {{}}
    IN /\ worker' = [worker EXCEPT ![w] = Idle("ended")]
       /\ queue' = IF c = None THEN queue ELSE Append(queue, c)
       /\ \E new \in written :
             files' = IF c = None THEN files ELSE [files EXCEPT ![c] = @ \cup new]

-----------------------------------------------------------------------------
(* The capture worker: _worker_wrapper and _worker. *)

IsOver(w) == w # None => worker[w].pc \in Over

\* A new transcription task takes the handle.
NewWorker ==
    \E w \in Workers :
        /\ worker[w].pc \in Over /\ \A v \in Workers : worker[v].pc \in Over => w <= v
        /\ worker' = [worker EXCEPT ![w] = Idle("new")]
        /\ txn' = w

CaptureBegins ==
    /\ capture = "start" /\ capture' = "top"
    /\ IF IsOver(txn) THEN NewWorker ELSE UNCHANGED <<worker, txn>>
    /\ UNCHANGED <<files, frame, queue, updates, running, scanned, tries, phase, left, heard, cut>>

CaptureLoops ==
    /\ capture = "top"
    /\ capture' = IF running THEN "mid" ELSE "off"
    /\ UNCHANGED <<files, frame, queue, updates, running, worker, txn, scanned, tries, phase, left, heard, cut>>

\* Mutant: a worker that the watchdog restarts does not look for orphans.
WatchWithoutScan ==
    /\ capture = "mid" /\ capture' = "top"
    /\ IF txn # None /\ IsOver(txn)
       THEN NewWorker ELSE UNCHANGED <<worker, txn>>
    /\ UNCHANGED <<files, frame, queue, updates, running, scanned, tries, phase, left, heard, cut>>

\* A pass that ends with the watchdog of the transcription worker.
WatchWorker ==
    /\ capture = "mid" /\ capture' = "top"
    /\ IF txn # None /\ IsOver(txn)
       THEN NewWorker /\ scanned' = FALSE
       ELSE UNCHANGED <<worker, txn, scanned>>
    /\ UNCHANGED <<files, frame, queue, updates, running, tries, phase, left, heard, cut>>

\* No activity for _TRANSCRIPTION_WATCHDOG_SECONDS with captures waiting.
CancelStuck ==
    /\ capture = "mid" /\ capture' = "top"
    /\ ~IsOver(txn) /\ queue # <<>> /\ Fault
    /\ Cancelled(txn)
    /\ UNCHANGED <<frame, updates, running, txn, scanned, tries, phase, heard, cut>>

\* A pass that skips the watchdog: asleep, excluded, or a capture that failed.
SkipPass ==
    /\ capture = "mid" /\ capture' = "top"
    /\ UNCHANGED <<files, frame, queue, updates, running, worker, txn, scanned, tries, phase, left, heard, cut>>

CaptureCrashes ==
    /\ capture = "mid" /\ Fault
    /\ capture' = "crashed"
    /\ cut' = TRUE
    /\ UNCHANGED <<files, frame, queue, updates, running, worker, txn, scanned, tries, phase, heard>>

\* The wrapper has slept, and starts the worker again.
CaptureRestarts ==
    /\ capture = "crashed" /\ capture' = "start" /\ running' = TRUE
    /\ UNCHANGED <<files, frame, queue, updates, worker, txn, scanned, tries, phase, left, heard, cut>>

\* After _WORKER_MAX_RESTARTS, which the model does not count, it gives up.
CaptureEnds ==
    /\ capture = "crashed" /\ capture' = "off" /\ running' = FALSE
    /\ UNCHANGED <<files, frame, queue, updates, worker, txn, scanned, tries, phase, left, heard, cut>>

-----------------------------------------------------------------------------
(* The recording loop, the pause and the resume. *)

Consume ==
    /\ phase = "on" /\ updates # <<>>
    /\ heard' = heard \cup {Head(updates)}
    /\ updates' = Tail(updates)
    /\ UNCHANGED <<files, frame, queue, running, capture, worker, txn, scanned, tries, phase, left, cut>>

\* Observer.restart: nothing while the old capture task runs.
Restarted ==
    IF capture = "off" THEN running' = TRUE /\ capture' = "start"
    ELSE UNCHANGED <<running, capture>>

\* The loop restarts a dead observer.
RestartDead ==
    /\ phase = "on" /\ ~running /\ capture = "off"
    /\ Restarted
    /\ UNCHANGED <<files, frame, queue, updates, worker, txn, scanned, tries, phase, left, heard, cut>>

StopBegins ==
    /\ phase = "on" /\ Fault
    /\ phase' = "frames" /\ running' = FALSE
    /\ frame' = [c \in Captures |-> CASE frame[c] = "noting" -> "alone"
                                      [] frame[c] = "noted" -> "done"
                                      [] OTHER -> frame[c]]
    /\ cut' = TRUE
    /\ UNCHANGED <<files, queue, updates, capture, worker, txn, scanned, tries, heard>>

\* The capture task is cancelled, and what is queued for the loop is dropped.
Released ==
    /\ capture' = "off" /\ running' = FALSE /\ updates' = <<>> /\ phase' = "off"

StopWorker ==
    /\ phase = "frames"
    /\ CASE txn = None \/ (txn # None /\ worker[txn].pc = "ended") ->
              /\ Released /\ txn' = None /\ UNCHANGED <<worker, queue, files>>
         [] txn # None /\ worker[txn].pc = "crashed" ->  \* its exception ends stop here
              /\ phase' = "off" /\ UNCHANGED <<worker, queue, files, txn, capture, running, updates>>
         [] OTHER ->
              /\ Cancelled(txn) /\ phase' = "txn" /\ UNCHANGED <<txn, capture, running, updates>>
    /\ UNCHANGED <<frame, scanned, tries, left, heard, cut>>

StopEnds ==
    /\ phase = "txn" /\ Released /\ txn' = None
    /\ UNCHANGED <<files, frame, queue, worker, scanned, tries, left, heard, cut>>

Resume ==
    /\ phase = "off" /\ phase' = "on"
    /\ IF running THEN UNCHANGED <<running, capture>> ELSE Restarted
    /\ UNCHANGED <<files, frame, queue, updates, worker, txn, scanned, tries, left, heard, cut>>

\* The process dies and is started again; metadata being written may be torn.
Die ==
    /\ Fault
    /\ \E torn \in SUBSET {c \in Captures : frame[c] \in {"noting", "alone"}} :
          files' = [c \in Captures |-> files[c] \cup IF c \in torn THEN {"torn"} ELSE {}]
    /\ frame' = [c \in Captures |-> IF frame[c] = "no" THEN "no" ELSE "done"]
    /\ queue' = <<>> /\ updates' = <<>> /\ running' = TRUE /\ capture' = "start"
    /\ worker' = [w \in Workers |-> Idle("ended")] /\ txn' = None /\ scanned' = FALSE
    /\ tries' = [c \in Captures |-> 0] /\ phase' = "on"
    /\ cut' = TRUE
    /\ UNCHANGED heard

WorkerStep(w) ==
    \/ BeginWorker(w) \/ Scan(w) \/ QueueOrphans(w) \/ Receive(w) \/ WaitTimesOut(w)
    \/ Emit(w) \/ Retry(w) \/ MarkFailed(w)

ScreenNext ==
    \/ \E c \in Captures : \/ TakeCapture(c) \/ FilterCapture(c) \/ WriteMeta(c)
                           \/ QueueCapture(c) \/ RemoveJpeg(c)
    \/ \E w \in Workers : \/ WorkerStep(w) \/ SaveTranscription(w) \/ TransientError(w)
                          \/ PermanentError(w) \/ WorkerCrashes(w)
    \/ CaptureBegins \/ CaptureLoops \/ WatchWorker \/ CancelStuck \/ SkipPass
    \/ CaptureCrashes \/ CaptureRestarts \/ CaptureEnds
    \/ Consume \/ RestartDead \/ StopBegins \/ StopWorker \/ StopEnds \/ Resume \/ Die

\* Tasks of one event loop all get their turn, threads end, and the display is not
\* asleep for ever.  The service answers again and again, else the retries of a
\* transient error never end.
ScreenFairness ==
    /\ \A c \in Captures : WF_svars(WriteMeta(c) \/ QueueCapture(c))
    /\ \A w \in Workers : WF_svars(WorkerStep(w)) /\ SF_svars(SaveTranscription(w) \/ PermanentError(w))
    /\ WF_svars(CaptureBegins \/ CaptureLoops \/ CaptureRestarts \/ CaptureEnds)
    /\ SF_svars(WatchWorker)
    /\ WF_svars(Consume) /\ WF_svars(RestartDead)

ScreenSpec == ScreenInit /\ [][ScreenNext]_svars
FairScreenSpec == ScreenSpec /\ ScreenFairness

-----------------------------------------------------------------------------
(* Properties *)

\* A capture that was queued keeps its picture and its metadata on disk until it is
\* transcribed or given up, whatever is cancelled, crashes or dies: the scan of a
\* later start can find it (_transcription_worker, stop).
KeptUntilSettled ==
    \A c \in Captures :
        /\ c \in ToSet(queue) \/ \E w \in Workers : worker[w].item = c
        /\ "jpg" \in files[c]
        => files[c] \cap {"meta", "torn", "json", "failed"} # {}

\* No capture waits in a place where nobody looks: unless a pause, a crash of the
\* capture worker or a death cut it off, a capture whose metadata is on disk is
\* transcribed and heard by the recording loop, or given up or gone, through a crash
\* and restart of the transcription worker.  One is given up unmarked: its text was
\* saved, what follows failed too often, and the marker could not be written
\* (_transcription_worker, the watchdog in _worker).
HeardOrGivenUp ==
    \A c \in Captures :
        frame[c] = "noted" ~> \/ cut
                             \/ c \in heard
                             \/ "failed" \in files[c] \/ "jpg" \notin files[c]
                             \/ /\ "json" \in files[c]
                                /\ tries[c] > MaxRetries
=============================================================================
