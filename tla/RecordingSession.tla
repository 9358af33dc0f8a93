--------------------------- MODULE RecordingSession ---------------------------
(* Starting, pausing and resuming the recording: the start and stop routes and   *)
(* the shutdown of server.py, the globals they share, the systems and            *)
(* orchestrators they create, and the tasks that run the observation loop.       *)
(*                                                                              *)
(* A request creates at most one system, one orchestrator and one task, which    *)
(* carry its number.  A step of a request ends where the code awaits; some of    *)
(* these awaits return at once.  What the loop does is in TempoPipeline.         *)
EXTENDS Naturals, FiniteSets

CONSTANTS
    MaxRequests, \* bound: requests that are sent
    MaxAtWork    \* bound: requests at work at the same time

ASSUME SessionAssumption == MaxRequests \in Nat /\ MaxAtWork \in Nat

Requests == 1..MaxRequests
None == 0

VARIABLES
    recording, \* status["running"]
    system, orchestrator, handle,  \* the globals; handle is orchestrator_task
    systems,   \* what has become of each system
    orchs,     \* the orchestrators
    tasks,     \* the tasks of _run and _resume
    req,       \* the requests: where they are, and what they wait for
    overlap    \* history: a start was at work together with another request

rvars == <<recording, system, orchestrator, handle, systems, orchs, tasks, req, overlap>>

Kinds == {"start", "stop", "shutdown"}
Idle == {"unsent", "over"}
AtWork == {"starting", "setting", "create", "wiring", "stopping", "pausing",
           "close", "closing", "reap", "reaping", "clean", "cleaning", "branch"}

\* The types; the system and the task of a global exist, the current orchestrator
\* has not been closed, and a loop runs on a system (server.py's globals).
SessionTypeOK ==
    /\ recording \in BOOLEAN /\ overlap \in BOOLEAN
    /\ {system, orchestrator, handle} \subseteq Requests \cup {None}
    /\ systems \in [Requests -> {"no", "setup", "up", "half", "cleaned", "left"}]
    /\ orchs \in [Requests -> [of : Requests \cup {None}, ready : BOOLEAN,
                               running : BOOLEAN, closed : BOOLEAN]]
    /\ tasks \in [Requests -> [pc : {"no", "new", "loop", "done"}, cancelled : BOOLEAN,
                               on : Requests \cup {None}]]
    /\ req \in [Requests -> [pc : Idle \cup AtWork, kind : Kinds,
                             at : Requests \cup {None}, then : {"reap", "create"}]]
    /\ system # None => systems[system] # "no"
    /\ orchestrator # None => ~orchs[orchestrator].closed
    /\ handle # None => tasks[handle].pc # "no"
    /\ \A t \in Requests : tasks[t].pc = "loop" => orchs[tasks[t].on].of # None

SessionInit ==
    /\ recording = FALSE
    /\ system = None /\ orchestrator = None /\ handle = None
    /\ systems = [r \in Requests |-> "no"]
    /\ orchs = [r \in Requests |-> [of |-> None, ready |-> FALSE, running |-> FALSE, closed |-> FALSE]]
    /\ tasks = [r \in Requests |-> [pc |-> "no", cancelled |-> FALSE, on |-> None]]
    /\ req = [r \in Requests |-> [pc |-> "unsent", kind |-> "start", at |-> None, then |-> "reap"]]
    /\ overlap = FALSE

-----------------------------------------------------------------------------
(* Requests *)

At(r, pc) == req[r].pc = pc
Go(r, pc) ==
    req' = [req EXCEPT ![r] = IF pc = "over" THEN [@ EXCEPT !.pc = pc, !.at = None, !.then = "reap"]
                                             ELSE [@ EXCEPT !.pc = pc]]
Await(r, what, pc) == req' = [req EXCEPT ![r].pc = pc, ![r].at = what]
Running(o) == o # None /\ orchs[o].running

Sent(r, kind, pc) ==
    /\ At(r, "unsent") /\ \A p \in 1..r - 1 : req[p].pc # "unsent"
    /\ \A p \in Requests : req[p].pc # "unsent" => req[p].kind # "shutdown"
    /\ pc # "over" => Cardinality({p \in Requests : req[p].pc \in AtWork}) < MaxAtWork
    /\ req' = [req EXCEPT ![r] = [pc |-> pc, kind |-> kind, at |-> None,
                                  then |-> "reap"]]
    /\ overlap' = (overlap \/ (pc # "over" /\ \E p \in Requests :
                                   req[p].pc \in AtWork /\ "start" \in {kind, req[p].kind}))
    /\ UNCHANGED <<recording, system, orchestrator, handle, systems, orchs, tasks>>

\* Mutant: a start is accepted whatever runs.
StartUnchecked(r) == Sent(r, "start", "starting")

\* start_tempo looks at the status, and does so once.
Start(r) == Sent(r, "start", IF recording THEN "over" ELSE "starting")

Stop(r) == Sent(r, "stop", IF recording \/ Running(orchestrator) THEN "stopping" ELSE "over")

\* The server has answered what it was asked, and ends.
Shutdown(r) ==
    /\ \A p \in Requests : req[p].pc \in Idle
    /\ Sent(r, "shutdown", "close")

\* The handler of start_tempo's exceptions.
Fail(r) == Go(r, "over") /\ recording' = FALSE

\* Another provider is asked for than that of the system: everything is torn down.
CompareConfig(r) ==
    /\ At(r, "starting")
    /\ \/ Go(r, "branch")
       \/ system # None /\ Go(r, "close")
    /\ UNCHANGED <<recording, system, orchestrator, handle, systems, orchs, tasks, overlap>>

\* stop_tempo pauses the orchestrator, whose loop ends when it looks at running.
PauseOrchestrator(r) ==
    /\ At(r, "stopping")
    /\ IF Running(orchestrator)
       THEN orchs' = [orchs EXCEPT ![orchestrator].running = FALSE] /\ Go(r, "pausing")
       ELSE Go(r, "reap") /\ UNCHANGED orchs
    /\ UNCHANGED <<recording, system, orchestrator, handle, systems, tasks, overlap>>

\* Nothing that stop awaits raises: what the timers and tasks raise is gathered, and the
\* errors of the save and of the observer are caught.
Paused(r) ==
    /\ At(r, "pausing") /\ Go(r, "reap")
    /\ UNCHANGED <<recording, system, orchestrator, handle, systems, orchs, tasks, overlap>>

\* close stops the orchestrator, unless it has been closed ...
CloseOrchestrator(r) ==
    /\ At(r, "close")
    /\ IF orchestrator = None \/ orchs[orchestrator].closed
       THEN Go(r, req[r].then) /\ orchestrator' = None /\ UNCHANGED orchs
       ELSE /\ orchs' = [orchs EXCEPT ![orchestrator].running = FALSE]
            /\ Await(r, orchestrator, "closing")
            /\ UNCHANGED orchestrator
    /\ UNCHANGED <<recording, system, handle, systems, tasks, overlap>>

\* Mutant: the global goes on naming the closed orchestrator.
ClosedKeepsGlobal(r) ==
    /\ At(r, "closing")
    /\ orchs' = [orchs EXCEPT ![req[r].at].ready = FALSE, ![req[r].at].closed = TRUE]
    /\ Go(r, req[r].then)
    /\ UNCHANGED <<recording, system, orchestrator, handle, systems, tasks, overlap>>

\* ... and takes its pipeline, unless closing that raises.  A start swallows the error:
\* the global is cleared, whatever it names by now, and what follows is the task, or in
\* a fresh start the next orchestrator.  A shutdown ends with it.
Closed(r) ==
    /\ At(r, "closing")
    /\ \/ /\ orchs' = [orchs EXCEPT ![req[r].at].ready = FALSE, ![req[r].at].closed = TRUE]
          /\ orchestrator' = None /\ Go(r, req[r].then)
       \/ /\ req[r].kind = "start" /\ UNCHANGED orchs
          /\ orchestrator' = None /\ Go(r, req[r].then)
       \/ /\ req[r].kind = "shutdown" /\ UNCHANGED <<orchs, orchestrator>>
          /\ Go(r, "over")
    /\ UNCHANGED <<recording, system, handle, systems, tasks, overlap>>

\* Once the task is done: the end of a stop.
Reaped(r, pc) ==
    /\ handle' = None
    /\ Go(r, IF req[r].kind = "stop" THEN "over" ELSE pc)
    /\ recording' = IF req[r].kind = "stop" THEN FALSE ELSE recording

\* Mutant: the task is awaited no longer.
ReapAtOnce(r) ==
    /\ At(r, "reap")
    /\ Reaped(r, "clean")
    /\ UNCHANGED <<system, orchestrator, systems, orchs, tasks, overlap>>

\* The task is cancelled; one that has not begun never does.
Reap(r) ==
    /\ At(r, "reap")
    /\ IF handle = None
       THEN Reaped(r, "clean") /\ UNCHANGED tasks
       ELSE /\ tasks' = CASE tasks[handle].pc = "new"  -> [tasks EXCEPT ![handle].pc = "done"]
                          [] tasks[handle].pc = "loop" -> [tasks EXCEPT ![handle].cancelled = TRUE]
                          [] OTHER -> tasks
            /\ Await(r, handle, "reaping")
            /\ UNCHANGED <<recording, handle>>
    /\ UNCHANGED <<system, orchestrator, systems, orchs, overlap>>

TaskReaped(r) ==
    /\ At(r, "reaping") /\ tasks[req[r].at].pc = "done"
    /\ Reaped(r, "clean")
    /\ UNCHANGED <<system, orchestrator, systems, orchs, tasks, overlap>>

CleanUp(r) ==
    /\ At(r, "clean")
    /\ IF system = None
       THEN Go(r, IF req[r].kind = "start" THEN "branch" ELSE "over")
       ELSE Await(r, system, "cleaning")
    /\ UNCHANGED <<recording, system, orchestrator, handle, systems, orchs, tasks, overlap>>

\* The observer, the database and the providers are closed.  If one of them raises,
\* the rest stays open; a start drops the system all the same.
CleanedUp(r) ==
    /\ At(r, "cleaning")
    /\ \E end \in {"cleaned", "left"} :
        /\ systems' = [systems EXCEPT ![req[r].at] = end]
        /\ system' = IF end = "left" /\ req[r].kind = "shutdown" THEN system ELSE None
    /\ Go(r, IF req[r].kind = "start" THEN "branch" ELSE "over")
    /\ UNCHANGED <<recording, orchestrator, handle, orchs, tasks, overlap>>

-----------------------------------------------------------------------------
(* The branches of a start *)

\* A task is created, and the status says that Tempo runs.
Launch(r) ==
    /\ tasks' = [tasks EXCEPT ![r].pc = "new"]
    /\ handle' = r
    /\ recording' = TRUE
    /\ Go(r, "over")

Resumable(o) == o # None /\ ~orchs[o].running
Fresh(r) == req' = [req EXCEPT ![r].pc = "close", ![r].then = "create"]

\* An orchestrator that does not run is resumed, be it paused or failed.
ResumePaused(r) ==
    /\ At(r, "branch") /\ Resumable(orchestrator)
    /\ IF system = None
       THEN Fail(r) /\ UNCHANGED <<tasks, handle>>
       ELSE Launch(r)
    /\ UNCHANGED <<system, orchestrator, systems, orchs, overlap>>

\* _init_system refuses the configuration, or makes a system the current one and
\* goes on to set it up.
InitSystem(r) ==
    /\ At(r, "branch") /\ ~Resumable(orchestrator)
    /\ \/ system # None /\ Fresh(r) /\ UNCHANGED <<recording, system, systems>>
       \/ system = None /\ Fail(r) /\ UNCHANGED <<system, systems>>
       \/ /\ system = None
          /\ system' = r /\ systems' = [systems EXCEPT ![r] = "setup"]
          /\ Go(r, "setting") /\ UNCHANGED recording
    /\ UNCHANGED <<orchestrator, handle, orchs, tasks, overlap>>

\* TempoSystem.setup; a system that fails is kept.
SetUp(r) ==
    /\ At(r, "setting")
    /\ \/ systems' = [systems EXCEPT ![r] = "half"] /\ Fail(r)
       \/ systems' = [systems EXCEPT ![r] = "up"] /\ Fresh(r) /\ UNCHANGED recording
    /\ UNCHANGED <<system, orchestrator, handle, orchs, tasks, overlap>>

\* The orchestrator is the current one before its set-up has begun.
CreateOrchestrator(r) ==
    /\ At(r, "create")
    /\ orchestrator' = r
    /\ orchs' = [orchs EXCEPT ![r].of = system]
    /\ IF system = None THEN Fail(r) ELSE Go(r, "wiring") /\ UNCHANGED recording
    /\ UNCHANGED <<system, handle, systems, tasks, overlap>>

\* PipelineOrchestrator.setup, and the start of the loop; one that fails is kept.
WireOrchestrator(r) ==
    /\ At(r, "wiring")
    /\ \/ orchs' = [orchs EXCEPT ![r].ready = TRUE, ![r].closed = FALSE] /\ Launch(r)
       \/ Fail(r) /\ UNCHANGED <<orchs, tasks, handle>>
    /\ UNCHANGED <<system, orchestrator, systems, overlap>>

-----------------------------------------------------------------------------
(* The tasks *)

\* _run and _resume start the orchestrator that is the current one by then.  It
\* raises if it has no pipeline, and unless it runs, if its system has no observer.
Ready(o) == o # None /\ orchs[o].ready
CanLoop(o) == Ready(o) /\ systems[orchs[o].of] \in {"up", "left"}

TaskBegins(t) ==
    /\ tasks[t].pc = "new"
    /\ IF Ready(orchestrator) /\ Running(orchestrator)
       THEN tasks' = [tasks EXCEPT ![t].pc = "done"] /\ UNCHANGED <<orchs, recording>>
       ELSE IF CanLoop(orchestrator)
       THEN /\ tasks' = [tasks EXCEPT ![t].pc = "loop", ![t].on = orchestrator]
            /\ orchs' = [orchs EXCEPT ![orchestrator].running = TRUE]
            /\ UNCHANGED recording
       ELSE /\ tasks' = [tasks EXCEPT ![t].pc = "done"]
            /\ recording' = FALSE
            /\ UNCHANGED orchs
    /\ UNCHANGED <<system, orchestrator, handle, systems, req, overlap>>

\* The loop looks at running between two observations.
LoopEnds(t) ==
    /\ tasks[t].pc = "loop" /\ ~orchs[tasks[t].on].running
    /\ tasks' = [tasks EXCEPT ![t].pc = "done"]
    /\ UNCHANGED <<recording, system, orchestrator, handle, systems, orchs, req, overlap>>

LoopCancelled(t) ==
    /\ tasks[t].pc = "loop" /\ tasks[t].cancelled
    /\ tasks' = [tasks EXCEPT ![t].pc = "done"]
    /\ orchs' = [orchs EXCEPT ![tasks[t].on].running = FALSE]
    /\ UNCHANGED <<recording, system, orchestrator, handle, systems, req, overlap>>

SessionNext ==
    \E r \in Requests :
        \/ Start(r) \/ Stop(r) \/ Shutdown(r)
        \/ CompareConfig(r) \/ CloseOrchestrator(r) \/ Closed(r)
        \/ PauseOrchestrator(r) \/ Paused(r)
        \/ Reap(r) \/ TaskReaped(r) \/ CleanUp(r) \/ CleanedUp(r)
        \/ ResumePaused(r) \/ InitSystem(r) \/ SetUp(r)
        \/ CreateOrchestrator(r) \/ WireOrchestrator(r)
        \/ TaskBegins(r) \/ LoopEnds(r) \/ LoopCancelled(r)

SessionSpec == SessionInit /\ [][SessionNext]_rvars

-----------------------------------------------------------------------------
(* Properties *)

Alive == {t \in Requests : tasks[t].pc \in {"new", "loop"}}
Quiet == \A r \in Requests : req[r].pc \in Idle
Ended == \E r \in Requests : At(r, "over") /\ req[r].kind = "shutdown"

\* Unless a start is at work together with another request, which its check of the
\* status does not exclude, there is one loop at most, and it is the one that a stop
\* would cancel.  When no request is at work, Tempo runs just as it says it does, on
\* the current orchestrator and system; and a server that has ended, and could close
\* its orchestrator, leaves neither a loop nor an open system behind (start_tempo,
\* stop_tempo, shutdown_resources).
LoopIsKnown ==
    ~overlap =>
        /\ Alive \subseteq {handle}
        /\ Quiet /\ ~Ended =>
              /\ recording <=> Alive # {}
              /\ \A t \in Alive :
                    /\ orchestrator # None /\ ~orchs[orchestrator].closed
                    /\ orchs[orchestrator].of = system
                    /\ tasks[t].pc = "loop" => tasks[t].on = orchestrator
        /\ Ended /\ orchestrator = None =>
              Alive = {} /\ \A s \in Requests : systems[s] \in {"no", "cleaned", "left"}
=============================================================================
