------------------------ MODULE RecordingSession_proofs ------------------------
(***************************************************************************)
(* Proofs about starting, pausing and resuming the recording, for any      *)
(* number of requests, of which any number may be at work at once: type    *)
(* correctness, and that unless a start overlaps another request the one   *)
(* loop is known to the server and agrees with what its status says.       *)
(***************************************************************************)
EXTENDS RecordingSession, TLAPS

-----------------------------------------------------------------------------
(* The inductive invariant *)

\* Who has not come to its own orchestrator and task has left them as they were.
Untouched ==
    \A r \in Requests :
        /\ req[r].pc \notin {"wiring", "over"} =>
              /\ orchs[r].of = None
              /\ ~orchs[r].ready /\ ~orchs[r].running /\ ~orchs[r].closed
        /\ req[r].pc # "over" => tasks[r].pc = "no"

\* What an orchestrator is given and when; a task is cancelled in its loop only.
Wired ==
    /\ \A r \in Requests : orchs[r].ready \/ req[r].pc = "wiring" => orchs[r].of # None
    /\ \A t \in Requests : /\ tasks[t].pc = "loop" => tasks[t].on \in Requests
                           /\ tasks[t].cancelled => tasks[t].pc \in {"loop", "done"}

\* The current orchestrator, and one that is being closed, has been created.
Created ==
    /\ orchestrator # None => req[orchestrator].pc \in {"wiring", "over"}
    /\ \A r \in Requests : req[r].pc = "closing" =>
          req[r].at \in Requests /\ req[req[r].at].pc \in {"wiring", "over"}

\* The steps that each kind of request goes through.
KindsFit ==
    \A r \in Requests :
        /\ req[r].kind = "stop" => req[r].pc \in {"stopping", "pausing", "reap", "reaping", "over"}
        /\ req[r].kind = "shutdown" =>
              req[r].pc \in {"close", "closing", "reap", "reaping", "clean", "cleaning", "over"}
        /\ req[r].kind = "start" => req[r].pc \notin {"stopping", "pausing"}
        /\ req[r].then = "create" =>
              req[r].kind = "start" /\ req[r].pc \in {"close", "closing", "create", "wiring"}
        /\ req[r].pc \in {"create", "wiring"} => req[r].then = "create"

Starting(r) == req[r].kind = "start" /\ req[r].pc \in AtWork
Stopping(r) == req[r].kind = "stop" /\ req[r].pc \in AtWork
ShutDown == \E r \in Requests : req[r].kind = "shutdown"
BeingStopped == ShutDown \/ \E r \in Requests : Stopping(r)

\* A start that overlaps nothing and a shutdown are at work alone.
Alone ==
    \A r, p \in Requests : r # p /\ (Starting(r) \/ req[r].kind = "shutdown") => req[p].pc \in Idle

\* There is one loop at most, the one the global names; none while a start is at work
\* or when a shutdown that closed its orchestrator has waited for it.
OneLoop ==
    /\ Alive \subseteq {handle}
    /\ \A r \in Requests : req[r].pc = "reaping" => handle \in {req[r].at, None}
    /\ \A r \in Requests :
          \/ Starting(r)
          \/ /\ req[r].kind = "shutdown"
             /\ req[r].pc \in {"clean", "cleaning"} \/ (req[r].pc = "over" /\ orchestrator = None)
          => Alive = {}

\* The status, the loop and its orchestrator agree unless a stop is at work.
StatusFits ==
    /\ ~recording => Alive = {}
    /\ recording /\ Alive = {} => BeingStopped
    /\ \A t \in Requests : tasks[t].pc = "loop" /\ (tasks[t].cancelled \/ ~orchs[tasks[t].on].running)
                           => BeingStopped
    /\ \A o \in Requests : orchs[o].running => \E t \in Requests : tasks[t].pc = "loop" /\ tasks[t].on = o

\* The current orchestrator belongs to the current system, and the loop runs on it.
CurrentFits ==
    /\ orchestrator # None => system # None /\ orchs[orchestrator].of = system
    /\ ShutDown \/ \A t \in Alive : /\ orchestrator # None
                                    /\ tasks[t].pc = "loop" => tasks[t].on = orchestrator
    /\ \A r \in Requests : req[r].kind # "stop" /\ req[r].pc \in {"reap", "reaping", "clean", "cleaning", "setting", "create"}
                           => orchestrator = None
    /\ \A r \in Requests : req[r].kind = "shutdown" /\ req[r].pc = "closing" => orchestrator # None
    /\ \A r \in Requests :
          /\ req[r].then = "create" => system # None
          /\ req[r].pc = "setting" => system = r
          /\ req[r].pc = "wiring" => orchestrator = r

\* Only the current system is open, and a cleanup closes it.
Open == {s \in Requests : systems[s] \in {"setup", "up", "half"}}
OpenIsCurrent ==
    /\ Open \subseteq {system}
    /\ \A r \in Requests : req[r].pc = "cleaning" => req[r].at = system
    /\ \A r \in Requests : req[r].kind = "shutdown" /\ req[r].pc = "over" /\ orchestrator = None => Open = {}

InOrder == Alone /\ OneLoop /\ StatusFits /\ CurrentFits /\ OpenIsCurrent

SessionInv ==
    /\ SessionTypeOK /\ Untouched /\ Wired /\ Created /\ KindsFit
    /\ ~overlap => InOrder

-----------------------------------------------------------------------------
(* The types *)

Places == Idle \cup AtWork
Whats == Requests \cup {None}
Thens == {"reap", "create"}
ReqRec == [pc : Places, kind : Kinds, at : Whats, then : Thens]
OrchRec == [of : Requests \cup {None}, ready : BOOLEAN, running : BOOLEAN, closed : BOOLEAN]
TaskRec == [pc : {"no", "new", "loop", "done"}, cancelled : BOOLEAN, on : Requests \cup {None}]

Typed ==
    /\ recording \in BOOLEAN /\ overlap \in BOOLEAN
    /\ system \in Requests \cup {None}
    /\ orchestrator \in Requests \cup {None}
    /\ handle \in Requests \cup {None}
    /\ systems \in [Requests -> {"no", "setup", "up", "half", "cleaned", "left"}]
    /\ orchs \in [Requests -> OrchRec]
    /\ tasks \in [Requests -> TaskRec]
    /\ req \in [Requests -> ReqRec]

Pointed ==
    /\ system # None => systems[system] # "no"
    /\ orchestrator # None => ~orchs[orchestrator].closed
    /\ handle # None => tasks[handle].pc # "no"
    /\ \A t \in Requests : tasks[t].pc = "loop" => orchs[tasks[t].on].of # None

LEMMA TypeParts == SessionTypeOK <=> Typed /\ Pointed
BY DEF SessionTypeOK, Typed, Pointed, ReqRec, Places, Whats, Thens, OrchRec, TaskRec

\* What is kept whether starts overlap or not.
Always == Typed /\ Pointed /\ Untouched /\ Wired /\ Created /\ KindsFit

LEMMA InvParts ==
    /\ SessionInv <=> Always /\ (~overlap => InOrder)
    /\ Always' /\ (~overlap' => InOrder') => SessionInv'
<1>1. SessionTypeOK' <=> Typed' /\ Pointed'
  BY DEF SessionTypeOK, Typed, Pointed, ReqRec, Places, Whats, Thens, OrchRec, TaskRec
<1> QED BY <1>1, TypeParts DEF SessionInv, Always

LEMMA NoneIsNoRequest == None \notin Requests
BY SessionAssumption DEF None, Requests

\* A request goes on with other values in its record.
Moves(r, pc, at, then) ==
    /\ req' \in [Requests -> ReqRec]
    /\ req'[r].pc = pc /\ req'[r].kind = req[r].kind /\ req'[r].at = at /\ req'[r].then = then
    /\ \A p \in Requests : p # r => req'[p] = req[p]

LEMMA GoFacts ==
    ASSUME Typed, NEW r \in Requests, NEW pc \in Places, Go(r, pc)
    PROVE  /\ pc = "over" => Moves(r, pc, None, "reap")
           /\ pc # "over" => Moves(r, pc, req[r].at, req[r].then)
<1>0. req \in [Requests -> ReqRec] /\ None \in Whats /\ "reap" \in Thens
  BY DEF Typed, Whats, Thens
<1>1. CASE pc = "over"
  <2>1. req' = [req EXCEPT ![r] = [req[r] EXCEPT !.pc = pc, !.at = None, !.then = "reap"]]
    BY <1>1 DEF Go
  <2> QED BY <1>0, <1>1, <2>1 DEF Moves, ReqRec
<1>2. CASE pc # "over"
  <2>1. req' = [req EXCEPT ![r] = [req[r] EXCEPT !.pc = pc]]
    BY <1>2 DEF Go
  <2> QED BY <1>0, <1>2, <2>1 DEF Moves, ReqRec
<1> QED BY <1>1, <1>2

LEMMA AwaitFacts ==
    ASSUME Typed, NEW r \in Requests, NEW pc \in Places, NEW what \in Whats,
           Await(r, what, pc)
    PROVE  Moves(r, pc, what, req[r].then)
BY DEF Typed, Await, Moves, ReqRec

LEMMA FreshFacts ==
    ASSUME Typed, NEW r \in Requests, Fresh(r)
    PROVE  Moves(r, "close", req[r].at, "create")
<1>1. "close" \in Places /\ "create" \in Thens
  BY DEF Places, AtWork, Thens
<1> QED BY <1>1 DEF Typed, Fresh, Moves, ReqRec

\* An orchestrator is told to stop.
Stops(o) ==
    /\ orchs' \in [Requests -> OrchRec]
    /\ orchs'[o].of = orchs[o].of /\ (orchs'[o].ready <=> orchs[o].ready)
    /\ (orchs'[o].closed <=> orchs[o].closed) /\ ~orchs'[o].running
    /\ \A p \in Requests : p # o => orchs'[p] = orchs[p]

LEMMA OrchStops ==
    ASSUME Typed, NEW o \in Requests, orchs' = [orchs EXCEPT ![o].running = FALSE]
    PROVE  Stops(o)
<1>1. FALSE \in BOOLEAN
  OBVIOUS
<1> QED BY <1>1 DEF Typed, Stops, OrchRec

LEMMA CreatedKept ==
    ASSUME Typed, Created, NEW r \in Requests, NEW pc, NEW at, NEW then, Moves(r, pc, at, then),
           req[r].pc = "wiring" => pc = "over", req[r].pc # "over",
           orchestrator' \in {orchestrator, None}, pc # "closing"
    PROVE  Created'
<1>1. \A p \in Requests : req[p].pc \in {"wiring", "over"} => req'[p].pc \in {"wiring", "over"}
  BY DEF Moves
<1>2. \A p \in Requests : req'[p].pc = "closing" => req[p].pc = "closing" /\ req'[p].at = req[p].at
  BY DEF Moves
<1> QED BY <1>1, <1>2 DEF Created, Typed

-----------------------------------------------------------------------------
(* Requests *)

\* What the routes have in common when a request is sent.
LEMMA SentKeeps ==
    ASSUME SessionInv, NEW r \in Requests, NEW kind \in Kinds, NEW pc \in {"over", "starting", "stopping", "close"},
           Sent(r, kind, pc),
           kind = "start" => pc \in {"over", "starting"} /\ (pc # "over" => ~recording),
           kind = "stop" => pc \in {"over", "stopping"},
           kind = "shutdown" => pc = "close" /\ \A p \in Requests : req[p].pc \in Idle
    PROVE  SessionInv'
<1> Always /\ (~overlap => InOrder)
  BY InvParts
<1>1. UNCHANGED <<recording, system, orchestrator, handle, systems, orchs, tasks>>
  BY DEF Sent
<1>2. /\ req' \in [Requests -> ReqRec]
      /\ req'[r].pc = pc /\ req'[r].kind = kind /\ req'[r].at = None /\ req'[r].then = "reap"
      /\ \A p \in Requests : p # r => req'[p] = req[p]
  <2> DEFINE m == [pc |-> pc, kind |-> kind, at |-> None, then |-> "reap"]
  <2>1. m \in ReqRec /\ m.pc = pc /\ m.kind = kind /\ m.at = None /\ m.then = "reap"
    BY DEF ReqRec, Places, Idle, AtWork, Whats, Thens
  <2>2. req' = [req EXCEPT ![r] = m]
    BY DEF Sent
  <2> HIDE DEF m
  <2> QED BY <2>1, <2>2 DEF Always, Typed
<1>3. /\ req[r].pc = "unsent" /\ ~ShutDown
      /\ overlap' = (overlap \/ (pc # "over" /\ \E p \in Requests :
                                   req[p].pc \in AtWork /\ "start" \in {kind, req[p].kind}))
  BY DEF Sent, At, ShutDown, Always, KindsFit
<1>8. Always'
  <2>1. Typed'
    <3>1. overlap' \in BOOLEAN
      BY <1>3 DEF Always, Typed
    <3> QED BY <1>1, <1>2, <3>1 DEF Always, Typed
  <2>2. Pointed' BY <1>1, <1>2, <1>3 DEF Always, Pointed
  <2>3. Untouched' BY <1>1, <1>2, <1>3 DEF Always, Untouched
  <2>4. Wired' BY <1>1, <1>2, <1>3 DEF Always, Wired
  <2>5. Created'
    <3>1. \A p \in Requests : req[p].pc \in {"wiring", "over"} => req'[p].pc \in {"wiring", "over"}
      BY <1>2, <1>3
    <3>2. \A p \in Requests : req'[p].pc = "closing" => req[p].pc = "closing" /\ req'[p].at = req[p].at
      BY <1>2, <1>3
    <3> QED BY <1>1, <3>1, <3>2 DEF Always, Created, Typed
  <2>6. KindsFit' BY <1>1, <1>2, <1>3 DEF Always, KindsFit
  <2> QED BY <2>1, <2>2, <2>3, <2>4, <2>5, <2>6 DEF Always
<1>9. ASSUME ~overlap' PROVE InOrder'
  <2>0. InOrder BY <1>3, <1>9
  <2>1. Alone'
    <3>1. ASSUME kind = "shutdown" PROVE \A p \in Requests : p # r => req'[p].pc \in Idle
      BY <1>2, <3>1
    <3>2. ASSUME kind # "shutdown", NEW q \in Requests, NEW p \in Requests, q # p,
                 Starting(q)' \/ req'[q].kind = "shutdown"
          PROVE  req'[p].pc \in Idle
      <4>1. ASSUME NEW s \in Requests PROVE req[s].pc \in Idle \cup AtWork
        BY DEF Always, Typed, ReqRec, Places
      <4>2. CASE q = r
        BY <1>2, <1>3, <1>9, <3>2, <4>1, <4>2 DEF Starting, AtWork
      <4>3. CASE q # r
        <5>1. Starting(q) BY <1>2, <1>3, <3>2, <4>3 DEF Starting, ShutDown
        <5>2. CASE p = r
          BY <1>2, <1>3, <1>9, <3>2, <5>1, <5>2 DEF Starting, Idle
        <5>3. CASE p # r
          BY <1>2, <2>0, <3>2, <5>1, <5>3 DEF InOrder, Alone
        <5> QED BY <5>2, <5>3
      <4> QED BY <4>2, <4>3
    <3>3. ASSUME kind = "shutdown", NEW q \in Requests, NEW p \in Requests, q # p,
                 Starting(q)' \/ req'[q].kind = "shutdown"
          PROVE  req'[p].pc \in Idle
      <4>1. q = r
        BY <1>2, <1>3, <3>1, <3>3 DEF Starting, Idle, AtWork, ShutDown
      <4> QED BY <3>1, <3>3, <4>1
    <3> QED BY <3>2, <3>3 DEF Alone
  <2>2. OneLoop'
    <3>1. ASSUME kind = "start", pc # "over" PROVE Alive = {}
      BY <2>0, <3>1 DEF InOrder, StatusFits
    <3>2. \A q \in Requests : Starting(q)' /\ q # r => Starting(q)
      BY <1>2 DEF Starting
    <3>3. Starting(r)' => Alive = {}
      BY <1>2, <3>1 DEF Starting, AtWork
    <3>4. \A q \in Requests : req'[q].kind = "shutdown" => req'[q].pc = "close"
      BY <1>2, <1>3 DEF ShutDown
    <3> QED BY <1>1, <1>2, <2>0, <3>2, <3>3, <3>4 DEF InOrder, OneLoop, Alive
  <2>3. StatusFits'
    <3>1. BeingStopped => BeingStopped'
      BY <1>2, <1>3 DEF BeingStopped, ShutDown, Stopping, AtWork
    <3> QED BY <1>1, <2>0, <3>1 DEF InOrder, StatusFits, Alive
  <2>4. CurrentFits' BY <1>1, <1>2, <1>3, <2>0 DEF InOrder, CurrentFits, Alive, ShutDown, AtWork
  <2>5. OpenIsCurrent' BY <1>1, <1>2, <1>3, <2>0 DEF InOrder, OpenIsCurrent, Open
  <2> QED BY <2>1, <2>2, <2>3, <2>4, <2>5 DEF InOrder
<1> QED BY <1>8, <1>9, InvParts

LEMMA StartKeeps ==
    ASSUME SessionInv, NEW r \in Requests, Start(r)
    PROVE  SessionInv'
<1>1. CASE recording
  BY <1>1, SentKeeps DEF Start, Kinds
<1>2. CASE ~recording
  BY <1>2, SentKeeps DEF Start, Kinds
<1> QED BY <1>1, <1>2

LEMMA StopKeeps ==
    ASSUME SessionInv, NEW r \in Requests, Stop(r)
    PROVE  SessionInv'
<1>1. CASE recording \/ Running(orchestrator)
  BY <1>1, SentKeeps DEF Stop, Kinds
<1>2. CASE ~(recording \/ Running(orchestrator))
  BY <1>2, SentKeeps DEF Stop, Kinds
<1> QED BY <1>1, <1>2

LEMMA ShutdownKeeps ==
    ASSUME SessionInv, NEW r \in Requests, Shutdown(r)
    PROVE  SessionInv'
BY SentKeeps DEF Shutdown, Kinds

LEMMA CompareConfigKeeps ==
    ASSUME SessionInv, NEW r \in Requests, CompareConfig(r)
    PROVE  SessionInv'
<1> Always /\ (~overlap => InOrder)
  BY InvParts
<1>1. UNCHANGED <<recording, system, orchestrator, handle, systems, orchs, tasks, overlap>>
  BY DEF CompareConfig
<1>2. PICK pc \in {"branch", "close"} : Moves(r, pc, req[r].at, req[r].then)
  BY GoFacts DEF CompareConfig, Places, AtWork, Always
<1>3. req[r].pc = "starting"
  BY DEF CompareConfig, At
<1>8. Always'
  <2>1. Typed' BY <1>1, <1>2, <1>3 DEF Always, Typed, Moves
  <2>2. Pointed' BY <1>1, <1>2, <1>3 DEF Always, Pointed
  <2>3. Untouched' BY <1>1, <1>2, <1>3 DEF Always, Untouched, Moves
  <2>4. Wired' BY <1>1, <1>2, <1>3 DEF Always, Wired, Moves
  <2>5. Created' BY <1>1, <1>2, <1>3, CreatedKept DEF Always
  <2>6. KindsFit' BY <1>1, <1>2, <1>3 DEF Always, KindsFit, Moves
  <2> QED BY <2>1, <2>2, <2>3, <2>4, <2>5, <2>6 DEF Always
<1>9. ASSUME ~overlap' PROVE InOrder'
  <2>0. InOrder BY <1>1, <1>9
  <2>1. Alone' BY <1>1, <1>2, <1>3, <2>0 DEF InOrder, Alone, Starting, Moves, AtWork, Idle
  <2>2. OneLoop' BY <1>1, <1>2, <1>3, <2>0 DEF InOrder, OneLoop, Alive, Starting, Moves, AtWork
  <2>3. StatusFits' BY <1>1, <1>2, <1>3, <2>0 DEF InOrder, StatusFits, Alive, BeingStopped, ShutDown, Stopping, Moves, AtWork
  <2>4. CurrentFits' BY <1>1, <1>2, <1>3, <2>0 DEF InOrder, CurrentFits, Alive, ShutDown, Moves, AtWork
  <2>5. OpenIsCurrent' BY <1>1, <1>2, <1>3, <2>0 DEF InOrder, OpenIsCurrent, Open, Moves
  <2> QED BY <2>1, <2>2, <2>3, <2>4, <2>5 DEF InOrder
<1> QED BY <1>8, <1>9, InvParts

LEMMA PausedKeeps ==
    ASSUME SessionInv, NEW r \in Requests, Paused(r)
    PROVE  SessionInv'
<1> Always /\ (~overlap => InOrder)
  BY InvParts
<1>1. UNCHANGED <<recording, system, orchestrator, handle, systems, orchs, tasks, overlap>>
  BY DEF Paused
<1>2. Moves(r, "reap", req[r].at, req[r].then)
  BY GoFacts DEF Paused, Places, AtWork, Always
<1>3. req[r].pc = "pausing" /\ req[r].kind = "stop"
  BY DEF Paused, At, Always, KindsFit, Typed, ReqRec, Kinds
<1>8. Always'
  <2>1. Typed' BY <1>1, <1>2, <1>3 DEF Always, Typed, Moves
  <2>2. Pointed' BY <1>1, <1>2, <1>3 DEF Always, Pointed
  <2>3. Untouched' BY <1>1, <1>2, <1>3 DEF Always, Untouched, Moves
  <2>4. Wired' BY <1>1, <1>2, <1>3 DEF Always, Wired, Moves
  <2>5. Created' BY <1>1, <1>2, <1>3, CreatedKept DEF Always
  <2>6. KindsFit' BY <1>1, <1>2, <1>3 DEF Always, KindsFit, Moves
  <2> QED BY <2>1, <2>2, <2>3, <2>4, <2>5, <2>6 DEF Always
<1>9. ASSUME ~overlap' PROVE InOrder'
  <2>0. InOrder BY <1>1, <1>9
  <2>1. Alone' BY <1>1, <1>2, <1>3, <2>0 DEF InOrder, Alone, Starting, Moves, AtWork, Idle
  <2>2. OneLoop' BY <1>1, <1>2, <1>3, <2>0 DEF InOrder, OneLoop, Alive, Starting, Moves, AtWork
  <2>3. StatusFits' BY <1>1, <1>2, <1>3, <2>0 DEF InOrder, StatusFits, Alive, BeingStopped, ShutDown, Stopping, Moves, AtWork
  <2>4. CurrentFits' BY <1>1, <1>2, <1>3, <2>0 DEF InOrder, CurrentFits, Alive, ShutDown, Moves, AtWork
  <2>5. OpenIsCurrent' BY <1>1, <1>2, <1>3, <2>0 DEF InOrder, OpenIsCurrent, Open, Moves
  <2> QED BY <2>1, <2>2, <2>3, <2>4, <2>5 DEF InOrder
<1> QED BY <1>8, <1>9, InvParts

LEMMA PauseOrchestratorKeeps ==
    ASSUME SessionInv, NEW r \in Requests, PauseOrchestrator(r)
    PROVE  SessionInv'
<1> Always /\ (~overlap => InOrder)
  BY InvParts
<1>1. UNCHANGED <<recording, system, orchestrator, handle, systems, tasks, overlap>>
  BY DEF PauseOrchestrator
<1>2. PICK pc \in {"pausing", "reap"} : Moves(r, pc, req[r].at, req[r].then)
  BY GoFacts DEF PauseOrchestrator, Places, AtWork, Always
<1>3. req[r].pc = "stopping" /\ req[r].kind = "stop"
  BY DEF PauseOrchestrator, At, Always, KindsFit, Typed, ReqRec, Kinds
<1>4. \/ orchs' = orchs
      \/ orchestrator \in Requests /\ Stops(orchestrator)
  BY OrchStops DEF PauseOrchestrator, Running, Always, Typed
<1>5. /\ orchs' \in [Requests -> OrchRec]
      /\ \A o \in Requests :
            /\ orchs'[o].of = orchs[o].of /\ (orchs'[o].ready <=> orchs[o].ready)
            /\ (orchs'[o].closed <=> orchs[o].closed)
            /\ (orchs'[o].running => orchs[o].running)
  BY <1>4 DEF Stops, Always, Typed
<1>6. orchestrator # None => orchestrator \in Requests
  BY DEF Always, Typed
<1>8. Always'
  <2>1. Typed' BY <1>1, <1>2, <1>3, <1>5, <1>6 DEF Always, Typed, Moves
  <2>2. Pointed' BY <1>1, <1>2, <1>3, <1>5, <1>6 DEF Always, Pointed, Wired
  <2>3. Untouched' BY <1>1, <1>2, <1>3, <1>5, <1>6 DEF Always, Untouched, Moves
  <2>4. Wired' BY <1>1, <1>2, <1>3, <1>5, <1>6 DEF Always, Wired, Moves
  <2>5. Created' BY <1>1, <1>2, <1>3, <1>5, <1>6, CreatedKept DEF Always
  <2>6. KindsFit' BY <1>1, <1>2, <1>3, <1>5, <1>6 DEF Always, KindsFit, Moves
  <2> QED BY <2>1, <2>2, <2>3, <2>4, <2>5, <2>6 DEF Always
<1>9. ASSUME ~overlap' PROVE InOrder'
  <2>0. InOrder BY <1>1, <1>9
  <2>1. Alone' BY <1>1, <1>2, <1>3, <1>5, <1>6, <2>0 DEF InOrder, Alone, Starting, Moves, AtWork, Idle
  <2>2. OneLoop' BY <1>1, <1>2, <1>3, <1>5, <1>6, <2>0 DEF InOrder, OneLoop, Alive, Starting, Moves, AtWork
  <2>3. StatusFits' BY <1>1, <1>2, <1>3, <1>5, <1>6, <2>0 DEF InOrder, StatusFits, Alive, BeingStopped, ShutDown, Stopping, Moves, AtWork
  <2>4. CurrentFits' BY <1>1, <1>2, <1>3, <1>5, <1>6, <2>0 DEF InOrder, CurrentFits, Alive, ShutDown, Moves, AtWork
  <2>5. OpenIsCurrent' BY <1>1, <1>2, <1>3, <1>5, <1>6, <2>0 DEF InOrder, OpenIsCurrent, Open, Moves
  <2> QED BY <2>1, <2>2, <2>3, <2>4, <2>5 DEF InOrder
<1> QED BY <1>8, <1>9, InvParts

LEMMA CloseOrchestratorKeeps ==
    ASSUME SessionInv, NEW r \in Requests, CloseOrchestrator(r)
    PROVE  SessionInv'
<1> Always /\ (~overlap => InOrder)
  BY InvParts
<1>1. UNCHANGED <<recording, system, handle, systems, tasks, overlap>>
  BY DEF CloseOrchestrator
<1>2. /\ req[r].pc = "close" /\ req[r].kind \in {"start", "shutdown"} /\ req[r].then \in {"reap", "create"}
      /\ req[r].kind = "shutdown" => req[r].then = "reap"
  BY DEF CloseOrchestrator, At, Always, KindsFit, Typed, ReqRec, Kinds, Thens
<1>3. \/ /\ Moves(r, req[r].then, req[r].at, req[r].then)
         /\ orchestrator' = None /\ orchs' = orchs
      \/ /\ orchestrator \in Requests /\ orchestrator' = orchestrator /\ Stops(orchestrator)
         /\ Moves(r, "closing", orchestrator, req[r].then)
  <2>1. CASE orchestrator = None \/ orchs[orchestrator].closed
    BY <1>2, <2>1, GoFacts DEF CloseOrchestrator, Places, AtWork, Always
  <2>2. CASE ~(orchestrator = None \/ orchs[orchestrator].closed)
    <3>1. orchestrator \in Requests /\ orchestrator \in Whats /\ "closing" \in Places
      BY <2>2 DEF Always, Typed, Whats, Places, AtWork
    <3>2. orchs' = [orchs EXCEPT ![orchestrator].running = FALSE] /\ Await(r, orchestrator, "closing")
          /\ orchestrator' = orchestrator
      BY <2>2 DEF CloseOrchestrator
    <3> QED BY <3>1, <3>2, OrchStops, AwaitFacts DEF Always
  <2> QED BY <2>1, <2>2
<1>4. PICK pc \in {"reap", "create", "closing"}, at \in Whats : Moves(r, pc, at, req[r].then)
  BY <1>2, <1>3 DEF Always, Typed, ReqRec, Whats
<1>5. /\ orchs' \in [Requests -> OrchRec]
      /\ \A o \in Requests :
            /\ orchs'[o].of = orchs[o].of /\ (orchs'[o].ready <=> orchs[o].ready)
            /\ (orchs'[o].closed <=> orchs[o].closed)
            /\ (orchs'[o].running => orchs[o].running)
  BY <1>3 DEF Stops, Always, Typed
<1>6. /\ orchestrator' \in {orchestrator, None}
      /\ orchestrator # None => orchestrator \in Requests
      /\ pc # "closing" => orchestrator' = None
      /\ pc = "closing" => at = orchestrator /\ orchestrator \in Requests
      /\ pc # "closing" => pc = req[r].then
  BY <1>2, <1>3, <1>4 DEF Always, Typed, Moves
<1>8. Always'
  <2>1. Typed' BY <1>1, <1>2, <1>4, <1>5, <1>6 DEF Always, Typed, Moves
  <2>2. Pointed' BY <1>1, <1>2, <1>4, <1>5, <1>6 DEF Always, Pointed, Wired
  <2>3. Untouched' BY <1>1, <1>2, <1>4, <1>5, <1>6 DEF Always, Untouched, Moves
  <2>4. Wired' BY <1>1, <1>2, <1>4, <1>5, <1>6 DEF Always, Wired, Moves
  <2>5. Created'
    <3>1. \A p \in Requests : req[p].pc \in {"wiring", "over"} => req'[p].pc \in {"wiring", "over"}
      BY <1>2, <1>4 DEF Moves
    <3>2. \A p \in Requests : p # r /\ req'[p].pc = "closing" => req[p].pc = "closing" /\ req'[p].at = req[p].at
      BY <1>4 DEF Moves
    <3>3. ASSUME orchestrator' # None PROVE req'[orchestrator'].pc \in {"wiring", "over"}
      BY <1>6, <3>1, <3>3 DEF Always, Created, Typed
    <3>4. ASSUME NEW p \in Requests, req'[p].pc = "closing"
          PROVE  req'[p].at \in Requests /\ req'[req'[p].at].pc \in {"wiring", "over"}
      <4>1. CASE p = r
        BY <1>4, <1>6, <3>1, <3>4, <4>1, NoneIsNoRequest DEF Always, Created, Moves
      <4>2. CASE p # r
        BY <3>1, <3>2, <3>4, <4>2 DEF Always, Created
      <4> QED BY <4>1, <4>2
    <3> QED BY <3>3, <3>4 DEF Created
  <2>6. KindsFit' BY <1>1, <1>2, <1>4, <1>5, <1>6 DEF Always, KindsFit, Moves
  <2> QED BY <2>1, <2>2, <2>3, <2>4, <2>5, <2>6 DEF Always
<1>9. ASSUME ~overlap' PROVE InOrder'
  <2>0. InOrder BY <1>1, <1>9
  <2>7. ShutDown' \/ Alive = {}
    BY <1>2, <1>4, <2>0 DEF InOrder, OneLoop, Starting, AtWork, ShutDown, Moves
  <2>8. \A p \in Requests : p # r => req[p].pc \in Idle /\ req[p].pc # "wiring" /\ req[p].kind # "shutdown"
    <3>1. \A p \in Requests : p # r => req[p].pc \in Idle
      BY <1>2, <2>0 DEF InOrder, Alone, Starting, AtWork
    <3>2. \A p \in Requests : p # r /\ req[p].kind = "shutdown" => req[r].pc \in Idle
      BY <2>0 DEF InOrder, Alone
    <3> QED BY <1>2, <3>1, <3>2 DEF Idle
  <2>1. Alone' BY <1>1, <1>2, <1>4, <1>5, <1>6, <2>0 DEF InOrder, Alone, Starting, Moves, AtWork, Idle
  <2>2. OneLoop' BY <1>1, <1>2, <1>4, <1>5, <1>6, <2>0, <2>8 DEF InOrder, OneLoop, Alive, Starting, Moves, AtWork, Idle
  <2>3. StatusFits' BY <1>1, <1>2, <1>4, <1>5, <1>6, <2>0, <2>7 DEF InOrder, StatusFits, Alive, BeingStopped, ShutDown, Stopping, Moves, AtWork
  <2>4. CurrentFits'
    <3>1. pc = "closing" => orchestrator' # None
      BY <1>2, <1>3, <1>4, <1>6, NoneIsNoRequest DEF Moves
    <3>2. \A p \in Requests : p # r => req'[p] = req[p] /\ req[p].pc \in Idle
      BY <1>4, <2>8 DEF Moves
    <3>3. \A p \in Requests : req'[p].kind = "shutdown" /\ req'[p].pc = "closing" => orchestrator' # None
      BY <1>4, <3>1, <3>2 DEF Moves, Idle
    <3> QED BY <1>1, <1>2, <1>4, <1>5, <1>6, <2>0, <2>7, <2>8, <3>3 DEF InOrder, CurrentFits, Alive, ShutDown, Moves, AtWork, Idle
  <2>5. OpenIsCurrent'
    BY <1>1, <1>2, <1>4, <1>5, <1>6, <2>0, <2>8 DEF InOrder, OpenIsCurrent, Open, Moves, Idle
  <2> QED BY <2>1, <2>2, <2>3, <2>4, <2>5 DEF InOrder
<1> QED BY <1>8, <1>9, InvParts

LEMMA ClosedKeeps ==
    ASSUME SessionInv, NEW r \in Requests, Closed(r)
    PROVE  SessionInv'
<1> Always /\ (~overlap => InOrder)
  BY InvParts
<1>1. UNCHANGED <<recording, system, handle, systems, tasks, overlap>>
  BY DEF Closed
<1>2. /\ req[r].pc = "closing" /\ req[r].kind \in {"start", "shutdown"} /\ req[r].then \in {"reap", "create"}
      /\ req[r].kind = "shutdown" => req[r].then = "reap"
  BY DEF Closed, At, Always, KindsFit, Typed, ReqRec, Kinds, Thens
<1>3. PICK o \in Requests : o = req[r].at /\ req[o].pc \in {"wiring", "over"}
  BY <1>2 DEF Always, Created
<1>4. CASE orchestrator' = None /\ Go(r, req[r].then)
  <2>1. \/ orchs' = [orchs EXCEPT ![o].ready = FALSE, ![o].closed = TRUE]
        \/ orchs' = orchs
    BY <1>2, <1>3 DEF Closed
  <2>2. /\ orchs' \in [Requests -> OrchRec]
        /\ \A p \in Requests :
              /\ orchs'[p].of = orchs[p].of
              /\ (orchs'[p].running <=> orchs[p].running)
              /\ (orchs'[p].ready => orchs[p].ready)
              /\ p # o => orchs'[p] = orchs[p]
    <3>0. orchs \in [Requests -> OrchRec]
      BY DEF Always, Typed
    <3>1. CASE orchs' = orchs
      BY <3>0, <3>1
    <3>2. CASE orchs' = [orchs EXCEPT ![o].ready = FALSE, ![o].closed = TRUE]
      <4> DEFINE c == [orchs[o] EXCEPT !.ready = FALSE, !.closed = TRUE]
      <4>1. c \in OrchRec /\ c.of = orchs[o].of /\ c.running = orchs[o].running /\ ~c.ready
        BY <3>0 DEF OrchRec
      <4>2. orchs' = [orchs EXCEPT ![o] = c]
        BY <3>0, <3>2
      <4> HIDE DEF c
      <4> QED BY <3>0, <4>1, <4>2
    <3> QED BY <2>1, <3>1, <3>2
  <2>3. Moves(r, req[r].then, req[r].at, req[r].then)
    BY <1>2, <1>4, GoFacts DEF Places, AtWork, Always
  <2>8. Always'
    <3>1. Typed' BY <1>1, <1>2, <1>4, <2>2, <2>3 DEF Always, Typed, Moves
    <3>2. Pointed' BY <1>1, <1>2, <1>4, <2>2, <2>3 DEF Always, Pointed, Wired
    <3>3. Untouched' BY <1>1, <1>2, <1>3, <2>2, <2>3 DEF Always, Untouched, Moves
    <3>4. Wired' BY <1>1, <1>2, <2>2, <2>3 DEF Always, Wired, Moves
    <3>5. Created' BY <1>1, <1>2, <1>4, <2>3, CreatedKept DEF Always
    <3>6. KindsFit' BY <1>1, <1>2, <2>3 DEF Always, KindsFit, Moves
    <3> QED BY <3>1, <3>2, <3>3, <3>4, <3>5, <3>6 DEF Always
  <2>9. ASSUME ~overlap' PROVE InOrder'
    <3>0. InOrder BY <1>1, <2>9
    <3>7. ShutDown' \/ Alive = {}
      BY <1>2, <2>3, <3>0 DEF InOrder, OneLoop, Starting, AtWork, ShutDown, Moves
    <3>8. \A p \in Requests : p # r => req[p].pc \in Idle /\ req[p].pc # "wiring"
      BY <1>2, <3>0 DEF InOrder, Alone, Starting, AtWork, Idle
    <3>10. \A p \in Requests : p # r => req[p].kind # "shutdown" \/ req[p].pc # "over"
      BY <1>2, <3>0 DEF InOrder, Alone, Idle
    <3>1. Alone' BY <1>1, <1>2, <2>3, <3>0 DEF InOrder, Alone, Starting, Moves, AtWork, Idle
    <3>2. OneLoop' BY <1>1, <1>2, <2>3, <3>0, <3>8, <3>10 DEF InOrder, OneLoop, Alive, Starting, Moves, AtWork, Idle
    <3>3. StatusFits' BY <1>1, <1>2, <2>2, <2>3, <3>0, <3>7 DEF InOrder, StatusFits, Alive, BeingStopped, ShutDown, Stopping, Moves, AtWork
    <3>4. CurrentFits' BY <1>1, <1>2, <1>4, <2>2, <2>3, <3>0, <3>7, <3>8 DEF InOrder, CurrentFits, Alive, ShutDown, Moves, AtWork, Idle
    <3>5. OpenIsCurrent' BY <1>1, <1>2, <2>3, <3>0, <3>8, <3>10 DEF InOrder, OpenIsCurrent, Open, Moves, Idle
    <3> QED BY <3>1, <3>2, <3>3, <3>4, <3>5 DEF InOrder
  <2> QED BY <2>8, <2>9, InvParts
<1>5. CASE req[r].kind = "shutdown" /\ UNCHANGED <<orchs, orchestrator>> /\ Go(r, "over")
  <2>3. Moves(r, "over", None, "reap")
    BY <1>2, <1>5, GoFacts DEF Places, Idle, Always
  <2>8. Always'
    <3>1. Typed' BY <1>1, <1>5, <2>3 DEF Always, Typed, Moves
    <3>2. Pointed' BY <1>1, <1>5, <2>3 DEF Always, Pointed
    <3>3. Untouched'
      <4>1. \A p \in Requests : req'[p].pc # "over" => req'[p] = req[p]
        BY <2>3 DEF Moves
      <4>2. \A p \in Requests : req'[p].pc \notin {"wiring", "over"} => req'[p] = req[p]
        BY <4>1
      <4> QED BY <1>1, <1>5, <4>1, <4>2 DEF Always, Untouched
    <3>4. Wired' BY <1>1, <1>2, <1>5, <2>3 DEF Always, Wired, Moves
    <3>5. Created' BY <1>1, <1>2, <1>5, <2>3, CreatedKept DEF Always
    <3>6. KindsFit' BY <1>1, <1>2, <1>5, <2>3 DEF Always, KindsFit, Moves
    <3> QED BY <3>1, <3>2, <3>3, <3>4, <3>5, <3>6 DEF Always
  <2>9. ASSUME ~overlap' PROVE InOrder'
    <3>0. InOrder BY <1>1, <2>9
    <3>6. orchestrator # None
      BY <1>2, <1>5, <3>0 DEF InOrder, CurrentFits
    <3>7. ShutDown'
      BY <1>5, <2>3 DEF ShutDown, Moves
    <3>1. Alone' BY <1>2, <1>5, <2>3, <3>0 DEF InOrder, Alone, Starting, Moves, AtWork, Idle
    <3>2. OneLoop' BY <1>1, <1>2, <1>5, <2>3, <3>0, <3>6 DEF InOrder, OneLoop, Alive, Starting, Moves, AtWork
    <3>3. StatusFits' BY <1>1, <1>5, <3>0, <3>7 DEF InOrder, StatusFits, Alive, BeingStopped
    <3>4. CurrentFits' BY <1>1, <1>2, <1>5, <2>3, <3>0, <3>7 DEF InOrder, CurrentFits, Alive, Moves
    <3>5. OpenIsCurrent' BY <1>1, <1>2, <1>5, <2>3, <3>0, <3>6 DEF InOrder, OpenIsCurrent, Open, Moves
    <3> QED BY <3>1, <3>2, <3>3, <3>4, <3>5 DEF InOrder
  <2> QED BY <2>8, <2>9, InvParts
<1> QED BY <1>4, <1>5 DEF Closed

\* The task is done and forgotten.
LEMMA ReapedKeeps ==
    ASSUME SessionInv, NEW r \in Requests, req[r].pc \in {"reap", "reaping"}, Reaped(r, "clean"),
           UNCHANGED <<system, orchestrator, systems, orchs, tasks, overlap>>,
           ~overlap => Alive = {}
    PROVE  SessionInv'
<1> Always /\ (~overlap => InOrder)
  BY InvParts
<1>1. UNCHANGED <<system, orchestrator, systems, orchs, tasks, overlap>> /\ handle' = None
      /\ recording' = IF req[r].kind = "stop" THEN FALSE ELSE recording
  BY DEF Reaped
<1>2. req[r].then = "reap" /\ req[r].kind \in {"start", "stop", "shutdown"}
  BY DEF Always, KindsFit, Typed, ReqRec, Kinds, Thens
<1>3. PICK pc \in {"over", "clean"}, at \in Whats :
          Moves(r, pc, at, "reap") /\ (pc = "over" <=> req[r].kind = "stop")
  <2>1. req[r].at \in Whats /\ None \in Whats
    BY DEF Always, Typed, ReqRec, Whats
  <2>2. CASE req[r].kind = "stop"
    BY <1>2, <2>1, <2>2, GoFacts DEF Reaped, Places, Idle, AtWork, Always
  <2>3. CASE req[r].kind # "stop"
    BY <1>2, <2>1, <2>3, GoFacts DEF Reaped, Places, Idle, AtWork, Always
  <2> QED BY <2>2, <2>3
<1>8. Always'
  <2>1. Typed' BY <1>1, <1>2, <1>3 DEF Always, Typed, Moves
  <2>2. Pointed' BY <1>1, <1>2, <1>3 DEF Always, Pointed
  <2>3. Untouched' BY <1>1, <1>2, <1>3 DEF Always, Untouched, Moves
  <2>4. Wired' BY <1>1, <1>2, <1>3 DEF Always, Wired, Moves
  <2>5. Created' BY <1>1, <1>2, <1>3, CreatedKept DEF Always
  <2>6. KindsFit' BY <1>1, <1>2, <1>3 DEF Always, KindsFit, Moves
  <2> QED BY <2>1, <2>2, <2>3, <2>4, <2>5, <2>6 DEF Always
<1>9. ASSUME ~overlap' PROVE InOrder'
  <2>0. InOrder BY <1>1, <1>9
  <2>7. Alive = {} /\ Alive' = {}
    BY <1>1, <1>9 DEF Alive
  <2>8. ASSUME BeingStopped, recording' PROVE BeingStopped'
    BY <1>1, <1>2, <1>3, <2>8 DEF BeingStopped, ShutDown, Stopping, Moves
  <2>1. Alone' BY <1>1, <1>2, <1>3, <2>0 DEF InOrder, Alone, Starting, Moves, AtWork, Idle
  <2>2. OneLoop'
    BY <1>1, <2>7 DEF OneLoop
  <2>3. StatusFits'
    <3>1. \A t \in Requests : tasks[t].pc # "loop"
      BY <2>7 DEF Alive
    <3> QED BY <1>1, <2>0, <2>7, <2>8, <3>1 DEF InOrder, StatusFits
  <2>4. CurrentFits' BY <1>1, <1>2, <1>3, <2>0 DEF InOrder, CurrentFits, Alive, ShutDown, Moves, AtWork
  <2>5. OpenIsCurrent' BY <1>1, <1>2, <1>3, <2>0 DEF InOrder, OpenIsCurrent, Open, Moves
  <2> QED BY <2>1, <2>2, <2>3, <2>4, <2>5 DEF InOrder
<1> QED BY <1>8, <1>9, InvParts

LEMMA ReapWaitsKeeps ==
    ASSUME SessionInv, NEW r \in Requests, Reap(r), handle # None
    PROVE  SessionInv'
<1> Always /\ (~overlap => InOrder)
  BY InvParts
<1> PICK h \in Requests : h = handle
  BY DEF Always, Typed
<1>1. /\ UNCHANGED <<recording, handle, system, orchestrator, systems, orchs, overlap>>
      /\ req[r].pc = "reap" /\ req[r].then = "reap"
  BY NoneIsNoRequest DEF Reap, At, Always, KindsFit, Typed, ReqRec, Thens
<1>2. Moves(r, "reaping", h, "reap")
  BY <1>1, AwaitFacts, NoneIsNoRequest DEF Reap, Always, Places, AtWork, Whats
<1>3. /\ tasks' \in [Requests -> TaskRec]
      /\ \A t \in Requests : t # h => tasks'[t] = tasks[t]
      /\ tasks'[h].on = tasks[h].on
      /\ tasks'[h].pc = "loop" <=> tasks[h].pc = "loop"
      /\ tasks'[h].pc \in {tasks[h].pc, "done"}
      /\ tasks'[h].pc # "no"
      /\ tasks'[h].cancelled => tasks[h].cancelled \/ tasks[h].pc = "loop"
      /\ tasks[h].pc \notin {"new", "loop"} => tasks' = tasks
  <2>1. tasks \in [Requests -> TaskRec] /\ "done" \in {"no", "new", "loop", "done"} /\ tasks[h].pc # "no"
    BY NoneIsNoRequest DEF Always, Typed, Pointed
  <2>2. CASE tasks[h].pc = "new"
    <3>1. tasks' = [tasks EXCEPT ![h].pc = "done"]
      BY <2>2, NoneIsNoRequest DEF Reap
    <3> QED BY <2>1, <2>2, <3>1 DEF TaskRec
  <2>3. CASE tasks[h].pc = "loop"
    <3>1. tasks' = [tasks EXCEPT ![h].cancelled = TRUE]
      BY <2>3, NoneIsNoRequest DEF Reap
    <3> QED BY <2>1, <2>3, <3>1 DEF TaskRec
  <2>4. CASE tasks[h].pc \notin {"new", "loop"}
    <3>1. tasks' = tasks
      BY <2>4, NoneIsNoRequest DEF Reap
    <3> QED BY <2>1, <2>4, <3>1
  <2> QED BY <2>2, <2>3, <2>4
<1>4. req[h].pc = "over" /\ h # r
  BY <1>1, NoneIsNoRequest DEF Always, Pointed, Untouched
<1>5. req[r].kind \in {"start", "stop", "shutdown"}
  BY DEF Always, Typed, ReqRec, Kinds
<1>8. Always'
  <2>1. Typed' BY <1>1, <1>2, <1>3, <1>4 DEF Always, Typed, Moves, TaskRec
  <2>2. Pointed' BY <1>1, <1>2, <1>3, <1>4 DEF Always, Pointed
  <2>3. Untouched' BY <1>1, <1>2, <1>3, <1>4 DEF Always, Untouched, Moves
  <2>4. Wired' BY <1>1, <1>2, <1>3, <1>4 DEF Always, Wired, Moves
  <2>5. Created' BY <1>1, <1>2, <1>3, <1>4, CreatedKept DEF Always
  <2>6. KindsFit' BY <1>1, <1>2, <1>3, <1>4 DEF Always, KindsFit, Moves
  <2> QED BY <2>1, <2>2, <2>3, <2>4, <2>5, <2>6 DEF Always
<1>9. ASSUME ~overlap' PROVE InOrder'
  <2>0. InOrder BY <1>1, <1>9
  <2>7. Alive' \subseteq Alive
    BY <1>3 DEF Alive
  <2>8. BeingStopped' \/ (Alive = {} /\ tasks' = tasks /\ (BeingStopped => BeingStopped'))
    <3>1. CASE req[r].kind = "start"
      <4>1. Alive = {}
        BY <1>1, <2>0, <3>1 DEF InOrder, OneLoop, Starting, AtWork
      <4>2. tasks' = tasks
        BY <1>3, <4>1 DEF Alive
      <4>3. BeingStopped => BeingStopped'
        BY <1>1, <1>2, <3>1 DEF BeingStopped, ShutDown, Stopping, Moves
      <4> QED BY <4>1, <4>2, <4>3
    <3>2. CASE req[r].kind # "start"
      BY <1>2, <1>5, <3>2 DEF BeingStopped, ShutDown, Stopping, Moves, AtWork
    <3> QED BY <3>1, <3>2
  <2>1. Alone' BY <1>1, <1>2, <1>3, <1>4, <2>0 DEF InOrder, Alone, Starting, Moves, AtWork, Idle
  <2>2. OneLoop' BY <1>1, <1>2, <1>3, <1>4, <2>0, <2>7 DEF InOrder, OneLoop, Alive, Starting, Moves, AtWork
  <2>3. StatusFits'
    <3>1. CASE BeingStopped'
      BY <1>1, <1>3, <2>0, <2>7, <3>1 DEF InOrder, StatusFits
    <3>2. CASE Alive = {} /\ tasks' = tasks /\ (BeingStopped => BeingStopped')
      BY <1>1, <2>0, <3>2 DEF InOrder, StatusFits, Alive
    <3> QED BY <2>8, <3>1, <3>2
  <2>4. CurrentFits' BY <1>1, <1>2, <1>3, <1>4, <2>0 DEF InOrder, CurrentFits, Alive, ShutDown, Moves, AtWork
  <2>5. OpenIsCurrent' BY <1>1, <1>2, <1>3, <1>4, <2>0 DEF InOrder, OpenIsCurrent, Open, Moves
  <2> QED BY <2>1, <2>2, <2>3, <2>4, <2>5 DEF InOrder
<1> QED BY <1>8, <1>9, InvParts

LEMMA ReapKeeps ==
    ASSUME SessionInv, NEW r \in Requests, Reap(r)
    PROVE  SessionInv'
<1>1. CASE handle = None
  <2>1. ~overlap => Alive = {}
    BY <1>1, InvParts, NoneIsNoRequest DEF InOrder, OneLoop, Alive
  <2>2. req[r].pc = "reap" /\ Reaped(r, "clean")
        /\ UNCHANGED <<system, orchestrator, systems, orchs, tasks, overlap>>
    BY <1>1 DEF Reap, At
  <2> QED BY <2>1, <2>2, ReapedKeeps
<1>2. CASE handle # None
  BY <1>2, ReapWaitsKeeps
<1> QED BY <1>1, <1>2

LEMMA TaskReapedKeeps ==
    ASSUME SessionInv, NEW r \in Requests, TaskReaped(r)
    PROVE  SessionInv'
<1>1. req[r].pc = "reaping" /\ tasks[req[r].at].pc = "done" /\ Reaped(r, "clean")
      /\ UNCHANGED <<system, orchestrator, systems, orchs, tasks, overlap>>
  BY DEF TaskReaped, At
<1>2. ~overlap => Alive = {}
  BY <1>1, InvParts, NoneIsNoRequest DEF InOrder, OneLoop, Alive
<1> QED BY <1>1, <1>2, ReapedKeeps

LEMMA CleanUpKeeps ==
    ASSUME SessionInv, NEW r \in Requests, CleanUp(r)
    PROVE  SessionInv'
<1> Always /\ (~overlap => InOrder)
  BY InvParts
<1>1. UNCHANGED <<recording, system, orchestrator, handle, systems, orchs, tasks, overlap>>
  BY DEF CleanUp
<1>2. /\ req[r].pc = "clean" /\ req[r].kind \in {"start", "shutdown"} /\ req[r].then = "reap"
  BY DEF CleanUp, At, Always, KindsFit, Typed, ReqRec, Kinds, Thens
<1>3. PICK pc \in {"branch", "over", "cleaning"}, at \in Whats :
          /\ Moves(r, pc, at, "reap")
          /\ pc = "branch" => req[r].kind = "start"
          /\ pc = "over" => req[r].kind = "shutdown" /\ system = None
          /\ pc = "cleaning" => at = system
  <2>1. req[r].at \in Whats /\ None \in Whats /\ system \in Whats
    BY DEF Always, Typed, ReqRec, Whats
  <2>2. CASE system = None
    <3>1. CASE req[r].kind = "start"
      BY <1>2, <2>1, <2>2, <3>1, GoFacts DEF CleanUp, Places, Idle, AtWork, Always
    <3>2. CASE req[r].kind # "start"
      BY <1>2, <2>1, <2>2, <3>2, GoFacts DEF CleanUp, Places, Idle, AtWork, Always
    <3> QED BY <3>1, <3>2
  <2>3. CASE system # None
    BY <1>2, <2>1, <2>3, AwaitFacts DEF CleanUp, Places, AtWork, Always
  <2> QED BY <2>2, <2>3
<1>8. Always'
  <2>1. Typed' BY <1>1, <1>2, <1>3 DEF Always, Typed, Moves
  <2>2. Pointed' BY <1>1, <1>2, <1>3 DEF Always, Pointed
  <2>3. Untouched' BY <1>1, <1>2, <1>3 DEF Always, Untouched, Moves
  <2>4. Wired' BY <1>1, <1>2, <1>3 DEF Always, Wired, Moves
  <2>5. Created' BY <1>1, <1>2, <1>3, CreatedKept DEF Always
  <2>6. KindsFit' BY <1>1, <1>2, <1>3 DEF Always, KindsFit, Moves
  <2> QED BY <2>1, <2>2, <2>3, <2>4, <2>5, <2>6 DEF Always
<1>9. ASSUME ~overlap' PROVE InOrder'
  <2>0. InOrder BY <1>1, <1>9
  <2>1. Alone' BY <1>1, <1>2, <1>3, <2>0 DEF InOrder, Alone, Starting, Moves, AtWork, Idle
  <2>2. OneLoop'
    <3>1. Alive = {}
      BY <1>2, <2>0 DEF InOrder, OneLoop, Starting, AtWork
    <3> QED BY <1>1, <1>2, <1>3, <2>0, <3>1 DEF InOrder, OneLoop, Alive, Starting, Moves, AtWork
  <2>3. StatusFits' BY <1>1, <1>2, <1>3, <2>0 DEF InOrder, StatusFits, Alive, BeingStopped, ShutDown, Stopping, Moves, AtWork
  <2>4. CurrentFits' BY <1>1, <1>2, <1>3, <2>0 DEF InOrder, CurrentFits, Alive, ShutDown, Moves, AtWork
  <2>5. OpenIsCurrent' BY <1>1, <1>2, <1>3, <2>0, NoneIsNoRequest DEF InOrder, OpenIsCurrent, Open, Moves
  <2> QED BY <2>1, <2>2, <2>3, <2>4, <2>5 DEF InOrder
<1> QED BY <1>8, <1>9, InvParts

LEMMA CleanedUpKeeps ==
    ASSUME SessionInv, NEW r \in Requests, CleanedUp(r)
    PROVE  SessionInv'
<1> Always /\ (~overlap => InOrder)
  BY InvParts
<1>1. UNCHANGED <<recording, orchestrator, handle, orchs, tasks, overlap>>
  BY DEF CleanedUp
<1>2. /\ req[r].pc = "cleaning" /\ req[r].kind \in {"start", "shutdown"} /\ req[r].then = "reap"
  BY DEF CleanedUp, At, Always, KindsFit, Typed, ReqRec, Kinds, Thens
<1>3. PICK pc \in {"branch", "over"}, at \in Whats :
          Moves(r, pc, at, "reap") /\ (pc = "branch" <=> req[r].kind = "start")
  <2>1. req[r].at \in Whats /\ None \in Whats
    BY DEF Always, Typed, ReqRec, Whats
  <2>2. CASE req[r].kind = "start"
    BY <1>2, <2>1, <2>2, GoFacts DEF CleanedUp, Places, Idle, AtWork, Always
  <2>3. CASE req[r].kind # "start"
    BY <1>2, <2>1, <2>3, GoFacts DEF CleanedUp, Places, Idle, AtWork, Always
  <2> QED BY <2>2, <2>3
<1>4. PICK end \in {"cleaned", "left"} :
          systems' = [systems EXCEPT ![req[r].at] = end] /\ system' \in {system, None}
  BY DEF CleanedUp
<1>5. /\ systems' \in [Requests -> {"no", "setup", "up", "half", "cleaned", "left"}]
      /\ \A s \in Requests : systems'[s] = IF s = req[r].at THEN end ELSE systems[s]
  BY <1>4 DEF Always, Typed
<1>8. Always'
  <2>1. Typed' BY <1>1, <1>2, <1>3, <1>4, <1>5 DEF Always, Typed, Moves
  <2>2. Pointed' BY <1>1, <1>2, <1>3, <1>4, <1>5 DEF Always, Pointed
  <2>3. Untouched' BY <1>1, <1>2, <1>3, <1>4, <1>5 DEF Always, Untouched, Moves
  <2>4. Wired' BY <1>1, <1>2, <1>3, <1>4, <1>5 DEF Always, Wired, Moves
  <2>5. Created' BY <1>1, <1>2, <1>3, <1>4, <1>5, CreatedKept DEF Always
  <2>6. KindsFit' BY <1>1, <1>2, <1>3, <1>4, <1>5 DEF Always, KindsFit, Moves
  <2> QED BY <2>1, <2>2, <2>3, <2>4, <2>5, <2>6 DEF Always
<1>9. ASSUME ~overlap' PROVE InOrder'
  <2>0. InOrder BY <1>1, <1>9
  <2>7. \A p \in Requests : p # r => req[p].pc \in Idle /\ req[p].then = "reap"
    <3>1. \A p \in Requests : p # r => req[p].pc \in Idle
      BY <1>2, <2>0 DEF InOrder, Alone, Starting, AtWork
    <3>2. \A p \in Requests : p # r => req[p].then = "reap"
      BY <3>1 DEF Always, Typed, ReqRec, Thens, KindsFit, Idle
    <3> QED BY <3>1, <3>2
  <2>8. orchestrator = None /\ Open' = {}
    <3>1. orchestrator = None
      BY <1>2, <2>0 DEF InOrder, CurrentFits
    <3>2. req[r].at = system /\ Open \subseteq {system}
      BY <1>2, <2>0 DEF InOrder, OpenIsCurrent
    <3>3. Open' \subseteq Open \ {system}
      BY <1>5, <3>2 DEF Open
    <3> QED BY <3>1, <3>2, <3>3
  <2>1. Alone' BY <1>1, <1>2, <1>3, <1>4, <1>5, <2>0 DEF InOrder, Alone, Starting, Moves, AtWork, Idle
  <2>2. OneLoop'
    <3>1. Alive = {}
      BY <1>2, <2>0 DEF InOrder, OneLoop, Starting, AtWork
    <3> QED BY <1>1, <1>2, <1>3, <2>0, <3>1 DEF InOrder, OneLoop, Alive, Starting, Moves, AtWork
  <2>3. StatusFits' BY <1>1, <1>2, <1>3, <1>4, <1>5, <2>0 DEF InOrder, StatusFits, Alive, BeingStopped, ShutDown, Stopping, Moves, AtWork
  <2>4. CurrentFits'
    <3>1. orchestrator' = None
      BY <1>1, <2>8
    <3>2. \A p \in Requests : req'[p].then = "reap" /\ req'[p].pc \notin {"setting", "wiring", "closing"}
      BY <1>3, <2>7 DEF Moves, Idle
    <3>3. ShutDown' \/ Alive' = {}
      BY <1>1, <1>2, <1>3, <2>0 DEF InOrder, OneLoop, Starting, AtWork, Alive, ShutDown, Moves
    <3> QED BY <3>1, <3>2, <3>3 DEF CurrentFits
  <2>5. OpenIsCurrent'
    BY <1>3, <2>7, <2>8 DEF OpenIsCurrent, Moves, Idle
  <2> QED BY <2>1, <2>2, <2>3, <2>4, <2>5 DEF InOrder
<1> QED BY <1>8, <1>9, InvParts

-----------------------------------------------------------------------------
(* The branches of a start *)

\* A start fails, and nothing else changes.
LEMMA FailKeeps ==
    ASSUME SessionInv, NEW r \in Requests, req[r].pc \in {"branch", "wiring"}, Fail(r),
           UNCHANGED <<system, orchestrator, handle, systems, orchs, tasks, overlap>>
    PROVE  SessionInv'
<1> Always /\ (~overlap => InOrder)
  BY InvParts
<1>1. UNCHANGED <<system, orchestrator, handle, systems, orchs, tasks, overlap>> /\ ~recording' /\ recording' \in BOOLEAN
  BY DEF Fail
<1>2. req[r].kind = "start" /\ req[r].pc \in {"branch", "wiring"}
  BY DEF Always, KindsFit, Typed, ReqRec, Kinds
<1>3. Moves(r, "over", None, "reap")
  BY GoFacts DEF Fail, Always, Places, Idle
<1>8. Always'
  <2>1. Typed' BY <1>1, <1>2, <1>3 DEF Always, Typed, Moves
  <2>2. Pointed' BY <1>1, <1>2, <1>3 DEF Always, Pointed
  <2>3. Untouched' BY <1>1, <1>2, <1>3 DEF Always, Untouched, Moves
  <2>4. Wired' BY <1>1, <1>2, <1>3 DEF Always, Wired, Moves
  <2>5. Created' BY <1>1, <1>2, <1>3, CreatedKept DEF Always
  <2>6. KindsFit' BY <1>1, <1>2, <1>3 DEF Always, KindsFit, Moves
  <2> QED BY <2>1, <2>2, <2>3, <2>4, <2>5, <2>6 DEF Always
<1>9. ASSUME ~overlap' PROVE InOrder'
  <2>0. InOrder BY <1>1, <1>9
  <2>7. /\ \A p \in Requests : p # r => req[p].pc \in Idle /\ req[p].then = "reap" /\ req[p].kind # "shutdown"
        /\ Alive = {}
    <3>1. Starting(r)
      BY <1>2 DEF Starting, AtWork
    <3>2. \A p \in Requests : p # r => req[p].pc \in Idle /\ req[p].kind # "shutdown"
      BY <1>2, <2>0, <3>1 DEF InOrder, Alone, Idle
    <3>3. \A p \in Requests : p # r => req[p].then = "reap"
      BY <3>2 DEF Always, Typed, ReqRec, Thens, KindsFit, Idle
    <3> QED BY <2>0, <3>1, <3>2, <3>3 DEF InOrder, OneLoop
  <2>1. Alone' BY <1>1, <1>2, <1>3, <2>0, <2>7 DEF InOrder, Alone, Starting, Moves, AtWork, Idle
  <2>2. OneLoop' BY <1>1, <1>2, <1>3, <2>0, <2>7 DEF InOrder, OneLoop, Alive, Starting, Moves, AtWork
  <2>3. StatusFits' BY <1>1, <1>2, <1>3, <2>0, <2>7 DEF InOrder, StatusFits, Alive, BeingStopped, ShutDown, Stopping, Moves, AtWork
  <2>4. CurrentFits' BY <1>1, <1>2, <1>3, <2>0, <2>7 DEF InOrder, CurrentFits, Alive, ShutDown, Moves, AtWork, Idle
  <2>5. OpenIsCurrent' BY <1>1, <1>2, <1>3, <2>0, <2>7 DEF InOrder, OpenIsCurrent, Open, Moves
  <2> QED BY <2>1, <2>2, <2>3, <2>4, <2>5 DEF InOrder
<1> QED BY <1>8, <1>9, InvParts

\* A start ends with a new task.
LEMMA LaunchKeeps ==
    ASSUME SessionInv, NEW r \in Requests, req[r].pc \in {"branch", "wiring"}, Launch(r),
           UNCHANGED <<system, orchestrator, systems, overlap>>, ~overlap => orchestrator # None,
           orchs' \in [Requests -> OrchRec],
           \A o \in Requests :
              /\ orchs'[o].of = orchs[o].of /\ (orchs'[o].running <=> orchs[o].running)
              /\ (orchs'[o].closed => orchs[o].closed)
              /\ (orchs'[o].ready => orchs[o].of # None)
              /\ (o # r => orchs'[o] = orchs[o])
    PROVE  SessionInv'
<1> Always /\ (~overlap => InOrder)
  BY InvParts
<1>1. /\ UNCHANGED <<system, orchestrator, systems, overlap>>
      /\ recording' = TRUE /\ handle' = r
  BY DEF Launch
<1>2. req[r].kind = "start" /\ req[r].pc \in {"branch", "wiring"}
  BY DEF Always, KindsFit, Typed, ReqRec, Kinds
<1>3. Moves(r, "over", None, "reap")
  BY GoFacts DEF Launch, Always, Places, Idle
<1>4. /\ tasks[r].pc = "no" /\ ~tasks[r].cancelled
      /\ tasks' \in [Requests -> TaskRec]
      /\ tasks'[r].pc = "new" /\ (tasks'[r].cancelled <=> tasks[r].cancelled)
      /\ \A t \in Requests : t # r => tasks'[t] = tasks[t]
  <2>1. tasks' = [tasks EXCEPT ![r].pc = "new"]
    BY DEF Launch
  <2>2. "new" \in {"no", "new", "loop", "done"}
    OBVIOUS
  <2>3. tasks[r].pc = "no" /\ ~tasks[r].cancelled
    BY <1>2 DEF Always, Untouched, Wired
  <2> QED BY <2>1, <2>2, <2>3 DEF Always, Typed, TaskRec
<1>5. orchestrator # None => orchestrator \in Requests
  BY DEF Always, Typed
<1>6. /\ orchs' \in [Requests -> OrchRec]
      /\ \A o \in Requests :
            /\ orchs'[o].of = orchs[o].of /\ (orchs'[o].running <=> orchs[o].running)
            /\ (orchs'[o].closed => orchs[o].closed)
            /\ (orchs'[o].ready => orchs[o].of # None)
            /\ (o # r => orchs'[o] = orchs[o])
  OBVIOUS
<1>8. Always'
  <2>1. Typed' BY <1>1, <1>2, <1>3, <1>4, <1>5, <1>6 DEF Always, Typed, Moves
  <2>2. Pointed' BY <1>1, <1>2, <1>3, <1>4, <1>5, <1>6 DEF Always, Pointed, Wired
  <2>3. Untouched' BY <1>1, <1>2, <1>3, <1>4, <1>5, <1>6 DEF Always, Untouched, Moves
  <2>4. Wired' BY <1>1, <1>2, <1>3, <1>4, <1>5, <1>6 DEF Always, Wired, Moves
  <2>5. Created' BY <1>1, <1>2, <1>3, <1>4, <1>5, <1>6, CreatedKept DEF Always
  <2>6. KindsFit' BY <1>1, <1>2, <1>3, <1>4, <1>5, <1>6 DEF Always, KindsFit, Moves
  <2> QED BY <2>1, <2>2, <2>3, <2>4, <2>5, <2>6 DEF Always
<1>9. ASSUME ~overlap' PROVE InOrder'
  <2>0. InOrder BY <1>1, <1>9
  <2>7. /\ \A p \in Requests : p # r => req[p].pc \in Idle /\ req[p].then = "reap" /\ req[p].kind # "shutdown"
        /\ Alive = {}
    <3>1. Starting(r)
      BY <1>2 DEF Starting, AtWork
    <3>2. \A p \in Requests : p # r => req[p].pc \in Idle /\ req[p].kind # "shutdown"
      BY <1>2, <2>0, <3>1 DEF InOrder, Alone, Idle
    <3>3. \A p \in Requests : p # r => req[p].then = "reap"
      BY <3>2 DEF Always, Typed, ReqRec, Thens, KindsFit, Idle
    <3> QED BY <2>0, <3>1, <3>2, <3>3 DEF InOrder, OneLoop
  <2>8. Alive' = {r}
    BY <1>4, <2>7 DEF Alive
  <2>9. \A t \in Requests : tasks'[t].pc # "loop"
    BY <1>4, <2>7 DEF Alive
  <2>1. Alone' BY <1>1, <1>2, <1>3, <1>4, <1>5, <1>6, <2>0 DEF InOrder, Alone, Starting, Moves, AtWork, Idle
  <2>2. OneLoop'
    BY <1>1, <1>2, <1>3, <2>7, <2>8 DEF OneLoop, Starting, Moves, AtWork, Idle
  <2>3. StatusFits'
    <3>1. \A p \in Requests : ~orchs[p].running
      BY <2>0, <2>7 DEF InOrder, StatusFits, Alive
    <3> QED BY <1>1, <1>6, <2>8, <2>9, <3>1 DEF StatusFits
  <2>4. CurrentFits'
    <3>1. \A p \in Requests : req'[p].pc \in Idle /\ req'[p].then = "reap"
      BY <1>3, <2>7 DEF Moves, Idle
    <3> QED BY <1>1, <1>5, <1>6, <1>9, <2>0, <2>8, <2>9, <3>1 DEF InOrder, CurrentFits, Idle
  <2>5. OpenIsCurrent' BY <1>1, <1>2, <1>3, <1>4, <1>5, <1>6, <2>0, <2>7 DEF InOrder, OpenIsCurrent, Open, Moves
  <2> QED BY <2>1, <2>2, <2>3, <2>4, <2>5 DEF InOrder
<1> QED BY <1>8, <1>9, InvParts

LEMMA ResumePausedKeeps ==
    ASSUME SessionInv, NEW r \in Requests, ResumePaused(r)
    PROVE  SessionInv'
<1>1. req[r].pc = "branch" /\ orchestrator # None
      /\ UNCHANGED <<system, orchestrator, systems, orchs, overlap>>
  BY DEF ResumePaused, At, Resumable
<1>2. CASE system = None
  <2>1. Fail(r) /\ UNCHANGED <<tasks, handle>>
    BY <1>2 DEF ResumePaused
  <2> QED BY <1>1, <2>1, FailKeeps
<1>3. CASE system # None
  <2>1. Launch(r)
    BY <1>3 DEF ResumePaused
  <2>2. /\ orchs \in [Requests -> OrchRec]
        /\ \A o \in Requests : orchs[o].ready => orchs[o].of # None
    BY InvParts DEF Always, Typed, Wired
  <2> QED BY <1>1, <2>1, <2>2, LaunchKeeps
<1> QED BY <1>2, <1>3

LEMMA WireOrchestratorKeeps ==
    ASSUME SessionInv, NEW r \in Requests, WireOrchestrator(r)
    PROVE  SessionInv'
<1>1. req[r].pc = "wiring" /\ UNCHANGED <<system, orchestrator, systems, overlap>>
  BY DEF WireOrchestrator, At
<1>2. CASE orchs' = [orchs EXCEPT ![r].ready = TRUE, ![r].closed = FALSE] /\ Launch(r)
  <2>1. ~overlap => orchestrator # None
    BY <1>1, InvParts, NoneIsNoRequest DEF InOrder, CurrentFits
  <2>2. orchs[r].of # None /\ \A o \in Requests : orchs[o].ready => orchs[o].of # None
    BY <1>1, InvParts DEF Always, Wired
  <2>3. /\ orchs' \in [Requests -> OrchRec]
        /\ orchs'[r].of = orchs[r].of /\ (orchs'[r].running <=> orchs[r].running) /\ ~orchs'[r].closed
        /\ \A o \in Requests : o # r => orchs'[o] = orchs[o]
    <3>1. orchs \in [Requests -> OrchRec] /\ TRUE \in BOOLEAN /\ FALSE \in BOOLEAN
      BY InvParts DEF Always, Typed
    <3> QED BY <1>2, <3>1 DEF OrchRec
  <2> QED BY <1>1, <1>2, <2>1, <2>2, <2>3, LaunchKeeps
<1>3. CASE Fail(r) /\ UNCHANGED <<orchs, tasks, handle>>
  BY <1>1, <1>3, FailKeeps
<1> QED BY <1>2, <1>3 DEF WireOrchestrator

\* A start goes on to a new orchestrator, with a system that is or has become the current one.
LEMMA FreshKeeps ==
    ASSUME SessionInv, NEW r \in Requests, req[r].pc \in {"branch", "setting"}, Fresh(r),
           UNCHANGED <<recording, system, orchestrator, handle, orchs, tasks, overlap>>,
           ~overlap => system # None,
           \/ systems' = systems
           \/ (~overlap => system = r) /\ systems' = [systems EXCEPT ![r] = "up"]
    PROVE  SessionInv'
<1> Always /\ (~overlap => InOrder)
  BY InvParts
<1>1. UNCHANGED <<recording, system, orchestrator, handle, orchs, tasks, overlap>>
  OBVIOUS
<1>2. req[r].kind = "start" /\ req[r].pc \in {"branch", "setting"}
  BY DEF Always, KindsFit, Typed, ReqRec, Kinds
<1>3. PICK at \in Whats : Moves(r, "close", at, "create")
  BY FreshFacts DEF Always, Typed, ReqRec
<1>4. /\ systems' \in [Requests -> {"no", "setup", "up", "half", "cleaned", "left"}]
      /\ system # None => systems'[system] # "no"
  BY DEF Always, Typed, Pointed
<1>8. Always'
  <2>1. Typed' BY <1>1, <1>2, <1>3, <1>4 DEF Always, Typed, Moves
  <2>2. Pointed' BY <1>1, <1>2, <1>3, <1>4 DEF Always, Pointed
  <2>3. Untouched' BY <1>1, <1>2, <1>3, <1>4 DEF Always, Untouched, Moves
  <2>4. Wired' BY <1>1, <1>2, <1>3, <1>4 DEF Always, Wired, Moves
  <2>5. Created' BY <1>1, <1>2, <1>3, <1>4, CreatedKept DEF Always
  <2>6. KindsFit' BY <1>1, <1>2, <1>3, <1>4 DEF Always, KindsFit, Moves
  <2> QED BY <2>1, <2>2, <2>3, <2>4, <2>5, <2>6 DEF Always
<1>9. ASSUME ~overlap' PROVE InOrder'
  <2>0. InOrder BY <1>1, <1>9
  <2>7. /\ \A p \in Requests : p # r => req[p].pc \in Idle /\ req[p].then = "reap" /\ req[p].kind # "shutdown"
        /\ Alive = {}
    <3>1. Starting(r)
      BY <1>2 DEF Starting, AtWork
    <3>2. \A p \in Requests : p # r => req[p].pc \in Idle /\ req[p].kind # "shutdown"
      BY <1>2, <2>0, <3>1 DEF InOrder, Alone, Idle
    <3>3. \A p \in Requests : p # r => req[p].then = "reap"
      BY <3>2 DEF Always, Typed, ReqRec, Thens, KindsFit, Idle
    <3> QED BY <2>0, <3>1, <3>2, <3>3 DEF InOrder, OneLoop
  <2>1. Alone' BY <1>1, <1>2, <1>3, <1>4, <2>0, <2>7 DEF InOrder, Alone, Starting, Moves, AtWork, Idle
  <2>2. OneLoop' BY <1>1, <1>2, <1>3, <1>4, <2>0, <2>7 DEF InOrder, OneLoop, Alive, Starting, Moves, AtWork
  <2>3. StatusFits' BY <1>1, <1>2, <1>3, <1>4, <2>0, <2>7 DEF InOrder, StatusFits, Alive, BeingStopped, ShutDown, Stopping, Moves, AtWork
  <2>4. CurrentFits' BY <1>1, <1>2, <1>3, <1>4, <2>0, <1>9, <2>7 DEF InOrder, CurrentFits, Alive, ShutDown, Moves, AtWork, Idle
  <2>5. OpenIsCurrent' BY <1>1, <1>2, <1>3, <1>4, <2>0, <1>9, <2>7 DEF InOrder, OpenIsCurrent, Open, Moves, Idle, Always, Typed
  <2> QED BY <2>1, <2>2, <2>3, <2>4, <2>5 DEF InOrder
<1> QED BY <1>8, <1>9, InvParts

LEMMA NewSystemKeeps ==
    ASSUME SessionInv, NEW r \in Requests, req[r].pc = "branch", Go(r, "setting"), system = None, system' = r,
           systems' = [systems EXCEPT ![r] = "setup"],
           UNCHANGED <<recording, orchestrator, handle, orchs, tasks, overlap>>
    PROVE  SessionInv'
<1> Always /\ (~overlap => InOrder)
  BY InvParts
<1>1. UNCHANGED <<recording, orchestrator, handle, orchs, tasks, overlap>> /\ system' = r
  OBVIOUS
<1>2. req[r].kind = "start" /\ req[r].pc = "branch" /\ req[r].then = "reap"
  BY DEF Always, KindsFit, Typed, ReqRec, Kinds, Thens
<1>3. PICK at \in Whats : Moves(r, "setting", at, "reap")
  BY <1>2, GoFacts DEF Always, Typed, ReqRec, Places, AtWork
<1>4. /\ systems' \in [Requests -> {"no", "setup", "up", "half", "cleaned", "left"}]
      /\ \A s \in Requests : systems'[s] = IF s = r THEN "setup" ELSE systems[s]
  BY DEF Always, Typed
<1>8. Always'
  <2>1. Typed' BY <1>1, <1>2, <1>3, <1>4 DEF Always, Typed, Moves
  <2>2. Pointed' BY <1>1, <1>2, <1>3, <1>4 DEF Always, Pointed
  <2>3. Untouched' BY <1>1, <1>2, <1>3, <1>4 DEF Always, Untouched, Moves
  <2>4. Wired' BY <1>1, <1>2, <1>3, <1>4 DEF Always, Wired, Moves
  <2>5. Created' BY <1>1, <1>2, <1>3, <1>4, CreatedKept DEF Always
  <2>6. KindsFit' BY <1>1, <1>2, <1>3, <1>4 DEF Always, KindsFit, Moves
  <2> QED BY <2>1, <2>2, <2>3, <2>4, <2>5, <2>6 DEF Always
<1>9. ASSUME ~overlap' PROVE InOrder'
  <2>0. InOrder BY <1>1, <1>9
  <2>7. /\ \A p \in Requests : p # r => req[p].pc \in Idle /\ req[p].then = "reap" /\ req[p].kind # "shutdown"
        /\ Alive = {}
    <3>1. Starting(r)
      BY <1>2 DEF Starting, AtWork
    <3>2. \A p \in Requests : p # r => req[p].pc \in Idle /\ req[p].kind # "shutdown"
      BY <1>2, <2>0, <3>1 DEF InOrder, Alone, Idle
    <3>3. \A p \in Requests : p # r => req[p].then = "reap"
      BY <3>2 DEF Always, Typed, ReqRec, Thens, KindsFit, Idle
    <3> QED BY <2>0, <3>1, <3>2, <3>3 DEF InOrder, OneLoop
  <2>8. orchestrator = None
    BY <2>0 DEF InOrder, CurrentFits
  <2>1. Alone' BY <1>1, <1>2, <1>3, <1>4, <2>0, <2>7 DEF InOrder, Alone, Starting, Moves, AtWork, Idle
  <2>2. OneLoop' BY <1>1, <1>2, <1>3, <1>4, <2>0, <2>7 DEF InOrder, OneLoop, Alive, Starting, Moves, AtWork
  <2>3. StatusFits' BY <1>1, <1>2, <1>3, <1>4, <2>0, <2>7 DEF InOrder, StatusFits, Alive, BeingStopped, ShutDown, Stopping, Moves, AtWork
  <2>4. CurrentFits'
    <3>1. \A p \in Requests : p # r => req'[p].pc \in Idle /\ req'[p].then = "reap"
      BY <1>3, <2>7 DEF Moves
    <3> QED BY <1>1, <1>3, <2>7, <2>8, <3>1 DEF CurrentFits, Alive, Moves, Idle
  <2>5. OpenIsCurrent'
    <3>1. Open' \subseteq {r}
      BY <1>4, <2>0, NoneIsNoRequest DEF InOrder, OpenIsCurrent, Open
    <3>2. \A p \in Requests : req'[p].pc # "cleaning" /\ req'[p].kind # "shutdown"
      BY <1>2, <1>3, <2>7 DEF Moves, Idle
    <3> QED BY <1>1, <3>1, <3>2 DEF OpenIsCurrent
  <2> QED BY <2>1, <2>2, <2>3, <2>4, <2>5 DEF InOrder
<1> QED BY <1>8, <1>9, InvParts

LEMMA InitSystemKeeps ==
    ASSUME SessionInv, NEW r \in Requests, InitSystem(r)
    PROVE  SessionInv'
<1>1. req[r].pc = "branch" /\ UNCHANGED <<orchestrator, handle, orchs, tasks, overlap>>
  BY DEF InitSystem, At
<1>2. CASE system # None /\ Fresh(r) /\ UNCHANGED <<recording, system, systems>>
  BY <1>1, <1>2, FreshKeeps
<1>3. CASE Fail(r) /\ UNCHANGED <<system, systems>>
  BY <1>1, <1>3, FailKeeps
<1>4. CASE /\ system = None /\ system' = r /\ systems' = [systems EXCEPT ![r] = "setup"]
           /\ Go(r, "setting") /\ UNCHANGED recording
  BY <1>1, <1>4, NewSystemKeeps
<1> QED BY <1>2, <1>3, <1>4 DEF InitSystem

\* A system whose set-up fails is kept, half set up.
LEMMA SetUpFailsKeeps ==
    ASSUME SessionInv, NEW r \in Requests, req[r].pc = "setting", Fail(r),
           systems' = [systems EXCEPT ![r] = "half"],
           UNCHANGED <<system, orchestrator, handle, orchs, tasks, overlap>>
    PROVE  SessionInv'
<1> Always /\ (~overlap => InOrder)
  BY InvParts
<1>1. UNCHANGED <<system, orchestrator, handle, orchs, tasks, overlap>> /\ ~recording' /\ recording' \in BOOLEAN
  BY DEF Fail
<1>2. req[r].kind = "start" /\ req[r].pc = "setting"
  BY DEF Always, KindsFit, Typed, ReqRec, Kinds
<1>3. Moves(r, "over", None, "reap")
  BY GoFacts DEF Fail, Always, Places, Idle
<1>4. /\ systems' \in [Requests -> {"no", "setup", "up", "half", "cleaned", "left"}]
      /\ system # None => systems'[system] # "no"
  BY DEF Always, Typed, Pointed
<1>8. Always'
  <2>1. Typed' BY <1>1, <1>2, <1>3, <1>4 DEF Always, Typed, Moves
  <2>2. Pointed' BY <1>1, <1>2, <1>3, <1>4 DEF Always, Pointed
  <2>3. Untouched' BY <1>1, <1>2, <1>3, <1>4 DEF Always, Untouched, Moves
  <2>4. Wired' BY <1>1, <1>2, <1>3, <1>4 DEF Always, Wired, Moves
  <2>5. Created' BY <1>1, <1>2, <1>3, <1>4, CreatedKept DEF Always
  <2>6. KindsFit' BY <1>1, <1>2, <1>3, <1>4 DEF Always, KindsFit, Moves
  <2> QED BY <2>1, <2>2, <2>3, <2>4, <2>5, <2>6 DEF Always
<1>9. ASSUME ~overlap' PROVE InOrder'
  <2>0. InOrder BY <1>1, <1>9
  <2>7. /\ \A p \in Requests : p # r => req[p].pc \in Idle /\ req[p].then = "reap" /\ req[p].kind # "shutdown"
        /\ Alive = {}
    <3>1. Starting(r)
      BY <1>2 DEF Starting, AtWork
    <3>2. \A p \in Requests : p # r => req[p].pc \in Idle /\ req[p].kind # "shutdown"
      BY <1>2, <2>0, <3>1 DEF InOrder, Alone, Idle
    <3>3. \A p \in Requests : p # r => req[p].then = "reap"
      BY <3>2 DEF Always, Typed, ReqRec, Thens, KindsFit, Idle
    <3> QED BY <2>0, <3>1, <3>2, <3>3 DEF InOrder, OneLoop
  <2>8. system = r
    BY <1>2, <2>0 DEF InOrder, CurrentFits
  <2>1. Alone' BY <1>1, <1>2, <1>3, <1>4, <2>0, <2>7 DEF InOrder, Alone, Starting, Moves, AtWork, Idle
  <2>2. OneLoop' BY <1>1, <1>2, <1>3, <1>4, <2>0, <2>7 DEF InOrder, OneLoop, Alive, Starting, Moves, AtWork
  <2>3. StatusFits' BY <1>1, <1>2, <1>3, <1>4, <2>0, <2>7 DEF InOrder, StatusFits, Alive, BeingStopped, ShutDown, Stopping, Moves, AtWork
  <2>4. CurrentFits' BY <1>1, <1>2, <1>3, <1>4, <2>0, <2>7 DEF InOrder, CurrentFits, Alive, ShutDown, Moves, AtWork, Idle
  <2>5. OpenIsCurrent' BY <1>1, <1>2, <1>3, <1>4, <2>0, <2>7, <2>8 DEF InOrder, OpenIsCurrent, Open, Moves, Idle, Always, Typed
  <2> QED BY <2>1, <2>2, <2>3, <2>4, <2>5 DEF InOrder
<1> QED BY <1>8, <1>9, InvParts

LEMMA SetUpKeeps ==
    ASSUME SessionInv, NEW r \in Requests, SetUp(r)
    PROVE  SessionInv'
<1>1. req[r].pc = "setting" /\ UNCHANGED <<system, orchestrator, handle, orchs, tasks, overlap>>
  BY DEF SetUp, At
<1>2. CASE systems' = [systems EXCEPT ![r] = "half"] /\ Fail(r)
  BY <1>1, <1>2, SetUpFailsKeeps
<1>3. CASE systems' = [systems EXCEPT ![r] = "up"] /\ Fresh(r) /\ UNCHANGED recording
  <2>1. ~overlap => system = r /\ system # None
    BY <1>1, InvParts, NoneIsNoRequest DEF InOrder, CurrentFits
  <2> QED BY <1>1, <1>3, <2>1, FreshKeeps
<1> QED BY <1>2, <1>3 DEF SetUp

LEMMA CreateOrchestratorKeeps ==
    ASSUME SessionInv, NEW r \in Requests, CreateOrchestrator(r)
    PROVE  SessionInv'
<1> Always /\ (~overlap => InOrder)
  BY InvParts
<1>1. UNCHANGED <<system, handle, systems, tasks, overlap>> /\ orchestrator' = r
  BY DEF CreateOrchestrator
<1>2. req[r].kind = "start" /\ req[r].pc = "create" /\ req[r].then = "create"
  BY DEF CreateOrchestrator, At, Always, KindsFit, Typed, ReqRec, Kinds
<1>3. PICK pc \in {"over", "wiring"}, at \in Whats, then \in Thens :
          /\ Moves(r, pc, at, then)
          /\ pc = "over" => system = None /\ then = "reap" /\ ~recording' /\ recording' \in BOOLEAN
          /\ pc = "wiring" => system # None /\ then = "create" /\ recording' = recording
  <2>1. req[r].at \in Whats /\ None \in Whats /\ "reap" \in Thens /\ "create" \in Thens
    BY DEF Always, Typed, ReqRec, Whats, Thens
  <2>2. CASE system = None
    BY <2>1, <2>2, GoFacts DEF CreateOrchestrator, Fail, Always, Places, Idle
  <2>3. CASE system # None
    BY <1>2, <2>1, <2>3, GoFacts DEF CreateOrchestrator, Always, Places, AtWork
  <2> QED BY <2>2, <2>3
<1>4. /\ orchs' \in [Requests -> OrchRec]
      /\ \A o \in Requests : o # r => orchs'[o] = orchs[o]
      /\ orchs'[r].of = system
      /\ ~orchs'[r].ready /\ ~orchs'[r].running /\ ~orchs'[r].closed
      /\ orchs[r].of = None /\ ~orchs[r].running
  <2>1. orchs' = [orchs EXCEPT ![r].of = system] /\ system \in Requests \cup {None}
    BY DEF CreateOrchestrator, Always, Typed
  <2>2. orchs[r].of = None /\ ~orchs[r].ready /\ ~orchs[r].running /\ ~orchs[r].closed
    BY <1>2 DEF Always, Untouched
  <2> QED BY <2>1, <2>2 DEF Always, Typed, OrchRec
<1>5. \A t \in Requests : tasks[t].pc = "loop" => tasks[t].on # r
  BY <1>4 DEF Always, Pointed
<1>6. recording' \in BOOLEAN
  BY <1>3 DEF Always, Typed
<1>8. Always'
  <2>1. Typed' BY <1>1, <1>2, <1>3, <1>4, <1>5, <1>6 DEF Always, Typed, Moves
  <2>2. Pointed' BY <1>1, <1>2, <1>3, <1>4, <1>5, <1>6 DEF Always, Pointed, Wired
  <2>3. Untouched' BY <1>1, <1>2, <1>3, <1>4, <1>5, <1>6 DEF Always, Untouched, Moves
  <2>4. Wired' BY <1>1, <1>2, <1>3, <1>4, <1>5, <1>6 DEF Always, Wired, Moves
  <2>5. Created'
    <3>1. \A p \in Requests : req[p].pc \in {"wiring", "over"} => req'[p].pc \in {"wiring", "over"}
      BY <1>2, <1>3 DEF Moves
    <3>2. \A p \in Requests : req'[p].pc = "closing" => req[p].pc = "closing" /\ req'[p].at = req[p].at
      BY <1>3 DEF Moves
    <3>3. req'[r].pc \in {"wiring", "over"}
      BY <1>3 DEF Moves
    <3> QED BY <1>1, <3>1, <3>2, <3>3 DEF Always, Created
  <2>6. KindsFit' BY <1>1, <1>2, <1>3, <1>4, <1>5, <1>6 DEF Always, KindsFit, Moves
  <2> QED BY <2>1, <2>2, <2>3, <2>4, <2>5, <2>6 DEF Always
<1>9. ASSUME ~overlap' PROVE InOrder'
  <2>0. InOrder BY <1>1, <1>9
  <2>7. /\ \A p \in Requests : p # r => req[p].pc \in Idle /\ req[p].then = "reap" /\ req[p].kind # "shutdown"
        /\ Alive = {}
    <3>1. Starting(r)
      BY <1>2 DEF Starting, AtWork
    <3>2. \A p \in Requests : p # r => req[p].pc \in Idle /\ req[p].kind # "shutdown"
      BY <1>2, <2>0, <3>1 DEF InOrder, Alone, Idle
    <3>3. \A p \in Requests : p # r => req[p].then = "reap"
      BY <3>2 DEF Always, Typed, ReqRec, Thens, KindsFit, Idle
    <3> QED BY <2>0, <3>1, <3>2, <3>3 DEF InOrder, OneLoop
  <2>8. pc = "wiring" /\ system # None
    BY <1>2, <1>3, <2>0 DEF InOrder, CurrentFits
  <2>1. Alone' BY <1>1, <1>2, <1>3, <1>4, <1>5, <1>6, <2>0, <2>7 DEF InOrder, Alone, Starting, Moves, AtWork, Idle
  <2>2. OneLoop' BY <1>1, <1>2, <1>3, <1>4, <1>5, <1>6, <2>0, <2>7 DEF InOrder, OneLoop, Alive, Starting, Moves, AtWork
  <2>3. StatusFits' BY <1>1, <1>2, <1>3, <1>4, <1>5, <1>6, <2>0, <2>7 DEF InOrder, StatusFits, Alive, BeingStopped, ShutDown, Stopping, Moves, AtWork
  <2>4. CurrentFits'
    <3>1. \A p \in Requests : p # r => req'[p].pc \in Idle /\ req'[p].then = "reap"
      BY <1>3, <2>7 DEF Moves
    <3> QED BY <1>1, <1>3, <1>4, <2>7, <2>8, <3>1 DEF CurrentFits, Alive, Moves, Idle
  <2>5. OpenIsCurrent' BY <1>1, <1>2, <1>3, <1>4, <1>5, <1>6, <2>0, <2>7 DEF InOrder, OpenIsCurrent, Open, Moves, Idle
  <2> QED BY <2>1, <2>2, <2>3, <2>4, <2>5 DEF InOrder
<1> QED BY <1>8, <1>9, InvParts

-----------------------------------------------------------------------------
(* The tasks *)

\* A task ends: the status is off, or a stop is at work or has been.
LEMMA DoneKeeps ==
    ASSUME SessionInv, NEW t \in Requests, tasks[t].pc \in {"new", "loop"},
           tasks' = [tasks EXCEPT ![t].pc = "done"], recording' \in {recording, FALSE},
           UNCHANGED <<system, orchestrator, handle, systems, req, overlap>>,
           ~overlap => ~recording' \/ BeingStopped,
           orchs' \in [Requests -> OrchRec],
           \A o \in Requests :
              /\ orchs'[o].of = orchs[o].of /\ (orchs'[o].ready <=> orchs[o].ready)
              /\ (orchs'[o].closed <=> orchs[o].closed)
              /\ (orchs'[o].running => orchs[o].running /\ (tasks[t].pc = "loop" => o # tasks[t].on))
    PROVE  SessionInv'
<1> Always /\ (~overlap => InOrder)
  BY InvParts
<1>1. UNCHANGED <<system, orchestrator, handle, systems, req, overlap>> /\ recording' \in BOOLEAN
      /\ tasks[t].pc \in {"new", "loop"} /\ req[t].pc = "over"
  BY DEF Always, Typed, Untouched
<1>2. /\ tasks' \in [Requests -> TaskRec] /\ tasks'[t].pc = "done"
      /\ (tasks'[t].cancelled <=> tasks[t].cancelled)
      /\ \A u \in Requests : u # t => tasks'[u] = tasks[u]
  <2>1. "done" \in {"no", "new", "loop", "done"}
    OBVIOUS
  <2> QED BY <2>1 DEF Always, Typed, TaskRec
<1>3. /\ orchs' \in [Requests -> OrchRec]
      /\ \A o \in Requests :
            /\ orchs'[o].of = orchs[o].of /\ (orchs'[o].ready <=> orchs[o].ready)
            /\ (orchs'[o].closed <=> orchs[o].closed)
            /\ (orchs'[o].running => orchs[o].running /\ (tasks[t].pc = "loop" => o # tasks[t].on))
  OBVIOUS
<1>4. orchestrator # None => orchestrator \in Requests
  BY DEF Always, Typed
<1>8. Always'
  <2>1. Typed' BY <1>1, <1>2, <1>3, <1>4 DEF Always, Typed
  <2>2. Pointed' BY <1>1, <1>2, <1>3, <1>4 DEF Always, Pointed, Wired
  <2>3. Untouched' BY <1>1, <1>2, <1>3, <1>4 DEF Always, Untouched
  <2>4. Wired' BY <1>1, <1>2, <1>3, <1>4 DEF Always, Wired
  <2>5. Created' BY <1>1, <1>2, <1>3, <1>4 DEF Always, Created
  <2>6. KindsFit' BY <1>1, <1>2, <1>3, <1>4 DEF Always, KindsFit
  <2> QED BY <2>1, <2>2, <2>3, <2>4, <2>5, <2>6 DEF Always
<1>9. ASSUME ~overlap' PROVE InOrder'
  <2>0. InOrder BY <1>1, <1>9
  <2>7. Alive = {t} /\ handle = t
    BY <1>1, <2>0 DEF InOrder, OneLoop, Alive
  <2>8. Alive' = {}
    BY <1>2, <2>7 DEF Alive
  <2>9. \A u \in Requests : tasks'[u].pc # "loop" /\ (u # t => tasks[u].pc # "loop")
    BY <1>2, <2>7 DEF Alive
  <2>1. Alone' BY <1>1, <1>2, <1>3, <1>4, <2>0 DEF InOrder, Alone, Starting, AtWork, Idle
  <2>2. OneLoop'
    BY <1>1, <2>0, <2>8 DEF InOrder, OneLoop, Starting
  <2>3. StatusFits'
    <3>1. BeingStopped' <=> BeingStopped
      BY <1>1 DEF BeingStopped, ShutDown, Stopping
    <3>2. \A o \in Requests : ~orchs'[o].running
      BY <1>3, <2>0, <2>9 DEF InOrder, StatusFits
    <3> QED BY <1>1, <1>9, <2>8, <2>9, <3>1, <3>2 DEF StatusFits
  <2>4. CurrentFits'
    BY <1>1, <1>3, <1>4, <2>0, <2>8 DEF InOrder, CurrentFits
  <2>5. OpenIsCurrent' BY <1>1, <1>2, <1>3, <1>4, <2>0 DEF InOrder, OpenIsCurrent, Open
  <2> QED BY <2>1, <2>2, <2>3, <2>4, <2>5 DEF InOrder
<1> QED BY <1>8, <1>9, InvParts

LEMMA LoopBeginsKeeps ==
    ASSUME SessionInv, NEW t \in Requests, tasks[t].pc = "new",
           NEW c \in Requests, c = orchestrator, orchs[c].ready, c # None,
           tasks' = [tasks EXCEPT ![t].pc = "loop", ![t].on = c],
           orchs' = [orchs EXCEPT ![c].running = TRUE],
           UNCHANGED <<recording, system, orchestrator, handle, systems, req, overlap>>
    PROVE  SessionInv'
<1> Always /\ (~overlap => InOrder)
  BY InvParts
<1>1. UNCHANGED <<recording, system, orchestrator, handle, systems, req, overlap>>
      /\ tasks[t].pc = "new" /\ req[t].pc = "over" /\ ~tasks[t].cancelled
  BY DEF Always, Untouched, Wired
<1>2. /\ tasks' \in [Requests -> TaskRec] /\ tasks'[t].pc = "loop" /\ tasks'[t].on = c
      /\ (tasks'[t].cancelled <=> tasks[t].cancelled)
      /\ \A u \in Requests : u # t => tasks'[u] = tasks[u]
  <2>1. "loop" \in {"no", "new", "loop", "done"} /\ c \in Requests \cup {None}
    OBVIOUS
  <2> QED BY <2>1 DEF Always, Typed, TaskRec
<1>3. /\ orchs' \in [Requests -> OrchRec]
      /\ \A o \in Requests :
            /\ orchs'[o].of = orchs[o].of /\ (orchs'[o].ready <=> orchs[o].ready)
            /\ (orchs'[o].closed <=> orchs[o].closed)
            /\ (o # c => orchs'[o] = orchs[o])
      /\ orchs'[c].running
  <2>1. TRUE \in BOOLEAN
    OBVIOUS
  <2> QED BY <2>1 DEF Always, Typed, OrchRec
<1>4. orchs[c].of # None /\ req[c].pc \in {"wiring", "over"}
  BY DEF Always, Wired, Created
<1>8. Always'
  <2>1. Typed' BY <1>1, <1>2, <1>3, <1>4 DEF Always, Typed
  <2>2. Pointed'
    <3>1. system' # None => systems'[system'] # "no"
      BY <1>1 DEF Always, Pointed
    <3>2. orchestrator' # None => ~orchs'[orchestrator'].closed
      BY <1>1, <1>3 DEF Always, Pointed
    <3>3. handle' # None => tasks'[handle'].pc # "no"
      BY <1>1, <1>2 DEF Always, Pointed, Typed
    <3>4. \A u \in Requests : tasks'[u].pc = "loop" => orchs'[tasks'[u].on].of # None
      BY <1>2, <1>3, <1>4 DEF Always, Pointed, Wired
    <3> QED BY <3>1, <3>2, <3>3, <3>4 DEF Pointed
  <2>3. Untouched' BY <1>1, <1>2, <1>3, <1>4 DEF Always, Untouched
  <2>4. Wired' BY <1>1, <1>2, <1>3, <1>4 DEF Always, Wired
  <2>5. Created' BY <1>1, <1>2, <1>3, <1>4 DEF Always, Created
  <2>6. KindsFit' BY <1>1, <1>2, <1>3, <1>4 DEF Always, KindsFit
  <2> QED BY <2>1, <2>2, <2>3, <2>4, <2>5, <2>6 DEF Always
<1>9. ASSUME ~overlap' PROVE InOrder'
  <2>0. InOrder BY <1>1, <1>9
  <2>7. Alive = {t} /\ handle = t
    BY <1>1, <2>0 DEF InOrder, OneLoop, Alive
  <2>8. Alive' = Alive
    BY <1>1, <1>2 DEF Alive
  <2>9. \A u \in Requests : u # t => tasks[u].pc # "loop"
    BY <2>7 DEF Alive
  <2>1. Alone' BY <1>1, <1>2, <1>3, <1>4, <2>0 DEF InOrder, Alone, Starting, AtWork, Idle
  <2>2. OneLoop'
    BY <1>1, <2>0, <2>8 DEF InOrder, OneLoop, Starting
  <2>3. StatusFits'
    <3>1. \A o \in Requests : o # c => ~orchs[o].running
      BY <1>1, <2>0, <2>9 DEF InOrder, StatusFits
    <3> QED BY <1>1, <1>2, <1>3, <2>0, <2>7, <2>8, <2>9, <3>1 DEF InOrder, StatusFits
  <2>4. CurrentFits'
    BY <1>1, <1>2, <1>3, <2>0, <2>7, <2>8 DEF InOrder, CurrentFits, ShutDown
  <2>5. OpenIsCurrent' BY <1>1, <1>2, <1>3, <1>4, <2>0 DEF InOrder, OpenIsCurrent, Open
  <2> QED BY <2>1, <2>2, <2>3, <2>4, <2>5 DEF InOrder
<1> QED BY <1>8, <1>9, InvParts

LEMMA TaskBeginsKeeps ==
    ASSUME SessionInv, NEW t \in Requests, TaskBegins(t)
    PROVE  SessionInv'
<1> Always /\ (~overlap => InOrder)
  BY InvParts
<1>1. tasks[t].pc = "new" /\ UNCHANGED <<system, orchestrator, handle, systems, req, overlap>>
  BY DEF TaskBegins
<1>2. orchs \in [Requests -> OrchRec] /\ recording \in BOOLEAN
      /\ (orchestrator # None => orchestrator \in Requests)
  BY DEF Always, Typed
<1>3. CASE Ready(orchestrator) /\ Running(orchestrator)
  <2>1. tasks' = [tasks EXCEPT ![t].pc = "done"] /\ UNCHANGED <<orchs, recording>>
    BY <1>3 DEF TaskBegins
  <2>2. overlap
    <3> SUFFICES ASSUME InOrder PROVE FALSE
      OBVIOUS
    <3>1. Alive \subseteq {handle} /\ t \in Alive
      BY <1>1 DEF InOrder, OneLoop, Alive
    <3>2. PICK u \in Requests : tasks[u].pc = "loop"
      BY <1>2, <1>3 DEF Running, InOrder, StatusFits
    <3>3. u \in Alive /\ u # t
      BY <1>1, <3>2 DEF Alive
    <3> QED BY <3>1, <3>3
  <2> QED BY <1>1, <1>2, <2>1, <2>2, DoneKeeps
<1>4. CASE ~(Ready(orchestrator) /\ Running(orchestrator)) /\ CanLoop(orchestrator)
  <2>1. tasks' = [tasks EXCEPT ![t].pc = "loop", ![t].on = orchestrator]
        /\ orchs' = [orchs EXCEPT ![orchestrator].running = TRUE] /\ recording' = recording
    BY <1>4 DEF TaskBegins
  <2>2. orchestrator \in Requests /\ orchestrator # None /\ orchs[orchestrator].ready
    BY <1>2, <1>4 DEF CanLoop, Ready
  <2> QED BY <1>1, <2>1, <2>2, LoopBeginsKeeps
<1>5. CASE ~(Ready(orchestrator) /\ Running(orchestrator)) /\ ~CanLoop(orchestrator)
  <2>1. tasks' = [tasks EXCEPT ![t].pc = "done"] /\ recording' = FALSE /\ orchs' = orchs
    BY <1>5 DEF TaskBegins
  <2> QED BY <1>1, <1>2, <2>1, DoneKeeps
<1> QED BY <1>3, <1>4, <1>5

LEMMA LoopEndsKeeps ==
    ASSUME SessionInv, NEW t \in Requests, LoopEnds(t)
    PROVE  SessionInv'
<1> Always /\ (~overlap => InOrder)
  BY InvParts
<1>1. /\ tasks[t].pc = "loop" /\ ~orchs[tasks[t].on].running
      /\ tasks' = [tasks EXCEPT ![t].pc = "done"]
      /\ UNCHANGED <<recording, system, orchestrator, handle, systems, orchs, req, overlap>>
  BY DEF LoopEnds
<1>2. orchs \in [Requests -> OrchRec]
  BY DEF Always, Typed
<1>3. ~overlap => BeingStopped
  BY <1>1 DEF InOrder, StatusFits
<1> QED BY <1>1, <1>2, <1>3, DoneKeeps

LEMMA LoopCancelledKeeps ==
    ASSUME SessionInv, NEW t \in Requests, LoopCancelled(t)
    PROVE  SessionInv'
<1> Always /\ (~overlap => InOrder)
  BY InvParts
<1>1. /\ tasks[t].pc = "loop" /\ tasks[t].cancelled
      /\ tasks' = [tasks EXCEPT ![t].pc = "done"]
      /\ orchs' = [orchs EXCEPT ![tasks[t].on].running = FALSE]
      /\ UNCHANGED <<recording, system, orchestrator, handle, systems, req, overlap>>
  BY DEF LoopCancelled
<1>2. PICK o \in Requests : o = tasks[t].on
  BY <1>1 DEF Always, Wired
<1>3. Stops(o)
  BY <1>1, <1>2, OrchStops DEF Always
<1>4. ~overlap => BeingStopped
  BY <1>1 DEF InOrder, StatusFits
<1> QED BY <1>1, <1>2, <1>3, <1>4, DoneKeeps DEF Stops

-----------------------------------------------------------------------------
(* The theorems *)

\* The server starts with no system, orchestrator, task or request.
THEOREM SessionInvInit == SessionInit => SessionInv
<1> SUFFICES ASSUME SessionInit PROVE SessionInv
  OBVIOUS
<1>1. /\ recording = FALSE /\ overlap = FALSE
      /\ system = None /\ orchestrator = None /\ handle = None
      /\ systems = [r \in Requests |-> "no"]
  BY DEF SessionInit
<1>2. /\ orchs \in [Requests -> OrchRec]
      /\ \A r \in Requests : orchs[r].of = None /\ ~orchs[r].ready /\ ~orchs[r].running /\ ~orchs[r].closed
  BY DEF SessionInit, OrchRec
<1>3. /\ tasks \in [Requests -> TaskRec]
      /\ \A r \in Requests : tasks[r].pc = "no" /\ ~tasks[r].cancelled
  BY DEF SessionInit, TaskRec
<1>4. /\ req \in [Requests -> ReqRec]
      /\ \A r \in Requests : req[r].pc = "unsent" /\ req[r].kind = "start" /\ req[r].then = "reap"
  BY DEF SessionInit, ReqRec, Places, Idle, Kinds, Whats, Thens
<1>5. Always
  BY <1>1, <1>2, <1>3, <1>4 DEF Always, Typed, Pointed, Untouched, Wired, Created, KindsFit
<1>6. InOrder
  <2>1. Alive = {} /\ Open = {} /\ \A r \in Requests : ~Starting(r)
    BY <1>1, <1>3, <1>4 DEF Alive, Open, Starting, AtWork
  <2> QED BY <1>1, <1>2, <1>3, <1>4, <2>1
        DEF InOrder, Alone, OneLoop, StatusFits, CurrentFits, OpenIsCurrent
<1> QED BY <1>5, <1>6, InvParts

\* SessionInv is inductive: every step of a request and of a task keeps it.
THEOREM SessionInvInductive == SessionInv /\ [SessionNext]_rvars => SessionInv'
<1> SUFFICES ASSUME SessionInv, [SessionNext]_rvars PROVE SessionInv'
  OBVIOUS
<1>1. CASE UNCHANGED rvars
  BY <1>1 DEF rvars, SessionInv, SessionTypeOK, Untouched, Wired, Created, KindsFit, InOrder, Alone,
              OneLoop, StatusFits, CurrentFits, OpenIsCurrent, Alive, Open, Starting, Stopping,
              ShutDown, BeingStopped
<1>2. ASSUME NEW r \in Requests,
             \/ Start(r) \/ Stop(r) \/ Shutdown(r)
             \/ CompareConfig(r) \/ CloseOrchestrator(r) \/ Closed(r)
             \/ PauseOrchestrator(r) \/ Paused(r)
             \/ Reap(r) \/ TaskReaped(r) \/ CleanUp(r) \/ CleanedUp(r)
      PROVE  SessionInv'
  BY <1>2, StartKeeps, StopKeeps, ShutdownKeeps, CompareConfigKeeps, CloseOrchestratorKeeps,
     ClosedKeeps, PauseOrchestratorKeeps, PausedKeeps, ReapKeeps, TaskReapedKeeps, CleanUpKeeps,
     CleanedUpKeeps
<1>3. ASSUME NEW r \in Requests,
             \/ ResumePaused(r) \/ InitSystem(r) \/ SetUp(r)
             \/ CreateOrchestrator(r) \/ WireOrchestrator(r)
             \/ TaskBegins(r) \/ LoopEnds(r) \/ LoopCancelled(r)
      PROVE  SessionInv'
  BY <1>3, ResumePausedKeeps, InitSystemKeeps, SetUpKeeps, CreateOrchestratorKeeps,
     WireOrchestratorKeeps, TaskBeginsKeeps, LoopEndsKeeps, LoopCancelledKeeps
<1> QED BY <1>1, <1>2, <1>3 DEF SessionNext

\* The inductive invariant holds in every state that is reached.
THEOREM SessionInvariance == SessionSpec => []SessionInv
<1> QED BY SessionInvInit, SessionInvInductive, PTL DEF SessionSpec

\* The globals of server.py name what exists: a system that was created, an orchestrator
\* that is not closed, a task; and a loop runs on an orchestrator that has a system.
THEOREM SessionTypeCorrect == SessionSpec => []SessionTypeOK
<1>1. SessionInv => SessionTypeOK
  BY DEF SessionInv
<1> QED BY <1>1, SessionInvariance, PTL

\* For any number of requests, of which any number are at work at once: while no start
\* overlaps another request, the server knows its one loop, its status is true when
\* nothing is at work, and a shutdown leaves neither a loop nor an open system.
THEOREM ServerKnowsItsLoop == SessionSpec => []LoopIsKnown
<1>1. ASSUME SessionInv PROVE LoopIsKnown
  <2> SUFFICES ASSUME InOrder PROVE LoopIsKnown
    BY <1>1 DEF SessionInv, LoopIsKnown
  <2>1. Alive \subseteq {handle}
    BY DEF InOrder, OneLoop
  <2>2. ASSUME Quiet, ~Ended
        PROVE  /\ recording <=> Alive # {}
               /\ \A t \in Alive :
                     /\ orchestrator # None /\ ~orchs[orchestrator].closed
                     /\ orchs[orchestrator].of = system
                     /\ tasks[t].pc = "loop" => tasks[t].on = orchestrator
    <3>1. ~ShutDown
      <4>1. ASSUME NEW r \in Requests, req[r].kind = "shutdown" PROVE FALSE
        <5>1. req[r].pc \in Idle /\ req[r].pc # "unsent"
          BY <1>1, <2>2, <4>1 DEF Quiet, SessionInv, KindsFit
        <5> QED BY <2>2, <4>1, <5>1 DEF Ended, At, Idle
      <4> QED BY <4>1 DEF ShutDown
    <3>2. ~BeingStopped
      BY <2>2, <3>1 DEF BeingStopped, Stopping, Quiet, Idle, AtWork
    <3>3. recording <=> Alive # {}
      BY <3>2 DEF InOrder, StatusFits
    <3>4. orchestrator # None => ~orchs[orchestrator].closed
      BY <1>1 DEF SessionInv, SessionTypeOK
    <3> QED BY <3>1, <3>3, <3>4 DEF InOrder, CurrentFits
  <2>3. ASSUME Ended, orchestrator = None
        PROVE  Alive = {} /\ \A s \in Requests : systems[s] \in {"no", "cleaned", "left"}
    <3>1. PICK r \in Requests : req[r].pc = "over" /\ req[r].kind = "shutdown"
      BY <2>3 DEF Ended, At
    <3>2. Alive = {} /\ Open = {}
      BY <2>3, <3>1 DEF InOrder, OneLoop, OpenIsCurrent
    <3>3. systems \in [Requests -> {"no", "setup", "up", "half", "cleaned", "left"}]
      BY <1>1 DEF SessionInv, SessionTypeOK
    <3> QED BY <3>2, <3>3 DEF Open
  <2> QED BY <2>1, <2>2, <2>3 DEF LoopIsKnown
<1> QED BY <1>1, SessionInvariance, PTL
=============================================================================
