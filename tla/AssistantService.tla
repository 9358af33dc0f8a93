-------------------------- MODULE AssistantService --------------------------
(* The assistant beside the recording: one background job that asks the model    *)
(* for suggestions on the current context, the settings, focus and feedback of   *)
(* the user that make what it works on obsolete, and chats that share the        *)
(* model's slots with it (assistant_service.py, assistant_chat.py, RefreshGate   *)
(* of assistant_context.py).                                                     *)
(*                                                                              *)
(* A context is told apart by what its id hashes: what was observed, the edits   *)
(* of evidence, the chosen focus and the feedback that is recent.  Passing time   *)
(* lets the gate open and advice expire at any moment, and days make feedback    *)
(* old.  One conversation is modelled.                                           *)
EXTENDS Integers, FiniteSets, Sequences

CONSTANTS
    Suggestions,     \* suggestions the model may come up with
    Statuses,        \* what the user may say of one
    Senders,         \* chat requests, a retry of one included
    Slots,           \* _model_slots
    Window, Newest,  \* the days feedback is recent for (30), and how much is kept (20)
    MaxDays, MaxFacts, MaxEdits, MaxChanges, MaxRestarts,  \* bounds
    None

ASSUME AssistantAssumption ==
    /\ Statuses \subseteq {"dismissed", "completed", "discussed"}
    /\ Slots \in Nat \ {0} /\ Senders \subseteq Nat
    /\ {Window, Newest} \subseteq Nat \ {0}
    /\ {MaxDays, MaxFacts, MaxEdits, MaxChanges, MaxRestarts} \subseteq Nat

VARIABLES
    day,      \* the day it is
    facts,    \* recent observations: none at 0
    edits,    \* edits of entities that replies cite
    goal,     \* whether the goal that can be focused on is there
    state,    \* AssistantState in memory
    saved,    \* state.json
    epoch,    \* _epoch
    context,  \* the context of the last tick
    gate,     \* RefreshGate: latest, cached, in_flight
    cached,   \* the suggestions to show
    job,      \* the suggestion job: where it is, its context and epoch
    chat,     \* the chat requests
    turns,    \* the stored conversation
    left      \* bounds still to spend

asvars == <<day, facts, edits, goal, state, saved, epoch, context, gate, cached, job, chat, turns, left>>

Foci == {"all", "goal", "gone"}  \* None, a chosen goal, chosen goals that are all gone
Feedbacks == [Suggestions -> [status : Statuses \cup {"none"}, day : 0..MaxDays]]
State == [enabled : BOOLEAN, focus : Foci, feedback : Feedbacks]
Context == [facts : 0..MaxFacts, edits : 0..MaxEdits, goal : BOOLEAN, focus : Foci,
            feedback : Feedbacks]
Epochs == 0..MaxChanges

\* Mutant: the slot of the strategy's call is kept for the reply's.
InCallUntilReply == {"call", "call1", "ask2", "call2"}

\* Where a job or a chat holds a slot.
InCall == {"call", "call1", "call2"}

AssistantTypeOK ==
    /\ day \in 0..MaxDays
    /\ facts \in 0..MaxFacts /\ edits \in 0..MaxEdits /\ goal \in BOOLEAN
    /\ state \in State /\ saved \in State
    /\ epoch \in Epochs
    /\ context = None \/ context \in Context
    /\ \A field \in DOMAIN gate : gate[field] = None \/ gate[field] \in Context
    /\ cached = None \/ cached \in [opts : SUBSET Suggestions, ctx : Context, epoch : Epochs]
    /\ job.pc \in {"none", "slot", "call"} /\ (job.pc # "none" => gate.inFlight = job.ctx)
    /\ \A n \in Senders : chat[n].pc \in {"none", "lock", "ask1", "call1", "ask2", "call2", "storing", "done"}
    /\ Cardinality({n \in Senders : chat[n].pc \in InCall}) + (IF job.pc = "call" THEN 1 ELSE 0) <= Slots

NoJob == [pc |-> "none", ctx |-> None, epoch |-> 0]
NoChat == [pc |-> "none", id |-> None, rev |-> 0, epoch |-> 0, edits |-> 0, current |-> FALSE]
NoFeedback == [status |-> "none", day |-> 0]
NewGate == [latest |-> None, cached |-> None, inFlight |-> None]
Spend(b) == left[b] > 0 /\ left' = [left EXCEPT ![b] = @ - 1]

AssistantInit ==
    /\ day = 0 /\ facts = 0 /\ edits = 0 /\ goal = TRUE
    /\ state = [enabled |-> FALSE, focus |-> "all", feedback |-> [s \in Suggestions |-> NoFeedback]]
    /\ saved = state
    /\ epoch = 0 /\ context = None /\ gate = NewGate /\ cached = None /\ job = NoJob
    /\ chat = [n \in Senders |-> NoChat] /\ turns = <<>>
    /\ left = [facts |-> MaxFacts, edits |-> MaxEdits, change |-> MaxChanges, restart |-> MaxRestarts]

\* _lock is held over the thread that stores a turn; every other section under it
\* runs without a step of another one in between.
LockFree == \A n \in Senders : chat[n].pc # "storing"

\* Mutant: one request more than there are slots gets in.
SlotFreeAtLimit == Cardinality({n \in Senders : chat[n].pc \in InCall}) + (IF job.pc = "call" THEN 1 ELSE 0) <= Slots

SlotFree == Cardinality({n \in Senders : chat[n].pc \in InCall}) + (IF job.pc = "call" THEN 1 ELSE 0) < Slots

-----------------------------------------------------------------------------
(* What happens in the database, and the days that pass *)

Observe ==
    /\ Spend("facts") /\ facts' = facts + 1
    /\ UNCHANGED <<day, edits, goal, state, saved, epoch, context, gate, cached, job, chat, turns>>

EditEvidence ==
    /\ Spend("edits") /\ edits' = edits + 1 /\ goal' \in {goal, FALSE}
    /\ UNCHANGED <<day, facts, state, saved, epoch, context, gate, cached, job, chat, turns>>

\* Days are counted from the first feedback on.
DayPasses ==
    /\ \E s \in Suggestions : state.feedback[s].status # "none"
    /\ day < MaxDays /\ day' = day + 1
    /\ UNCHANGED <<facts, edits, goal, state, saved, epoch, context, gate, cached, job, chat, turns, left>>

-----------------------------------------------------------------------------
(* The context and the suggestion job *)

\* _snapshot drops a focus whose goal is gone, and saves that.
Focused(s) == IF s.focus = "goal" /\ ~goal THEN [s EXCEPT !.focus = "gone"] ELSE s

\* recent_suggestions: feedback counts for a while, and is forgotten then.
RecentSuggestions(feedback) ==
    [s \in Suggestions |-> IF feedback[s].day \in 0..(day - Window) THEN NoFeedback ELSE feedback[s]]

\* The context is told of the recent feedback only.
ContextOf(s) == [facts |-> facts, edits |-> edits, goal |-> goal, focus |-> s.focus, feedback |-> RecentSuggestions(s.feedback)]

Observed(g, ctx) == [g EXCEPT !.latest = ctx]

\* begin: a context that has no advice yet, after a quiet time, or an explicit one.
Begins(g, explicit) ==
    /\ g.latest # None /\ g.inFlight = None
    /\ explicit \/ g.latest # g.cached

\* tick: look at the context, and start a job if the gate opens for it.  The gate
\* may stay shut for a while unless the request is explicit.
Tick(explicit) ==
    /\ LockFree
    /\ LET s == Focused(state)
           ctx == ContextOf(s)
           asks == explicit \/ context = None
           works == s.enabled /\ s.focus # "gone" /\ facts > 0
       IN /\ state' = s
          /\ saved' = IF s = state THEN saved ELSE s
          /\ context' = ctx
          /\ cached' = IF s.enabled /\ s.focus # "gone" /\ facts = 0 THEN None ELSE cached
          /\ \E expired \in BOOLEAN, open \in BOOLEAN :
                LET seen == Observed(gate, ctx)
                    g == IF expired /\ works THEN [seen EXCEPT !.cached = None] ELSE seen
                    starts == works /\ job.pc = "none" /\ Begins(g, asks) /\ (asks \/ open)
                IN /\ expired => cached # None /\ cached.opts # {}
                   /\ gate' = IF starts THEN [g EXCEPT !.inFlight = ctx] ELSE g
                   /\ job' = IF starts THEN [pc |-> "slot", ctx |-> ctx, epoch |-> epoch] ELSE job
    /\ UNCHANGED <<day, facts, edits, goal, epoch, chat, turns, left>>

\* finish: a context superseded meanwhile is not taken for cached.
Finished(g, ctx, success) ==
    IF g.inFlight # ctx THEN g
    ELSE [g EXCEPT !.inFlight = None, !.cached = IF success /\ ctx = g.latest THEN ctx ELSE @]

\* The slot is there: the call begins, unless the assistant was disabled.
JobCalls ==
    /\ job.pc = "slot" /\ SlotFree /\ state.enabled
    /\ job' = [job EXCEPT !.pc = "call"]
    /\ UNCHANGED <<day, facts, edits, goal, state, saved, epoch, context, gate, cached, chat, turns, left>>

Suppressed(feedback) == {s \in Suggestions : feedback[s].status \in {"dismissed", "completed"}}

\* The answer is validated against the context of the call, and kept when the
\* context, the epoch and the settings are still those of the call.
JobEnds(opts) ==
    /\ job.pc = "call" /\ LockFree /\ job' = NoJob
    /\ opts \subseteq Suggestions \ Suppressed(job.ctx.feedback)
    /\ state' = Focused(state) /\ saved' = IF state' = state THEN saved ELSE state'
    /\ context' = ContextOf(state')
    /\ LET success == job.epoch = epoch /\ state'.enabled /\ context' = job.ctx
       IN /\ cached' = IF success THEN [opts |-> opts, ctx |-> job.ctx, epoch |-> job.epoch] ELSE cached
          /\ gate' = Finished(Observed(gate, context'), job.ctx, success)
    /\ UNCHANGED <<day, facts, edits, goal, epoch, chat, turns, left>>

\* The call fails or takes too long, its answer is refused, or the assistant was
\* disabled meanwhile.
JobFails ==
    /\ job.pc # "none" /\ (job.pc = "slot" => ~state.enabled)
    /\ job' = NoJob
    /\ gate' = Finished(gate, job.ctx, FALSE)
    /\ UNCHANGED <<day, facts, edits, goal, state, saved, epoch, context, cached, chat, turns, left>>

-----------------------------------------------------------------------------
(* The user's requests *)

\* Mutant: what is shown stays until the next job.
InvalidateKeepsCached ==
    /\ epoch' = epoch + 1 /\ job' = NoJob /\ gate' = NewGate
    /\ UNCHANGED cached

\* _invalidate: the job is cancelled and what is shown is dropped.
Invalidate ==
    /\ epoch' = epoch + 1 /\ job' = NoJob /\ gate' = NewGate
    /\ cached' = None

\* The change is made in memory, then saved; the save may fail, and the request
\* with it.
Change(new) ==
    /\ LockFree /\ Spend("change")
    /\ Invalidate
    /\ state' = new
    /\ saved' \in {saved, new}
    /\ UNCHANGED <<day, facts, edits, goal, context, chat, turns>>

Settings(on) == Change([state EXCEPT !.enabled = on])

Refine(focus) ==
    /\ state.enabled /\ (focus = "goal" => goal)
    /\ Change([Focused(state) EXCEPT !.focus = focus])

\* The feedback kept of all that is given: the newest of what is recent.
Kept(feedback, names) ==
    LET given == {s \in Suggestions : feedback[s].status # "none"}
    IN /\ names \subseteq given
       /\ Cardinality(names) <= Newest /\ (names # given => Cardinality(names) = Newest)
       /\ \A s \in names, o \in given \ names : feedback[o].day <= feedback[s].day

\* feedback: what is said now is the newest, and what was said of it before goes.
Feedback(s, status) ==
    /\ cached # None /\ s \in cached.opts
    /\ LET given == [RecentSuggestions(state.feedback) EXCEPT ![s] = [status |-> status, day |-> day]]
       IN \E names \in SUBSET Suggestions :
             /\ s \in names /\ Kept(given, names)
             /\ Change([state EXCEPT !.feedback =
                           [o \in Suggestions |-> IF o \in names THEN given[o] ELSE NoFeedback]])

-----------------------------------------------------------------------------
(* Chat *)

chatAlone == <<day, facts, edits, goal, state, saved, epoch, context, gate, cached, job>>

\* A client sends a message to the revision it knows, or sends it once more.
Send(n, id, rev) ==
    /\ chat[n].pc = "none" /\ state.enabled /\ rev \in 0..Len(turns)
    /\ \A m \in Senders : chat[m].id = id => chat[m].rev = rev
    /\ chat' = [chat EXCEPT ![n] = [NoChat EXCEPT !.pc = "lock", !.id = id, !.rev = rev]]
    /\ UNCHANGED <<chatAlone, turns, left>>

SessionFree == \A m \in Senders : chat[m].pc \in {"none", "lock", "done"}

Over(c) == [NoChat EXCEPT !.pc = "done", !.id = c.id, !.rev = c.rev]
Answered(n) == chat' = [chat EXCEPT ![n] = Over(chat[n])]

\* The conversation is loaded: the last request is answered again from it, another
\* revision is refused, and what else comes is prepared on what is known now.
LoadSession(n) ==
    /\ chat[n].pc = "lock" /\ SessionFree
    /\ IF ~state.enabled \/ chat[n].rev # Len(turns)
          \/ (turns # <<>> /\ turns[Len(turns)].id = chat[n].id)
       THEN Answered(n)
       ELSE chat' = [chat EXCEPT ![n].pc = "ask1", ![n].epoch = epoch, ![n].edits = edits]
    /\ UNCHANGED <<chatAlone, turns, left>>

\* The model is asked, once a slot is free: for a strategy, then for the reply.
CallModel(n) ==
    /\ SlotFree /\ state.enabled
    /\ \/ chat[n].pc = "ask1" /\ chat' = [chat EXCEPT ![n].pc = "call1"]
       \/ chat[n].pc = "ask2" /\ chat' = [chat EXCEPT ![n].pc = "call2"]
    /\ UNCHANGED <<chatAlone, turns, left>>

\* The strategy is there, answered or implied by the request; settings changed
\* meanwhile end the request.
StrategyChosen(n) ==
    /\ chat[n].pc \in {"ask1", "call1"}
    /\ IF chat[n].epoch = epoch THEN chat' = [chat EXCEPT ![n].pc = "ask2"] ELSE Answered(n)
    /\ UNCHANGED <<chatAlone, turns, left>>

\* Mutant: changed settings are not looked at again before the turn is stored.
ReplyFitsAnyEpoch(n, cites) == state.enabled /\ (cites => chat[n].edits = edits)

\* Mutant: evidence that was edited meanwhile is still cited.
ReplyCitesAnything(n, cites) == state.enabled /\ chat[n].epoch = epoch

\* An edit of something the reply does not cite refuses nothing.
ReplyFits(n, cites) ==
    /\ state.enabled /\ chat[n].epoch = epoch
    /\ cites => chat[n].edits = edits

\* The reply is there, and is checked under the lock: a thread stores it, or the
\* request is refused.
Reply(n) ==
    /\ chat[n].pc = "call2" /\ LockFree
    /\ \E cites \in BOOLEAN :
          IF ReplyFits(n, cites)
          THEN chat' = [chat EXCEPT ![n].pc = "storing", ![n].current = cites => chat[n].edits = edits]
          ELSE Answered(n)
    /\ UNCHANGED <<chatAlone, turns, left>>

\* The turn of a request, with the epochs it was prepared and stored in, and whether
\* what it cites was then as it had been told to the model.
Turn(n) == [id |-> chat[n].id, rev |-> chat[n].rev, prepared |-> chat[n].epoch, stored |-> epoch,
            current |-> chat[n].current]

StoreTurn(n) ==
    /\ chat[n].pc = "storing"
    /\ turns' = Append(turns, Turn(n))
    /\ Answered(n)
    /\ UNCHANGED <<chatAlone, left>>

\* The call fails, takes too long or answers what is refused, the turn cannot be
\* written, or the assistant was disabled while the request waited.
ChatFails(n) ==
    /\ \/ chat[n].pc \in {"call1", "call2", "storing"}
       \/ chat[n].pc \in {"ask1", "ask2"} /\ ~state.enabled
    /\ Answered(n)
    /\ UNCHANGED <<chatAlone, turns, left>>

-----------------------------------------------------------------------------
\* The process ends and comes back: what was in memory is lost, a turn that was
\* being stored is there or not.
Restart ==
    /\ Spend("restart")
    /\ state' = saved
    /\ epoch' = 0 /\ context' = None /\ gate' = NewGate /\ cached' = None /\ job' = NoJob
    /\ turns' \in {turns} \cup {Append(turns, Turn(n)) : n \in {m \in Senders : chat[m].pc = "storing"}}
    /\ chat' = [n \in Senders |-> IF chat[n].pc = "none" THEN chat[n] ELSE Over(chat[n])]
    /\ UNCHANGED <<day, facts, edits, goal, saved>>

ChatStep(n) ==
    \/ LoadSession(n) \/ CallModel(n) \/ StrategyChosen(n)
    \/ Reply(n) \/ StoreTurn(n) \/ ChatFails(n)

JobAnswered == JobFails \/ \E opts \in SUBSET Suggestions : JobEnds(opts)

AssistantNext ==
    \/ Observe \/ EditEvidence \/ DayPasses
    \/ \E explicit \in BOOLEAN : Tick(explicit)
    \/ JobCalls \/ JobAnswered
    \/ \E on \in BOOLEAN : Settings(on)
    \/ \E focus \in {"all", "goal"} : Refine(focus)
    \/ \E s \in Suggestions, status \in Statuses : Feedback(s, status)
    \/ \E n \in Senders, rev \in 0..Len(turns) : \E id \in {m \in Senders : m <= n} : Send(n, id, rev)
    \/ \E n \in Senders : ChatStep(n)
    \/ Restart

\* A call to the model ends or is timed out, and waiting tasks run again; the
\* semaphore wakes who waits in order, so no row of jobs keeps a chat from its slot.
AssistantFairness ==
    /\ WF_asvars(JobCalls) /\ WF_asvars(JobAnswered)
    /\ \A n \in Senders : WF_asvars(ChatStep(n)) /\ SF_asvars(CallModel(n))

AssistantSpec == AssistantInit /\ [][AssistantNext]_asvars /\ AssistantFairness

-----------------------------------------------------------------------------
(* Properties *)

\* Nothing is answered to a user of an earlier moment.  Advice that is shown was made
\* for the focus he has now, after his last change of settings, and holds nothing
\* that he dismissed within the days feedback counts and that newer feedback has not
\* pushed out, whichever job answers late.  And whatever clients send again, and
\* whenever they do, a request has at most one turn, each turn answers the
\* conversation as its client knew it, no change of settings lies between what a
\* turn was prepared on and its storing, and nothing it cites was edited before the
\* reply was accepted.
AnswersAreCurrent ==
    /\ state.enabled /\ cached # None /\ cached.ctx = context =>
           /\ cached.ctx.focus = state.focus
           /\ cached.opts \cap Suppressed(RecentSuggestions(state.feedback)) = {}
           /\ cached.epoch = epoch
    /\ \A i, j \in DOMAIN turns : turns[i].id = turns[j].id => i = j
    /\ \A i \in DOMAIN turns :
           turns[i].rev = i - 1 /\ turns[i].prepared = turns[i].stored /\ turns[i].current

\* A suggestion job and chats that wait for each other's slots and locks all come to
\* an end: again and again no job is under way, and no chat that was sent.
EverythingEnds ==
    /\ []<>(job.pc = "none")
    /\ []<>(\A n \in Senders : chat[n].pc \in {"none", "done"})
=============================================================================
