----------------------- MODULE AssistantService_proofs -----------------------
(***************************************************************************)
(* Proofs about the assistant, for any suggestions, senders, slots and     *)
(* bounds: what is shown and stored is current, every part keeps its type, *)
(* and the calls to the model never exceed its slots.                      *)
(***************************************************************************)
EXTENDS AssistantService, FiniteSetTheorems, TLAPS

Working == {"ask1", "call1", "ask2", "call2", "storing"}

ChatRecord == [pc : Working \cup {"none", "lock", "done"}, id : Senders \cup {None},
               rev : Nat, epoch : Nat, edits : Nat, current : BOOLEAN]
TurnRecord == [id : Senders \cup {None}, rev : Nat, prepared : Nat, stored : Nat, current : BOOLEAN]

\* What the chats and the conversation are made of.
ChatTypes ==
    /\ chat \in [Senders -> ChatRecord] /\ turns \in Seq(TurnRecord)
    /\ epoch \in Nat /\ edits \in Nat

\* What is shown is of the last change, and the last context looked at is that of
\* the user's focus and has all the feedback that is still recent.
AdviceInv ==
    /\ day \in Nat
    /\ cached # None =>
        /\ cached.epoch = epoch /\ context.focus = state.focus
        /\ Suppressed(RecentSuggestions(state.feedback)) \subseteq Suppressed(context.feedback)
        /\ cached.opts \cap Suppressed(cached.ctx.feedback) = {}

\* One request is at work on the conversation, as it found it; the one whose turn is
\* being stored was prepared after the last change, and nothing it cites was edited
\* before it was accepted.  Requests with one id name one revision, and every turn is
\* that of a request.
AtWorkAlone == \A m, n \in Senders : chat[m].pc \in Working /\ chat[n].pc \in Working => m = n
AtWorkOnLast == \A n \in Senders : chat[n].pc \in Working => chat[n].rev = Len(turns)
StoresInEpoch == \A n \in Senders : chat[n].pc = "storing" => chat[n].epoch = epoch /\ chat[n].current
OneRevision == \A m, n \in Senders : chat[m].id = chat[n].id => chat[m].rev = chat[n].rev
TurnsOfRequests ==
    \A i \in DOMAIN turns :
        /\ turns[i].rev = i - 1 /\ turns[i].prepared = turns[i].stored /\ turns[i].current
        /\ \E m \in Senders :
              chat[m].pc # "none" /\ chat[m].id = turns[i].id /\ chat[m].rev = turns[i].rev

ChatInv == AtWorkAlone /\ AtWorkOnLast /\ StoresInEpoch /\ OneRevision /\ TurnsOfRequests

IInv == ChatTypes /\ AdviceInv /\ ChatInv

-----------------------------------------------------------------------------
\* The parts of the invariant give the property.
LEMMA IInvAnswers == IInv => AnswersAreCurrent
<1> SUFFICES ASSUME IInv PROVE AnswersAreCurrent
    OBVIOUS
<1>1. ASSUME state.enabled, cached # None, cached.ctx = context
      PROVE  /\ cached.ctx.focus = state.focus
             /\ cached.opts \cap Suppressed(RecentSuggestions(state.feedback)) = {}
             /\ cached.epoch = epoch
    BY <1>1 DEF IInv, AdviceInv
<1>2. ASSUME NEW i \in DOMAIN turns, NEW j \in DOMAIN turns, turns[i].id = turns[j].id
      PROVE  i = j
    <2>1. PICK m \in Senders : chat[m].id = turns[i].id /\ chat[m].rev = turns[i].rev
        BY DEF IInv, ChatInv, TurnsOfRequests
    <2>2. PICK n \in Senders : chat[n].id = turns[j].id /\ chat[n].rev = turns[j].rev
        BY DEF IInv, ChatInv, TurnsOfRequests
    <2>3. turns[i].rev = turns[j].rev
        BY <1>2, <2>1, <2>2 DEF IInv, ChatInv, OneRevision
    <2>4. turns[i].rev = i - 1 /\ turns[j].rev = j - 1 /\ i \in Nat /\ j \in Nat
        BY DEF IInv, ChatInv, TurnsOfRequests, ChatTypes
    <2>5. i - 1 = j - 1
        BY <2>3, <2>4
    <2> QED BY <2>4, <2>5
<1>3. \A i \in DOMAIN turns :
           turns[i].rev = i - 1 /\ turns[i].prepared = turns[i].stored /\ turns[i].current
    BY DEF IInv, ChatInv, TurnsOfRequests
<1> QED BY <1>1, <1>2, <1>3 DEF AnswersAreCurrent

LEMMA InitIInv == AssistantInit => IInv
<1> SUFFICES ASSUME AssistantInit PROVE IInv
    OBVIOUS
<1>1. ChatTypes
    BY DEF AssistantInit, ChatTypes, ChatRecord, NoChat, TurnRecord, Working
<1>2. AdviceInv
    BY DEF AssistantInit, AdviceInv
<1>3. ChatInv
    BY DEF AssistantInit, ChatInv, AtWorkAlone, AtWorkOnLast, StoresInEpoch, OneRevision,
           TurnsOfRequests, NoChat, Working
<1> QED BY <1>1, <1>2, <1>3 DEF IInv

\* A step that leaves the chats, the conversation and the epoch alone.
LEMMA ChatsAlone ==
    ASSUME ChatTypes, ChatInv, UNCHANGED <<chat, turns, epoch>>, edits' \in Nat
    PROVE  ChatTypes' /\ ChatInv'
BY DEF ChatTypes, ChatInv, AtWorkAlone, AtWorkOnLast, StoresInEpoch, OneRevision, TurnsOfRequests

\* A step of one request that stores nothing: it goes on with what it has, keeps its
\* name and revision, and is at work afterwards only if it was or if nobody else is.
LEMMA ChatGoesOn ==
    ASSUME ChatTypes, ChatInv, UNCHANGED <<turns, epoch, edits>>,
           NEW n \in Senders, chat[n].pc # "none",
           NEW c \in ChatRecord, chat' = [chat EXCEPT ![n] = c],
           c.pc # "none", c.id = chat[n].id, c.rev = chat[n].rev,
           c.pc \in Working =>
               /\ \A m \in Senders \ {n} : chat[m].pc \notin Working
               /\ c.rev = Len(turns),
           c.pc = "storing" => c.epoch = epoch /\ c.current
    PROVE  ChatTypes' /\ ChatInv'
<1>1. ChatTypes'
    BY DEF ChatTypes
<1>2. \A m \in Senders : chat'[m].id = chat[m].id /\ chat'[m].rev = chat[m].rev
                            /\ (chat[m].pc # "none" => chat'[m].pc # "none")
    BY DEF ChatTypes
<1>3. \A m \in Senders : chat'[m] = IF m = n THEN c ELSE chat[m]
    BY DEF ChatTypes
<1>4. AtWorkAlone' /\ AtWorkOnLast' /\ StoresInEpoch'
    BY <1>3 DEF ChatInv, AtWorkAlone, AtWorkOnLast, StoresInEpoch
<1>5. OneRevision'
    BY <1>2 DEF ChatInv, OneRevision
<1>6. TurnsOfRequests'
    BY <1>2 DEF ChatInv, TurnsOfRequests
<1> QED BY <1>1, <1>4, <1>5, <1>6 DEF ChatInv

\* A request that ends.
LEMMA OverIsRecord ==
    ASSUME NEW c \in ChatRecord
    PROVE  /\ Over(c) \in ChatRecord /\ Over(c).pc = "done"
           /\ Over(c).id = c.id /\ Over(c).rev = c.rev
BY DEF Over, NoChat, ChatRecord

LEMMA AnsweredStep ==
    ASSUME ChatTypes, ChatInv, UNCHANGED <<turns, epoch, edits>>,
           NEW n \in Senders, chat[n].pc # "none", Answered(n)
    PROVE  ChatTypes' /\ ChatInv'
<1>1. chat[n] \in ChatRecord
    BY DEF ChatTypes
<1>2. Over(chat[n]) \in ChatRecord /\ Over(chat[n]).pc = "done"
        /\ Over(chat[n]).id = chat[n].id /\ Over(chat[n]).rev = chat[n].rev
    BY <1>1, OverIsRecord
<1>3. Over(chat[n]).pc \notin Working /\ Over(chat[n]).pc # "none" /\ Over(chat[n]).pc # "storing"
    BY <1>2 DEF Working
<1> QED BY <1>2, <1>3, ChatGoesOn DEF Answered

\* The turn of the request at work goes to the end of the conversation.
LEMMA TurnAppended ==
    ASSUME ChatTypes, ChatInv, NEW n \in Senders, chat[n].pc = "storing"
    PROVE  /\ Append(turns, Turn(n)) \in Seq(TurnRecord)
           /\ Len(Append(turns, Turn(n))) = Len(turns) + 1
           /\ \A i \in DOMAIN Append(turns, Turn(n)) :
                 LET t == Append(turns, Turn(n))[i]
                 IN /\ t.rev = i - 1 /\ t.prepared = t.stored /\ t.current
                    /\ \E m \in Senders : chat[m].pc # "none" /\ chat[m].id = t.id /\ chat[m].rev = t.rev
<1>1. chat[n] \in ChatRecord /\ turns \in Seq(TurnRecord) /\ epoch \in Nat
    BY DEF ChatTypes
<1>2. Turn(n) \in TurnRecord
    BY <1>1 DEF Turn, TurnRecord, ChatRecord
<1>3. chat[n].rev = Len(turns) /\ chat[n].epoch = epoch /\ chat[n].current
    BY DEF ChatInv, AtWorkOnLast, StoresInEpoch, Working
<1>4. ASSUME NEW i \in 1..Len(turns) + 1
      PROVE  LET t == Append(turns, Turn(n))[i]
             IN /\ t.rev = i - 1 /\ t.prepared = t.stored /\ t.current
                /\ \E m \in Senders : chat[m].pc # "none" /\ chat[m].id = t.id /\ chat[m].rev = t.rev
    <2>1. CASE i = Len(turns) + 1
        <3>1. Append(turns, Turn(n))[i] = Turn(n)
            BY <1>1, <1>2, <2>1
        <3> QED BY <1>3, <2>1, <3>1, <1>1 DEF Turn
    <2>2. CASE i \in 1..Len(turns)
        <3>1. Append(turns, Turn(n))[i] = turns[i] /\ i \in DOMAIN turns
            BY <1>1, <1>2, <2>2
        <3> QED BY <3>1 DEF ChatInv, TurnsOfRequests
    <2> QED BY <2>1, <2>2, <1>1
<1> QED BY <1>1, <1>2, <1>4

-----------------------------------------------------------------------------
\* What is shown stays as it is, or goes, while nothing it depends on changes.
LEMMA AdviceAlone ==
    ASSUME AdviceInv, UNCHANGED <<day, state, context, epoch, cached>>
    PROVE  AdviceInv'
BY DEF AdviceInv, Suppressed, RecentSuggestions

\* A day more leaves less feedback recent, never more.
LEMMA DayPassesStep == ASSUME IInv, DayPasses PROVE IInv'
<1>1. UNCHANGED <<edits, state, epoch, context, cached, chat, turns>> /\ day' = day + 1
    BY DEF DayPasses
<1>2. ChatTypes' /\ ChatInv'
    BY <1>1, ChatsAlone DEF IInv, ChatTypes
<1>3. day \in Nat /\ day' \in Nat /\ Window \in Nat
    BY <1>1, AssistantAssumption DEF IInv, AdviceInv
<1>4. 0..(day - Window) \subseteq 0..(day' - Window)
    BY <1>1, <1>3
<1>5. Suppressed(RecentSuggestions(state.feedback))' \subseteq Suppressed(RecentSuggestions(state.feedback))
    <2> SUFFICES ASSUME NEW s \in Suppressed(RecentSuggestions(state.feedback))'
                 PROVE  s \in Suppressed(RecentSuggestions(state.feedback))
        OBVIOUS
    <2>1. s \in Suggestions /\ RecentSuggestions(state.feedback)'[s].status \in {"dismissed", "completed"}
        BY DEF Suppressed
    <2>2. state.feedback[s].day \notin 0..(day' - Window)
             /\ state.feedback[s].status \in {"dismissed", "completed"}
        BY <1>1, <2>1 DEF RecentSuggestions, NoFeedback
    <2>3. RecentSuggestions(state.feedback)[s] = state.feedback[s]
        BY <1>4, <2>1, <2>2 DEF RecentSuggestions
    <2> QED BY <2>1, <2>2, <2>3 DEF Suppressed
<1>6. AdviceInv'
    BY <1>1, <1>3, <1>5 DEF IInv, AdviceInv, Suppressed
<1> QED BY <1>2, <1>6 DEF IInv

LEMMA TickStep == ASSUME IInv, NEW explicit \in BOOLEAN, Tick(explicit) PROVE IInv'
<1>1. UNCHANGED <<day, chat, turns, epoch, edits>>
    BY DEF Tick
<1>2. ChatTypes' /\ ChatInv'
    BY <1>1, ChatsAlone DEF IInv, ChatTypes
<1>3. /\ state' = Focused(state) /\ context' = ContextOf(Focused(state))
      /\ cached' \in {None, cached}
    BY DEF Tick
<1>4. context'.focus = state'.focus /\ context'.feedback = RecentSuggestions(state.feedback)'
    BY <1>1, <1>3 DEF ContextOf, RecentSuggestions
<1>5. AdviceInv'
    BY <1>1, <1>3, <1>4 DEF IInv, AdviceInv, Suppressed
<1> QED BY <1>2, <1>5 DEF IInv

LEMMA JobEndsStep == ASSUME IInv, NEW opts \in SUBSET Suggestions, JobEnds(opts) PROVE IInv'
<1>1. UNCHANGED <<day, chat, turns, epoch, edits>>
    BY DEF JobEnds
<1>2. ChatTypes' /\ ChatInv'
    BY <1>1, ChatsAlone DEF IInv, ChatTypes
<1>3. context' = ContextOf(state')
    BY DEF JobEnds
<1>4. context'.focus = state'.focus /\ context'.feedback = RecentSuggestions(state.feedback)'
    BY <1>1, <1>3 DEF ContextOf, RecentSuggestions
<1>5. ASSUME cached' = cached PROVE AdviceInv'
    BY <1>1, <1>4, <1>5 DEF IInv, AdviceInv, Suppressed
<1>6. ASSUME cached' = [opts |-> opts, ctx |-> job.ctx, epoch |-> job.epoch], job.epoch = epoch
      PROVE  AdviceInv'
    <2>1. opts \cap Suppressed(job.ctx.feedback) = {}
        BY DEF JobEnds
    <2> QED BY <1>1, <1>4, <1>6, <2>1 DEF IInv, AdviceInv, Suppressed
<1>7. cached' = cached \/ (cached' = [opts |-> opts, ctx |-> job.ctx, epoch |-> job.epoch]
                               /\ job.epoch = epoch)
    BY DEF JobEnds
<1> QED BY <1>2, <1>5, <1>6, <1>7 DEF IInv

\* Settings, Refine and Feedback.
LEMMA ChangeStep == ASSUME IInv, NEW new, Change(new) PROVE IInv'
<1>1. /\ UNCHANGED <<day, chat, turns, edits>> /\ epoch' = epoch + 1 /\ cached' = None
      /\ \A n \in Senders : chat[n].pc # "storing"
    BY DEF Change, Invalidate, LockFree
<1>2. ChatTypes'
    BY <1>1 DEF IInv, ChatTypes
<1>3. ChatInv'
    BY <1>1 DEF IInv, ChatInv, AtWorkAlone, AtWorkOnLast, StoresInEpoch, OneRevision, TurnsOfRequests
<1>4. AdviceInv'
    BY <1>1 DEF IInv, AdviceInv
<1> QED BY <1>2, <1>3, <1>4 DEF IInv

LEMMA SendStep ==
    ASSUME IInv, NEW n \in Senders, NEW rev \in 0..Len(turns), NEW id \in Senders, Send(n, id, rev)
    PROVE  IInv'
<1> DEFINE c == [NoChat EXCEPT !.pc = "lock", !.id = id, !.rev = rev]
<1>1. /\ chat[n].pc = "none" /\ chat' = [chat EXCEPT ![n] = c]
      /\ UNCHANGED <<day, facts, edits, goal, state, saved, epoch, context, gate, cached, job, turns>>
      /\ \A m \in Senders : chat[m].id = id => chat[m].rev = rev
    BY DEF Send, chatAlone
<1>2. rev \in Nat /\ c \in ChatRecord /\ c.pc = "lock" /\ c.id = id /\ c.rev = rev
    <2>1. rev \in Nat
        BY DEF IInv, ChatTypes
    <2>2. NoChat \in ChatRecord
        BY DEF NoChat, ChatRecord
    <2> QED BY <2>1, <2>2 DEF ChatRecord
<1>3. ChatTypes'
    BY <1>1, <1>2 DEF IInv, ChatTypes
<1> HIDE DEF c
<1>4. \A m \in Senders : chat'[m] = IF m = n THEN c ELSE chat[m]
    BY <1>1 DEF IInv, ChatTypes
<1>5. AtWorkAlone' /\ AtWorkOnLast' /\ StoresInEpoch'
    BY <1>1, <1>2, <1>4 DEF IInv, ChatInv, AtWorkAlone, AtWorkOnLast, StoresInEpoch, Working
<1>6. OneRevision'
    BY <1>1, <1>2, <1>4 DEF IInv, ChatInv, OneRevision
<1>7. TurnsOfRequests'
    BY <1>1, <1>4 DEF IInv, ChatInv, TurnsOfRequests
<1>8. AdviceInv'
    BY <1>1, AdviceAlone DEF IInv
<1> QED BY <1>3, <1>5, <1>6, <1>7, <1>8 DEF IInv, ChatInv

LEMMA LoadSessionStep == ASSUME IInv, NEW n \in Senders, LoadSession(n) PROVE IInv'
<1>1. /\ UNCHANGED <<day, edits, state, epoch, context, cached, turns>>
      /\ chat[n].pc = "lock" /\ SessionFree
    BY DEF LoadSession, chatAlone
<1>2. CASE Answered(n)
    BY <1>1, <1>2, AnsweredStep, AdviceAlone DEF IInv
<1>3. CASE ~Answered(n)
    <2> DEFINE c == [chat[n] EXCEPT !.pc = "ask1", !.epoch = epoch, !.edits = edits]
    <2>1. chat' = [chat EXCEPT ![n].pc = "ask1", ![n].epoch = epoch, ![n].edits = edits]
            /\ chat[n].rev = Len(turns)
        BY <1>3 DEF LoadSession
    <2>2. chat[n] \in ChatRecord /\ epoch \in Nat /\ edits \in Nat /\ chat \in [Senders -> ChatRecord]
        BY DEF IInv, ChatTypes
    <2>3. chat' = [chat EXCEPT ![n] = c]
        BY <2>1, <2>2
    <2>4. c \in ChatRecord /\ c.pc = "ask1" /\ c.id = chat[n].id /\ c.rev = chat[n].rev
        BY <2>2 DEF ChatRecord, Working
    <2>5. \A m \in Senders \ {n} : chat[m].pc \notin Working
        BY <1>1 DEF SessionFree, Working
    <2> HIDE DEF c
    <2>6. ChatTypes' /\ ChatInv'
        BY <1>1, <2>1, <2>3, <2>4, <2>5, ChatGoesOn DEF IInv
    <2> QED BY <1>1, <2>6, AdviceAlone DEF IInv
<1> QED BY <1>2, <1>3

\* A request at work takes its next step.
LEMMA WorkGoesOn ==
    ASSUME IInv, NEW n \in Senders, chat[n].pc \in Working,
           NEW pc \in Working, NEW current \in BOOLEAN,
           chat' = [chat EXCEPT ![n] = [@ EXCEPT !.pc = pc, !.current = current]],
           UNCHANGED <<chatAlone, turns>>,
           pc = "storing" => chat[n].epoch = epoch /\ current
    PROVE  IInv'
<1> DEFINE c == [chat[n] EXCEPT !.pc = pc, !.current = current]
<1>1. chat[n] \in ChatRecord /\ chat \in [Senders -> ChatRecord]
    BY DEF IInv, ChatTypes
<1>2. /\ c \in ChatRecord /\ c.pc = pc /\ c.id = chat[n].id /\ c.rev = chat[n].rev
      /\ c.epoch = chat[n].epoch /\ c.current = current
    BY <1>1 DEF ChatRecord
<1>3. chat' = [chat EXCEPT ![n] = c]
    BY <1>1
<1>4. /\ \A m \in Senders \ {n} : chat[m].pc \notin Working
      /\ chat[n].rev = Len(turns)
    BY DEF IInv, ChatInv, AtWorkAlone, AtWorkOnLast
<1>5. chat[n].pc # "none" /\ c.pc # "none" /\ UNCHANGED <<turns, epoch, edits>>
    BY <1>2 DEF Working, chatAlone
<1>6. ChatTypes /\ ChatInv /\ c.rev = Len(turns) /\ (c.pc = "storing" => c.epoch = epoch /\ c.current)
    BY <1>2, <1>4 DEF IInv
<1> HIDE DEF c
<1>7. ChatTypes' /\ ChatInv'
    BY <1>2, <1>3, <1>4, <1>5, <1>6, ChatGoesOn
<1> QED BY <1>7, AdviceAlone DEF IInv, chatAlone

\* A step that leaves alone whether the reply is current.
LEMMA WorkGoesOnAsIs ==
    ASSUME IInv, NEW n \in Senders, chat[n].pc \in Working, NEW pc \in Working \ {"storing"},
           chat' = [chat EXCEPT ![n].pc = pc], UNCHANGED <<chatAlone, turns>>
    PROVE  IInv'
<1>1. chat[n] \in ChatRecord /\ chat \in [Senders -> ChatRecord]
    BY DEF IInv, ChatTypes
<1>2. chat[n].current \in BOOLEAN
    BY <1>1 DEF ChatRecord
<1>3. [chat[n] EXCEPT !.pc = pc, !.current = chat[n].current] = [chat[n] EXCEPT !.pc = pc]
    BY <1>1 DEF ChatRecord
<1>4. chat' = [chat EXCEPT ![n] = [@ EXCEPT !.pc = pc, !.current = chat[n].current]]
    BY <1>1, <1>3
<1> QED BY <1>2, <1>4, WorkGoesOn

LEMMA WorkEnds ==
    ASSUME IInv, NEW n \in Senders, chat[n].pc \in Working, Answered(n), UNCHANGED <<chatAlone, turns>>
    PROVE  IInv'
BY AnsweredStep, AdviceAlone DEF IInv, chatAlone, Working

LEMMA StoreTurnStep == ASSUME IInv, NEW n \in Senders, StoreTurn(n) PROVE IInv'
<1>1. /\ UNCHANGED <<day, edits, state, epoch, context, cached>>
      /\ chat[n].pc = "storing" /\ turns' = Append(turns, Turn(n)) /\ Answered(n)
    BY DEF StoreTurn, chatAlone
<1>2. chat[n] \in ChatRecord /\ chat \in [Senders -> ChatRecord]
    BY DEF IInv, ChatTypes
<1>3. Over(chat[n]) \in ChatRecord /\ Over(chat[n]).pc = "done"
        /\ Over(chat[n]).id = chat[n].id /\ Over(chat[n]).rev = chat[n].rev
    BY <1>2, OverIsRecord
<1>4. \A m \in Senders : chat'[m] = IF m = n THEN Over(chat[n]) ELSE chat[m]
    BY <1>1, <1>2 DEF Answered
<1>5. \A m \in Senders : chat'[m].id = chat[m].id /\ chat'[m].rev = chat[m].rev /\ chat'[m].pc \notin Working
                            /\ (chat[m].pc # "none" => chat'[m].pc # "none")
    BY <1>1, <1>3, <1>4 DEF IInv, ChatInv, AtWorkAlone, Working
<1>6. ChatTypes'
    BY <1>1, <1>2, <1>3, TurnAppended DEF IInv, ChatTypes, Answered
<1>7. AtWorkAlone' /\ AtWorkOnLast' /\ StoresInEpoch'
    BY <1>5 DEF AtWorkAlone, AtWorkOnLast, StoresInEpoch, Working
<1>8. OneRevision'
    BY <1>5 DEF IInv, ChatInv, OneRevision
<1>9. TurnsOfRequests'
    BY <1>1, <1>5, TurnAppended DEF IInv, TurnsOfRequests
<1> QED BY <1>1, <1>6, <1>7, <1>8, <1>9, AdviceAlone DEF IInv, ChatInv

LEMMA RestartStep == ASSUME IInv, Restart PROVE IInv'
<1>1. /\ cached' = None /\ epoch' = 0 /\ edits' = edits /\ day' = day
      /\ chat' = [n \in Senders |-> IF chat[n].pc = "none" THEN chat[n] ELSE Over(chat[n])]
      /\ turns' = turns \/ \E n \in Senders : chat[n].pc = "storing" /\ turns' = Append(turns, Turn(n))
    BY DEF Restart
<1>2. chat \in [Senders -> ChatRecord] /\ turns \in Seq(TurnRecord) /\ edits \in Nat
    BY DEF IInv, ChatTypes
<1>3. \A m \in Senders : /\ chat'[m] \in ChatRecord
                         /\ chat'[m].id = chat[m].id /\ chat'[m].rev = chat[m].rev
                         /\ chat'[m].pc \notin Working
                         /\ (chat[m].pc # "none" => chat'[m].pc # "none")
    <2> SUFFICES ASSUME NEW m \in Senders
                 PROVE  /\ chat'[m] \in ChatRecord
                        /\ chat'[m].id = chat[m].id /\ chat'[m].rev = chat[m].rev
                        /\ chat'[m].pc \notin Working
                        /\ (chat[m].pc # "none" => chat'[m].pc # "none")
        OBVIOUS
    <2>1. chat[m] \in ChatRecord
        BY <1>2
    <2>2. chat'[m] = IF chat[m].pc = "none" THEN chat[m] ELSE Over(chat[m])
        BY <1>1
    <2> QED BY <2>1, <2>2, OverIsRecord DEF Working
<1>4. turns' \in Seq(TurnRecord) /\ TurnsOfRequests'
    <2>1. CASE turns' = turns
        BY <1>2, <1>3, <2>1 DEF IInv, ChatInv, TurnsOfRequests
    <2>2. ASSUME NEW n \in Senders, chat[n].pc = "storing", turns' = Append(turns, Turn(n))
          PROVE  turns' \in Seq(TurnRecord) /\ TurnsOfRequests'
        BY <1>3, <2>2, TurnAppended DEF IInv, TurnsOfRequests
    <2> QED BY <1>1, <2>1, <2>2
<1>5. ChatTypes'
    BY <1>1, <1>2, <1>3, <1>4 DEF ChatTypes
<1>6. AtWorkAlone' /\ AtWorkOnLast' /\ StoresInEpoch'
    BY <1>3 DEF AtWorkAlone, AtWorkOnLast, StoresInEpoch, Working
<1>7. OneRevision'
    BY <1>3 DEF IInv, ChatInv, OneRevision
<1>8. AdviceInv'
    BY <1>1 DEF IInv, AdviceInv
<1> QED BY <1>4, <1>5, <1>6, <1>7, <1>8 DEF IInv, ChatInv

LEMMA ChatStepKeeps == ASSUME IInv, NEW n \in Senders, ChatStep(n) PROVE IInv'
<1>1. CASE LoadSession(n)
    BY <1>1, LoadSessionStep
<1>2. CASE CallModel(n)
    <2>1. \/ chat[n].pc = "ask1" /\ chat' = [chat EXCEPT ![n].pc = "call1"]
          \/ chat[n].pc = "ask2" /\ chat' = [chat EXCEPT ![n].pc = "call2"]
        BY <1>2 DEF CallModel
    <2>2. UNCHANGED <<chatAlone, turns>>
        BY <1>2 DEF CallModel
    <2> QED BY <2>1, <2>2, WorkGoesOnAsIs DEF Working
<1>3. CASE StrategyChosen(n)
    <2>1. chat[n].pc \in Working /\ (chat' = [chat EXCEPT ![n].pc = "ask2"] \/ Answered(n))
        BY <1>3 DEF StrategyChosen, Working
    <2>2. UNCHANGED <<chatAlone, turns>>
        BY <1>3 DEF StrategyChosen
    <2>3. "ask2" \in Working /\ "ask2" # "storing"
        BY DEF Working
    <2> QED BY <2>1, <2>2, <2>3, WorkGoesOnAsIs, WorkEnds
<1>4. CASE Reply(n)
    <2>1. chat[n].pc \in Working /\ "storing" \in Working
        BY <1>4 DEF Reply, Working
    <2>2. UNCHANGED <<chatAlone, turns>>
        BY <1>4 DEF Reply
    <2>3. PICK cites \in BOOLEAN :
              IF ReplyFits(n, cites)
              THEN chat' = [chat EXCEPT ![n].pc = "storing", ![n].current = cites => chat[n].edits = edits]
              ELSE Answered(n)
        BY <1>4 DEF Reply
    <2>4. CASE ~ReplyFits(n, cites)
        BY <2>1, <2>2, <2>3, <2>4, WorkEnds
    <2>5. CASE ReplyFits(n, cites)
        <3>1. chat[n].epoch = epoch /\ (cites => chat[n].edits = edits)
            BY <2>5 DEF ReplyFits
        <3>2. chat \in [Senders -> ChatRecord]
            BY DEF IInv, ChatTypes
        <3>3. chat' = [chat EXCEPT ![n] = [@ EXCEPT !.pc = "storing", !.current = TRUE]]
            BY <2>3, <2>5, <3>1, <3>2
        <3> QED BY <2>1, <2>2, <3>1, <3>3, WorkGoesOn
    <2> QED BY <2>4, <2>5
<1>5. CASE StoreTurn(n)
    BY <1>5, StoreTurnStep
<1>6. CASE ChatFails(n)
    <2>1. chat[n].pc \in Working /\ Answered(n) /\ UNCHANGED <<chatAlone, turns>>
        BY <1>6 DEF ChatFails, Working
    <2> QED BY <2>1, WorkEnds
<1> QED BY <1>1, <1>2, <1>3, <1>4, <1>5, <1>6 DEF ChatStep

LEMMA NextKeepsIInv == IInv /\ [AssistantNext]_asvars => IInv'
<1> SUFFICES ASSUME IInv, [AssistantNext]_asvars PROVE IInv'
    OBVIOUS
<1>1. CASE Observe
    <2>1. UNCHANGED <<day, edits, state, epoch, context, cached, chat, turns>>
        BY <1>1 DEF Observe
    <2> QED BY <2>1, ChatsAlone, AdviceAlone DEF IInv, ChatTypes
<1>2. CASE EditEvidence
    <2>1. UNCHANGED <<day, state, epoch, context, cached, chat, turns>> /\ edits' = edits + 1
        BY <1>2 DEF EditEvidence
    <2>2. edits' \in Nat
        BY <2>1 DEF IInv, ChatTypes
    <2> QED BY <2>1, <2>2, ChatsAlone, AdviceAlone DEF IInv
<1>3. ASSUME NEW explicit \in BOOLEAN, Tick(explicit) PROVE IInv'
    BY <1>3, TickStep
<1>4. CASE JobCalls \/ JobFails
    <2>1. UNCHANGED <<day, edits, state, epoch, context, cached, chat, turns>>
        BY <1>4 DEF JobCalls, JobFails
    <2> QED BY <2>1, ChatsAlone, AdviceAlone DEF IInv, ChatTypes
<1>5. ASSUME NEW opts \in SUBSET Suggestions, JobEnds(opts) PROVE IInv'
    BY <1>5, JobEndsStep
<1>6. ASSUME NEW on \in BOOLEAN, Settings(on) PROVE IInv'
    BY <1>6, ChangeStep DEF Settings
<1>7. ASSUME NEW focus, Refine(focus) PROVE IInv'
    BY <1>7, ChangeStep DEF Refine
<1>8. ASSUME NEW s, NEW status, Feedback(s, status) PROVE IInv'
    <2>1. PICK new : Change(new)
        BY <1>8 DEF Feedback
    <2> QED BY <2>1, ChangeStep
<1>9. ASSUME NEW n \in Senders, NEW rev \in 0..Len(turns), NEW id \in Senders, Send(n, id, rev)
      PROVE  IInv'
    BY <1>9, SendStep
<1>10. ASSUME NEW n \in Senders, ChatStep(n) PROVE IInv'
    BY <1>10, ChatStepKeeps
<1>11. CASE Restart
    BY <1>11, RestartStep
<1>12. CASE DayPasses
    BY <1>12, DayPassesStep
<1>13. CASE UNCHANGED asvars
    <2>1. UNCHANGED <<day, edits, state, epoch, context, cached, chat, turns>>
        BY <1>13 DEF asvars
    <2> QED BY <2>1, ChatsAlone, AdviceAlone DEF IInv, ChatTypes
<1> QED BY <1>1, <1>2, <1>3, <1>4, <1>5, <1>6, <1>7, <1>8, <1>9, <1>10, <1>11, <1>12, <1>13
        DEF AssistantNext, JobAnswered

\* What the assistant shows and what it stores is current: _generate and the change
\* of settings between its calls, _chat_locked and retried requests.
THEOREM AssistantIsCurrent == AssistantSpec => []AnswersAreCurrent
<1>1. AssistantInit => IInv
    BY InitIInv
<1>2. IInv /\ [AssistantNext]_asvars => IInv'
    BY NextKeepsIInv
<1>3. IInv => AnswersAreCurrent
    BY IInvAnswers
<1> QED BY <1>1, <1>2, <1>3, PTL DEF AssistantSpec

-----------------------------------------------------------------------------
(* Types and slots *)

Budgets == {"facts", "edits", "change", "restart"}
Contexts == Context \cup {None}
Gates == [latest : Contexts, cached : Contexts, inFlight : Contexts]
Advice == [opts : SUBSET Suggestions, ctx : Context, epoch : Epochs]
Jobs == [pc : {"none", "slot", "call"}, ctx : Contexts, epoch : Epochs]

\* What was spent of a bound is what the counters show; a restart gives epochs back.
Budgeted ==
    /\ left \in [Budgets -> Nat] /\ facts \in Nat /\ edits \in Nat /\ epoch \in Nat
    /\ facts + left["facts"] = MaxFacts /\ edits + left["edits"] = MaxEdits
    /\ epoch + left["change"] <= MaxChanges

SettingsFit == day \in 0..MaxDays /\ goal \in BOOLEAN /\ state \in State /\ saved \in State

\* The gate's context in flight is that of the job.
JobFits ==
    /\ job \in Jobs /\ gate \in Gates
    /\ job.pc # "none" => job.ctx \in Context /\ gate.inFlight = job.ctx

AdviceFits == context \in Contexts /\ (cached = None \/ cached \in Advice)

Calling == {n \in Senders : chat[n].pc \in InCall}
InUse == Cardinality(Calling) + (IF job.pc = "call" THEN 1 ELSE 0)
SlotsSuffice == InUse <= Slots

TypeInv == Budgeted /\ SettingsFit /\ JobFits /\ AdviceFits /\ SlotsSuffice

-----------------------------------------------------------------------------
(* The operators the steps are made of *)

LEMMA BudgetSpent ==
    ASSUME left \in [Budgets -> Nat], NEW b \in Budgets, Spend(b)
    PROVE  /\ left' \in [Budgets -> Nat] /\ left'[b] = left[b] - 1
           /\ \A a \in Budgets : a # b => left'[a] = left[a]
<1>1. left[b] \in Nat /\ left[b] - 1 \in Nat
    BY DEF Spend
<1> QED BY <1>1 DEF Spend

LEMMA InBounds == ASSUME Budgeted PROVE facts \in 0..MaxFacts /\ edits \in 0..MaxEdits /\ epoch \in Epochs
<1>1. left["facts"] \in Nat /\ left["edits"] \in Nat /\ left["change"] \in Nat
    BY DEF Budgeted, Budgets
<1> QED BY <1>1, AssistantAssumption DEF Budgeted, Epochs

LEMMA RecentFeedback ==
    ASSUME NEW f \in Feedbacks
    PROVE  RecentSuggestions(f) \in Feedbacks
<1>1. 0 \in 0..MaxDays
    BY AssistantAssumption
<1> QED BY <1>1 DEF RecentSuggestions, Feedbacks, NoFeedback

LEMMA FocusedIsState == ASSUME NEW s \in State PROVE Focused(s) \in State
BY DEF Focused, State, Foci

LEMMA ContextOfIsContext ==
    ASSUME Budgeted, SettingsFit, NEW s \in State
    PROVE  ContextOf(s) \in Context
<1>1. facts \in 0..MaxFacts /\ edits \in 0..MaxEdits
    BY InBounds
<1>2. RecentSuggestions(s.feedback) \in Feedbacks
    BY RecentFeedback DEF State
<1> QED BY <1>1, <1>2 DEF ContextOf, Context, State, SettingsFit

LEMMA GateSteps ==
    ASSUME NEW g \in Gates, NEW ctx \in Context
    PROVE  /\ Observed(g, ctx) \in Gates /\ Observed(g, ctx).inFlight = g.inFlight
           /\ [g EXCEPT !.cached = None] \in Gates
           /\ [g EXCEPT !.cached = None].inFlight = g.inFlight
           /\ [g EXCEPT !.inFlight = ctx] \in Gates
           /\ [g EXCEPT !.inFlight = ctx].inFlight = ctx
           /\ \A b \in BOOLEAN : Finished(g, ctx, b) \in Gates
<1>1. ctx \in Contexts /\ None \in Contexts
    BY DEF Contexts
<1>2. /\ Observed(g, ctx) \in Gates /\ Observed(g, ctx).inFlight = g.inFlight
      /\ [g EXCEPT !.cached = None] \in Gates
      /\ [g EXCEPT !.cached = None].inFlight = g.inFlight
      /\ [g EXCEPT !.inFlight = ctx] \in Gates
      /\ [g EXCEPT !.inFlight = ctx].inFlight = ctx
    BY <1>1 DEF Observed, Gates
<1>3. ASSUME NEW b \in BOOLEAN PROVE Finished(g, ctx, b) \in Gates
    <2>1. \A c \in Contexts : [g EXCEPT !.inFlight = None, !.cached = c] \in Gates
        BY <1>1 DEF Gates
    <2>2. g.cached \in Contexts
        BY DEF Gates
    <2>3. \E c \in Contexts : Finished(g, ctx, b) = g \/ Finished(g, ctx, b) = [g EXCEPT !.inFlight = None, !.cached = c]
        BY <1>1, <2>2 DEF Finished
    <2> QED BY <2>1, <2>3
<1> QED BY <1>2, <1>3

LEMMA NoneTyped ==
    ASSUME Budgeted
    PROVE  NoJob \in Jobs /\ NoJob.pc = "none" /\ NewGate \in Gates /\ None \in Contexts
<1>1. 0 \in Epochs
    BY AssistantAssumption DEF Epochs
<1> QED BY <1>1 DEF NoJob, Jobs, NewGate, Gates, Contexts

LEMMA OneOrNone ==
    ASSUME NEW S, \A m, n \in S : m = n
    PROVE  Cardinality(S) = IF S = {} THEN 0 ELSE 1
<1>1. CASE S = {}
    BY <1>1, FS_EmptySet
<1>2. CASE S # {}
    <2>1. PICK n \in S : TRUE
        BY <1>2
    <2>2. S = {n}
        BY <2>1
    <2> QED BY <1>2, <2>2, FS_Singleton
<1> QED BY <1>1, <1>2

\* Nobody begins a call; of the chats at work one at most is in one.
LEMMA NoCallBegins ==
    ASSUME ChatTypes, ChatTypes', AtWorkAlone, AtWorkAlone', SlotsSuffice,
           Calling' \subseteq Calling,
           job'.pc = "call" => job.pc = "call"
    PROVE  SlotsSuffice'
<1>1. Cardinality(Calling) = IF Calling = {} THEN 0 ELSE 1
    <2>1. ASSUME NEW m \in Calling, NEW n \in Calling PROVE m = n
        <3>1. /\ m \in Senders /\ chat[m].pc \in InCall
              /\ n \in Senders /\ chat[n].pc \in InCall
            BY DEF Calling
        <3>2. chat[m].pc # "call" /\ chat[n].pc # "call"
            BY <3>1 DEF ChatTypes, ChatRecord, Working
        <3>3. chat[m].pc \in Working /\ chat[n].pc \in Working
            BY <3>1, <3>2 DEF InCall, Working
        <3> QED BY <3>1, <3>3 DEF AtWorkAlone
    <2> QED BY <2>1, OneOrNone
<1>2. Cardinality(Calling') = IF Calling' = {} THEN 0 ELSE 1
    <2>1. ASSUME NEW m \in Calling', NEW n \in Calling' PROVE m = n
        <3>1. /\ m \in Senders /\ chat'[m].pc \in InCall
              /\ n \in Senders /\ chat'[n].pc \in InCall
            BY DEF Calling
        <3>2. chat'[m].pc # "call" /\ chat'[n].pc # "call"
            BY <3>1 DEF ChatTypes, ChatRecord, Working
        <3>3. chat'[m].pc \in Working /\ chat'[n].pc \in Working
            BY <3>1, <3>2 DEF InCall, Working
        <3> QED BY <3>1, <3>3 DEF AtWorkAlone
    <2> HIDE DEF Calling
    <2> QED BY <2>1, OneOrNone
<1>3. /\ SlotsSuffice <=> Cardinality(Calling) + (IF job.pc = "call" THEN 1 ELSE 0) <= Slots
      /\ SlotsSuffice' <=> Cardinality(Calling') + (IF job'.pc = "call" THEN 1 ELSE 0) <= Slots
    BY DEF SlotsSuffice, InUse
<1> HIDE DEF Calling
<1> QED BY <1>1, <1>2, <1>3, AssistantAssumption

-----------------------------------------------------------------------------
(* One lemma per step *)

\* A step that leaves the rest alone and begins no call.
LEMMA TypesAlone ==
    ASSUME IInv, IInv', TypeInv, UNCHANGED <<chatAlone, left>>, Calling' \subseteq Calling
    PROVE  TypeInv'
<1>1. UNCHANGED <<day, facts, edits, goal, state, saved, epoch, context, gate, cached, job, left>>
    BY DEF chatAlone
<1>2. Budgeted' /\ SettingsFit' /\ JobFits' /\ AdviceFits'
    BY <1>1 DEF TypeInv, Budgeted, SettingsFit, JobFits, AdviceFits
<1>3. SlotsSuffice'
    BY <1>1, NoCallBegins DEF IInv, ChatInv, TypeInv
<1> QED BY <1>2, <1>3 DEF TypeInv

\* One request's step, after which it is not in a call.
LEMMA OutOfCall ==
    ASSUME ChatTypes, NEW n \in Senders, NEW c, chat' = [chat EXCEPT ![n] = c], c.pc \notin InCall
    PROVE  Calling' \subseteq Calling
<1>1. \A m \in Senders : chat'[m] = IF m = n THEN c ELSE chat[m]
    BY DEF ChatTypes
<1> QED BY <1>1 DEF Calling

LEMMA AnsweredOutOfCall ==
    ASSUME ChatTypes, NEW n \in Senders, Answered(n)
    PROVE  Calling' \subseteq Calling
<1>1. chat[n] \in ChatRecord
    BY DEF ChatTypes
<1>2. Over(chat[n]).pc = "done"
    BY <1>1, OverIsRecord
<1> QED BY <1>2, OutOfCall DEF Answered, InCall

LEMMA ToPlaceOutOfCall ==
    ASSUME ChatTypes, NEW n \in Senders, NEW pc, pc \notin InCall,
           chat' = [chat EXCEPT ![n].pc = pc]
    PROVE  Calling' \subseteq Calling
<1> DEFINE c == [chat[n] EXCEPT !.pc = pc]
<1>1. chat' = [chat EXCEPT ![n] = c]
    OBVIOUS
<1>2. c.pc = pc
    BY DEF ChatTypes, ChatRecord
<1> HIDE DEF c
<1>3. c.pc \notin InCall
    BY <1>2
<1> QED BY <1>1, <1>3, OutOfCall

LEMMA CallModelTypes ==
    ASSUME IInv, IInv', TypeInv, NEW n \in Senders, CallModel(n)
    PROVE  TypeInv'
<1>1. /\ SlotFree /\ chat[n].pc \in {"ask1", "ask2"} /\ UNCHANGED <<chatAlone, left>>
      /\ \E pc \in {"call1", "call2"} : chat' = [chat EXCEPT ![n].pc = pc]
    BY DEF CallModel
<1>2. PICK pc \in {"call1", "call2"} : chat' = [chat EXCEPT ![n].pc = pc]
    BY <1>1
<1>3. UNCHANGED <<day, facts, edits, goal, state, saved, epoch, context, gate, cached, job, left>>
    BY <1>1 DEF chatAlone
<1>4. Budgeted' /\ SettingsFit' /\ JobFits' /\ AdviceFits'
    BY <1>3 DEF TypeInv, Budgeted, SettingsFit, JobFits, AdviceFits
<1>5. chat \in [Senders -> ChatRecord] /\ AtWorkAlone
    BY DEF IInv, ChatTypes, ChatInv
<1>6. \A m \in Senders : m # n => chat[m].pc \notin Working
    BY <1>1, <1>5 DEF AtWorkAlone, Working
<1>7. Calling = {}
    <2>1. ASSUME NEW m \in Calling PROVE FALSE
        <3>1. m \in Senders /\ chat[m].pc \in InCall
            BY DEF Calling
        <3>2. chat[m].pc # "call"
            BY <1>5, <3>1 DEF ChatRecord, Working
        <3>3. chat[m].pc \in Working /\ m # n
            BY <1>1, <3>1, <3>2 DEF InCall, Working
        <3> QED BY <1>6, <3>1, <3>3
    <2> QED BY <2>1
<1>8. Calling' = {n}
    <2>1. \A m \in Senders : m # n => chat'[m] = chat[m]
        BY <1>2, <1>5
    <2>2. chat'[n].pc = pc
        BY <1>2, <1>5 DEF ChatRecord
    <2>3. \A m \in Senders : m # n => chat[m].pc \notin InCall
        BY <1>7 DEF Calling
    <2>4. pc \in InCall
        BY DEF InCall
    <2> QED BY <2>1, <2>2, <2>3, <2>4 DEF Calling
<1>9. Cardinality(Calling) = 0 /\ Cardinality(Calling') = 1
    BY <1>7, <1>8, FS_EmptySet, FS_Singleton
<1>10. Cardinality(Calling) + (IF job.pc = "call" THEN 1 ELSE 0) < Slots
    BY <1>1 DEF SlotFree, Calling
<1>11. SlotsSuffice'
    <2>1. SlotsSuffice' <=> Cardinality(Calling') + (IF job'.pc = "call" THEN 1 ELSE 0) <= Slots
        BY DEF SlotsSuffice, InUse
    <2>2. job' = job
        BY <1>3
    <2> HIDE DEF Calling
    <2> QED BY <1>9, <1>10, <2>1, <2>2, AssistantAssumption
<1> QED BY <1>4, <1>11 DEF TypeInv

LEMMA ChatStepTypes ==
    ASSUME IInv, IInv', TypeInv, NEW n \in Senders, ChatStep(n)
    PROVE  TypeInv'
<1>1. CASE CallModel(n)
    BY <1>1, CallModelTypes
<1>2. ASSUME UNCHANGED <<chatAlone, left>>, Answered(n) PROVE TypeInv'
    BY <1>2, AnsweredOutOfCall, TypesAlone DEF IInv
<1>3. ASSUME UNCHANGED <<chatAlone, left>>, chat' = [chat EXCEPT ![n].pc = "ask2"]
      PROVE  TypeInv'
    <2>1. "ask2" \notin InCall
        BY DEF InCall
    <2> QED BY <1>3, <2>1, ToPlaceOutOfCall, TypesAlone DEF IInv
<1>4. CASE LoadSession(n)
    <2>1. UNCHANGED <<chatAlone, left>>
        BY <1>4 DEF LoadSession
    <2>2. CASE ~Answered(n)
        <3> DEFINE c == [chat[n] EXCEPT !.pc = "ask1", !.epoch = epoch, !.edits = edits]
        <3>1. chat' = [chat EXCEPT ![n].pc = "ask1", ![n].epoch = epoch, ![n].edits = edits]
            BY <1>4, <2>2 DEF LoadSession
        <3>2. chat' = [chat EXCEPT ![n] = c] /\ c.pc = "ask1"
            BY <3>1 DEF IInv, ChatTypes, ChatRecord
        <3>3. "ask1" \notin InCall
            BY DEF InCall
        <3> HIDE DEF c
        <3>4. Calling' \subseteq Calling
            BY <3>2, <3>3, OutOfCall DEF IInv
        <3> QED BY <2>1, <3>4, TypesAlone
    <2> QED BY <1>2, <2>1, <2>2
<1>5. CASE StrategyChosen(n)
    BY <1>2, <1>3, <1>5 DEF StrategyChosen
<1>6. CASE Reply(n)
    <2>1. UNCHANGED <<chatAlone, left>>
        BY <1>6 DEF Reply
    <2>2. CASE ~Answered(n)
        <3>1. PICK b : chat' = [chat EXCEPT ![n].pc = "storing", ![n].current = b]
            BY <1>6, <2>2 DEF Reply
        <3> DEFINE c == [chat[n] EXCEPT !.pc = "storing", !.current = b]
        <3>2. chat' = [chat EXCEPT ![n] = c] /\ c.pc = "storing"
            BY <3>1 DEF IInv, ChatTypes, ChatRecord
        <3>3. "storing" \notin InCall
            BY DEF InCall
        <3> HIDE DEF c
        <3>4. Calling' \subseteq Calling
            BY <3>2, <3>3, OutOfCall DEF IInv
        <3> QED BY <2>1, <3>4, TypesAlone
    <2> QED BY <1>2, <2>1, <2>2
<1>7. CASE StoreTurn(n)
    BY <1>2, <1>7 DEF StoreTurn
<1>8. CASE ChatFails(n)
    BY <1>2, <1>8 DEF ChatFails
<1> QED BY <1>1, <1>4, <1>5, <1>6, <1>7, <1>8 DEF ChatStep

LEMMA SendTypes ==
    ASSUME IInv, IInv', TypeInv, NEW n \in Senders, NEW rev, NEW id, Send(n, id, rev)
    PROVE  TypeInv'
<1> DEFINE c == [NoChat EXCEPT !.pc = "lock", !.id = id, !.rev = rev]
<1>1. chat' = [chat EXCEPT ![n] = c] /\ UNCHANGED <<chatAlone, left>>
    BY DEF Send
<1>2. c.pc = "lock" /\ "lock" \notin InCall
    BY DEF NoChat, InCall
<1> HIDE DEF c
<1> QED BY <1>1, <1>2, OutOfCall, TypesAlone DEF IInv

LEMMA OneCall ==
    ASSUME ChatTypes, AtWorkAlone
    PROVE  Cardinality(Calling) \in {0, 1}
<1>1. ASSUME NEW m \in Calling, NEW n \in Calling PROVE m = n
    <2>1. /\ m \in Senders /\ chat[m].pc \in InCall
          /\ n \in Senders /\ chat[n].pc \in InCall
        BY DEF Calling
    <2>2. chat[m].pc # "call" /\ chat[n].pc # "call"
        BY <2>1 DEF ChatTypes, ChatRecord, Working
    <2>3. chat[m].pc \in Working /\ chat[n].pc \in Working
        BY <2>1, <2>2 DEF InCall, Working
    <2> QED BY <2>1, <2>3 DEF AtWorkAlone
<1> HIDE DEF Calling
<1> QED BY <1>1, OneOrNone

LEMMA DatabaseTypes ==
    ASSUME IInv, IInv', TypeInv, Observe \/ EditEvidence
    PROVE  TypeInv'
<1>1. UNCHANGED <<day, state, saved, epoch, context, gate, cached, job, chat>> /\ goal' \in {goal, FALSE}
    BY DEF Observe, EditEvidence
<1>2. left \in [Budgets -> Nat] /\ "facts" \in Budgets /\ "edits" \in Budgets /\ "change" \in Budgets
    BY DEF TypeInv, Budgeted, Budgets
<1>3. Budgeted'
    <2>1. CASE Observe
        <3>1. Spend("facts") /\ facts' = facts + 1 /\ edits' = edits
            BY <2>1 DEF Observe
        <3>2. /\ left' \in [Budgets -> Nat] /\ left'["facts"] = left["facts"] - 1
              /\ left'["edits"] = left["edits"] /\ left'["change"] = left["change"]
            BY <3>1, <1>2, BudgetSpent
        <3> QED BY <3>1, <3>2, <1>1, <1>2 DEF TypeInv, Budgeted
    <2>2. CASE EditEvidence
        <3>1. Spend("edits") /\ edits' = edits + 1 /\ facts' = facts
            BY <2>2 DEF EditEvidence
        <3>2. /\ left' \in [Budgets -> Nat] /\ left'["edits"] = left["edits"] - 1
              /\ left'["facts"] = left["facts"] /\ left'["change"] = left["change"]
            BY <3>1, <1>2, BudgetSpent
        <3> QED BY <3>1, <3>2, <1>1, <1>2 DEF TypeInv, Budgeted
    <2> QED BY <2>1, <2>2
<1>4. SettingsFit' /\ JobFits' /\ AdviceFits'
    BY <1>1 DEF TypeInv, SettingsFit, JobFits, AdviceFits
<1>5. SlotsSuffice'
    BY <1>1 DEF TypeInv, SlotsSuffice, InUse, Calling
<1> QED BY <1>3, <1>4, <1>5 DEF TypeInv

LEMMA TickTypes ==
    ASSUME IInv, IInv', TypeInv, NEW explicit \in BOOLEAN, Tick(explicit)
    PROVE  TypeInv'
<1> DEFINE s == Focused(state)
           ctx == ContextOf(s)
<1>1. /\ UNCHANGED <<day, facts, edits, goal, epoch, chat, left>>
      /\ state' = s /\ saved' \in {saved, s} /\ context' = ctx /\ cached' \in {None, cached}
      /\ \E g \in {Observed(gate, ctx), [Observed(gate, ctx) EXCEPT !.cached = None]} :
            \/ gate' = g /\ job' = job
            \/ /\ job.pc = "none" /\ gate' = [g EXCEPT !.inFlight = ctx]
               /\ job' = [pc |-> "slot", ctx |-> ctx, epoch |-> epoch]
    BY DEF Tick
<1>2. s \in State
    BY FocusedIsState DEF TypeInv, SettingsFit
<1>3. ctx \in Context /\ ctx \in Contexts /\ epoch \in Epochs
    BY <1>2, ContextOfIsContext, InBounds DEF TypeInv, Contexts
<1>4. PICK g : /\ g \in {Observed(gate, ctx), [Observed(gate, ctx) EXCEPT !.cached = None]}
               /\ \/ gate' = g /\ job' = job
                  \/ /\ job.pc = "none" /\ gate' = [g EXCEPT !.inFlight = ctx]
                     /\ job' = [pc |-> "slot", ctx |-> ctx, epoch |-> epoch]
    BY <1>1
<1> HIDE DEF s, ctx
<1>5. g \in Gates /\ g.inFlight = gate.inFlight
    <2>1. gate \in Gates
        BY DEF TypeInv, JobFits
    <2>2. Observed(gate, ctx) \in Gates /\ Observed(gate, ctx).inFlight = gate.inFlight
        BY <2>1, <1>3, GateSteps
    <2>3. /\ [Observed(gate, ctx) EXCEPT !.cached = None] \in Gates
          /\ [Observed(gate, ctx) EXCEPT !.cached = None].inFlight = gate.inFlight
        BY <2>2, <1>3, GateSteps
    <2> QED BY <1>4, <2>2, <2>3
<1>6. [g EXCEPT !.inFlight = ctx] \in Gates /\ [g EXCEPT !.inFlight = ctx].inFlight = ctx
    BY <1>3, <1>5, GateSteps
<1>7. JobFits' /\ (job'.pc = "call" => job.pc = "call")
    <2>1. CASE gate' = g /\ job' = job
        BY <2>1, <1>5 DEF TypeInv, JobFits
    <2>2. CASE /\ gate' = [g EXCEPT !.inFlight = ctx]
               /\ job' = [pc |-> "slot", ctx |-> ctx, epoch |-> epoch]
        BY <2>2, <1>3, <1>6 DEF JobFits, Jobs
    <2> QED BY <1>4, <2>1, <2>2
<1>8. Budgeted' /\ SettingsFit' /\ AdviceFits'
    BY <1>1, <1>2, <1>3 DEF TypeInv, Budgeted, SettingsFit, AdviceFits
<1>9. Calling' \subseteq Calling
    BY <1>1 DEF Calling
<1>10. SlotsSuffice'
    BY <1>7, <1>9, NoCallBegins DEF IInv, ChatInv, TypeInv
<1> QED BY <1>7, <1>8, <1>10 DEF TypeInv

LEMMA DayPassesTypes ==
    ASSUME IInv, IInv', TypeInv, DayPasses
    PROVE  TypeInv'
<1>1. /\ UNCHANGED <<facts, edits, goal, state, saved, epoch, context, gate, cached, job, chat, left>>
      /\ day' = day + 1 /\ day < MaxDays
    BY DEF DayPasses
<1>2. day' \in 0..MaxDays
    BY <1>1, AssistantAssumption DEF TypeInv, SettingsFit
<1>3. Budgeted' /\ SettingsFit' /\ JobFits' /\ AdviceFits'
    BY <1>1, <1>2 DEF TypeInv, Budgeted, SettingsFit, JobFits, AdviceFits
<1>4. Calling' \subseteq Calling
    BY <1>1 DEF Calling
<1>5. SlotsSuffice'
    BY <1>1, <1>4, NoCallBegins DEF IInv, ChatInv, TypeInv
<1> QED BY <1>3, <1>5 DEF TypeInv

LEMMA JobCallsTypes ==
    ASSUME IInv, IInv', TypeInv, JobCalls
    PROVE  TypeInv'
<1>1. /\ UNCHANGED <<day, facts, edits, goal, state, saved, epoch, context, gate, cached, chat, left>>
      /\ job.pc = "slot" /\ SlotFree /\ job' = [job EXCEPT !.pc = "call"]
    BY DEF JobCalls
<1>2. Budgeted' /\ SettingsFit' /\ AdviceFits'
    BY <1>1 DEF TypeInv, Budgeted, SettingsFit, AdviceFits
<1>3. job \in Jobs /\ gate \in Gates /\ job.ctx \in Context /\ gate.inFlight = job.ctx
    BY <1>1 DEF TypeInv, JobFits
<1>4. job' \in Jobs /\ job'.pc = "call" /\ job'.ctx = job.ctx
    BY <1>1, <1>3 DEF Jobs
<1>5. JobFits'
    BY <1>1, <1>3, <1>4 DEF JobFits
<1>6. Cardinality(Calling) < Slots
    <2>1. Cardinality(Calling) + (IF job.pc = "call" THEN 1 ELSE 0) < Slots
        BY <1>1 DEF SlotFree, Calling
    <2>2. Cardinality(Calling) \in Nat
        BY OneCall DEF IInv, ChatInv
    <2> HIDE DEF Calling
    <2> QED BY <1>1, <2>1, <2>2
<1>7. SlotsSuffice'
    <2>1. Calling' = Calling
        BY <1>1 DEF Calling
    <2>2. SlotsSuffice' <=> Cardinality(Calling') + (IF job'.pc = "call" THEN 1 ELSE 0) <= Slots
        BY DEF SlotsSuffice, InUse
    <2>3. Cardinality(Calling) \in Nat
        BY OneCall DEF IInv, ChatInv
    <2> HIDE DEF Calling
    <2> QED BY <1>4, <1>6, <2>1, <2>2, <2>3, AssistantAssumption
<1> QED BY <1>2, <1>5, <1>7 DEF TypeInv

\* A job that ends, however it does.
LEMMA JobOver ==
    ASSUME IInv, IInv', TypeInv, job' = NoJob, gate' \in Gates,
           UNCHANGED <<day, facts, edits, goal, epoch, chat, left>>,
           SettingsFit', AdviceFits'
    PROVE  TypeInv'
<1>1. Budgeted'
    BY DEF TypeInv, Budgeted
<1>2. JobFits' /\ job'.pc # "call"
    BY NoneTyped DEF TypeInv, JobFits
<1>3. Calling' \subseteq Calling
    BY DEF Calling
<1>4. SlotsSuffice'
    BY <1>2, <1>3, NoCallBegins DEF IInv, ChatInv, TypeInv
<1> QED BY <1>1, <1>2, <1>4 DEF TypeInv

LEMMA JobFailsTypes ==
    ASSUME IInv, IInv', TypeInv, JobFails
    PROVE  TypeInv'
<1>1. /\ UNCHANGED <<day, facts, edits, goal, state, saved, epoch, context, cached, chat, left>>
      /\ job.pc # "none" /\ job' = NoJob /\ gate' = Finished(gate, job.ctx, FALSE)
    BY DEF JobFails
<1>2. SettingsFit' /\ AdviceFits'
    BY <1>1 DEF TypeInv, SettingsFit, AdviceFits
<1>3. gate \in Gates /\ job.ctx \in Context
    BY <1>1 DEF TypeInv, JobFits
<1>4. gate' \in Gates
    BY <1>1, <1>3, GateSteps
<1> QED BY <1>1, <1>2, <1>4, JobOver

LEMMA JobEndsTypes ==
    ASSUME IInv, IInv', TypeInv, NEW opts \in SUBSET Suggestions, JobEnds(opts)
    PROVE  TypeInv'
<1>1. /\ UNCHANGED <<day, facts, edits, goal, epoch, chat, left>>
      /\ job.pc = "call" /\ job' = NoJob
      /\ state' = Focused(state) /\ saved' \in {saved, state'} /\ context' = ContextOf(Focused(state))
      /\ cached' = cached \/ cached' = [opts |-> opts, ctx |-> job.ctx, epoch |-> job.epoch]
      /\ \E b \in BOOLEAN : gate' = Finished(Observed(gate, context'), job.ctx, b)
    BY DEF JobEnds
<1>2. Focused(state) \in State
    BY FocusedIsState DEF TypeInv, SettingsFit
<1>3. context' \in Context /\ context' \in Contexts
    BY <1>1, <1>2, ContextOfIsContext DEF TypeInv, Contexts
<1>4. gate \in Gates /\ job \in Jobs /\ job.ctx \in Context /\ job.epoch \in Epochs
    BY <1>1 DEF TypeInv, JobFits, Jobs
<1>5. SettingsFit' /\ AdviceFits'
    BY <1>1, <1>2, <1>3, <1>4 DEF TypeInv, SettingsFit, AdviceFits, Advice
<1>6. gate' \in Gates
    <2>1. PICK b \in BOOLEAN : gate' = Finished(Observed(gate, context'), job.ctx, b)
        BY <1>1
    <2> DEFINE seen == Observed(gate, context')
    <2>2. seen \in Gates
        BY <1>3, <1>4, GateSteps
    <2> HIDE DEF seen
    <2>3. Finished(seen, job.ctx, b) \in Gates
        BY <1>4, <2>2, GateSteps
    <2>4. gate' = Finished(seen, job.ctx, b)
        BY <2>1 DEF seen
    <2> QED BY <2>3, <2>4
<1> QED BY <1>1, <1>5, <1>6, JobOver

LEMMA ChangeTypes ==
    ASSUME IInv, IInv', TypeInv, NEW new \in State, Change(new)
    PROVE  TypeInv'
<1>1. /\ UNCHANGED <<day, facts, edits, goal, context, chat>>
      /\ Spend("change") /\ epoch' = epoch + 1 /\ job' = NoJob /\ gate' = NewGate /\ cached' = None
      /\ state' = new /\ saved' \in {saved, new}
    BY DEF Change, Invalidate
<1>2. left \in [Budgets -> Nat] /\ "facts" \in Budgets /\ "edits" \in Budgets /\ "change" \in Budgets
    BY DEF TypeInv, Budgeted, Budgets
<1>3. /\ left' \in [Budgets -> Nat] /\ left'["change"] = left["change"] - 1
      /\ left'["facts"] = left["facts"] /\ left'["edits"] = left["edits"]
    BY <1>1, <1>2, BudgetSpent
<1>4. Budgeted'
    BY <1>1, <1>2, <1>3, AssistantAssumption DEF TypeInv, Budgeted
<1>5. SettingsFit' /\ AdviceFits'
    BY <1>1 DEF TypeInv, SettingsFit, AdviceFits
<1>6. JobFits' /\ job'.pc # "call"
    BY <1>1, NoneTyped DEF TypeInv, JobFits
<1>7. Calling' \subseteq Calling
    BY <1>1 DEF Calling
<1>8. SlotsSuffice'
    BY <1>6, <1>7, NoCallBegins DEF IInv, ChatInv, TypeInv
<1> QED BY <1>4, <1>5, <1>6, <1>8 DEF TypeInv

LEMMA RestartTypes ==
    ASSUME IInv, IInv', TypeInv, Restart
    PROVE  TypeInv'
<1>1. /\ UNCHANGED <<day, facts, edits, goal, saved>> /\ Spend("restart") /\ state' = saved
      /\ epoch' = 0 /\ context' = None /\ gate' = NewGate /\ cached' = None /\ job' = NoJob
      /\ chat' = [n \in Senders |-> IF chat[n].pc = "none" THEN chat[n] ELSE Over(chat[n])]
    BY DEF Restart
<1>2. /\ left \in [Budgets -> Nat] /\ "facts" \in Budgets /\ "edits" \in Budgets
      /\ "change" \in Budgets /\ "restart" \in Budgets
    BY DEF TypeInv, Budgeted, Budgets
<1>3. /\ left' \in [Budgets -> Nat] /\ left'["change"] = left["change"]
      /\ left'["facts"] = left["facts"] /\ left'["edits"] = left["edits"]
    BY <1>1, <1>2, BudgetSpent
<1>4. Budgeted'
    BY <1>1, <1>2, <1>3, AssistantAssumption DEF TypeInv, Budgeted
<1>5. SettingsFit' /\ AdviceFits'
    BY <1>1, NoneTyped DEF TypeInv, SettingsFit, AdviceFits
<1>6. JobFits' /\ job'.pc # "call"
    BY <1>1, NoneTyped DEF TypeInv, JobFits
<1>7. Calling' \subseteq Calling
    <2>1. ASSUME NEW n \in Senders PROVE chat'[n].pc \notin InCall
        <3>1. chat[n] \in ChatRecord
            BY DEF IInv, ChatTypes
        <3>2. Over(chat[n]).pc = "done"
            BY <3>1, OverIsRecord
        <3> QED BY <1>1, <3>2 DEF InCall
    <2> QED BY <2>1 DEF Calling
<1>8. SlotsSuffice'
    BY <1>6, <1>7, NoCallBegins DEF IInv, ChatInv, TypeInv
<1> QED BY <1>4, <1>5, <1>6, <1>8 DEF TypeInv

-----------------------------------------------------------------------------
LEMMA InitTypes == AssistantInit => TypeInv
<1> SUFFICES ASSUME AssistantInit PROVE TypeInv
    OBVIOUS
<1>1. Budgeted
    BY AssistantAssumption DEF AssistantInit, Budgeted, Budgets
<1>2. SettingsFit
    <2>1. [s \in Suggestions |-> NoFeedback] \in Feedbacks /\ 0 \in 0..MaxDays
        BY AssistantAssumption DEF Feedbacks, NoFeedback
    <2>2. state \in State
        BY <2>1 DEF AssistantInit, State, Foci
    <2> QED BY <2>1, <2>2 DEF AssistantInit, SettingsFit
<1>3. JobFits /\ AdviceFits /\ job.pc = "none"
    BY <1>1, NoneTyped DEF AssistantInit, JobFits, AdviceFits
<1>4. Calling = {}
    BY DEF AssistantInit, Calling, InCall, NoChat
<1>5. SlotsSuffice
    <2>1. Cardinality(Calling) = 0
        BY <1>4, FS_EmptySet
    <2> QED BY <1>3, <2>1, AssistantAssumption DEF SlotsSuffice, InUse
<1> QED BY <1>1, <1>2, <1>3, <1>5 DEF TypeInv

LEMMA NextKeepsTypes ==
    ASSUME IInv, IInv', TypeInv, [AssistantNext]_asvars
    PROVE  TypeInv'
<1>1. CASE Observe \/ EditEvidence
    BY <1>1, DatabaseTypes
<1>2. ASSUME NEW explicit \in BOOLEAN, Tick(explicit) PROVE TypeInv'
    BY <1>2, TickTypes
<1>3. CASE JobCalls
    BY <1>3, JobCallsTypes
<1>4. CASE JobFails
    BY <1>4, JobFailsTypes
<1>5. ASSUME NEW opts \in SUBSET Suggestions, JobEnds(opts) PROVE TypeInv'
    BY <1>5, JobEndsTypes
<1>6. ASSUME NEW on \in BOOLEAN, Settings(on) PROVE TypeInv'
    <2>1. [state EXCEPT !.enabled = on] \in State
        BY DEF TypeInv, SettingsFit, State
    <2> QED BY <1>6, <2>1, ChangeTypes DEF Settings
<1>7. ASSUME NEW focus \in {"all", "goal"}, Refine(focus) PROVE TypeInv'
    <2>1. Focused(state) \in State
        BY FocusedIsState DEF TypeInv, SettingsFit
    <2>2. [Focused(state) EXCEPT !.focus = focus] \in State
        BY <2>1 DEF State, Foci
    <2> QED BY <1>7, <2>2, ChangeTypes DEF Refine
<1>8. ASSUME NEW s \in Suggestions, NEW status \in Statuses, Feedback(s, status) PROVE TypeInv'
    <2> DEFINE given == [RecentSuggestions(state.feedback) EXCEPT ![s] = [status |-> status, day |-> day]]
               kept(names) == [o \in Suggestions |-> IF o \in names THEN given[o] ELSE NoFeedback]
    <2>1. state \in State /\ day \in 0..MaxDays /\ 0 \in 0..MaxDays
        BY AssistantAssumption DEF TypeInv, SettingsFit
    <2>2. RecentSuggestions(state.feedback) \in Feedbacks
        BY <2>1, RecentFeedback DEF State
    <2>3. given \in Feedbacks
        BY <2>1, <2>2 DEF Feedbacks
    <2>4. PICK names \in SUBSET Suggestions : Change([state EXCEPT !.feedback = kept(names)])
        BY <1>8 DEF Feedback
    <2> HIDE DEF given
    <2>5. kept(names) \in Feedbacks
        BY <2>1, <2>3 DEF Feedbacks, NoFeedback
    <2> HIDE DEF kept
    <2>6. [state EXCEPT !.feedback = kept(names)] \in State
        BY <2>1, <2>5 DEF State
    <2> QED BY <2>4, <2>6, ChangeTypes
<1>9. ASSUME NEW n \in Senders, NEW rev \in 0..Len(turns), NEW id \in Senders, Send(n, id, rev)
      PROVE  TypeInv'
    BY <1>9, SendTypes
<1>10. ASSUME NEW n \in Senders, ChatStep(n) PROVE TypeInv'
    BY <1>10, ChatStepTypes
<1>11. CASE Restart
    BY <1>11, RestartTypes
<1>12. CASE DayPasses
    BY <1>12, DayPassesTypes
<1>13. CASE UNCHANGED asvars
    <2>1. UNCHANGED <<chatAlone, left, chat>>
        BY <1>13 DEF asvars, chatAlone
    <2>2. Calling' \subseteq Calling
        BY <2>1 DEF Calling
    <2> QED BY <2>1, <2>2, TypesAlone
<1> QED BY <1>1, <1>2, <1>3, <1>4, <1>5, <1>6, <1>7, <1>8, <1>9, <1>10, <1>11, <1>12, <1>13
        DEF AssistantNext, JobAnswered

LEMMA TypeInvTypeOK == IInv /\ TypeInv => AssistantTypeOK
<1> SUFFICES ASSUME IInv, TypeInv PROVE AssistantTypeOK
    OBVIOUS
<1>1. facts \in 0..MaxFacts /\ edits \in 0..MaxEdits /\ epoch \in Epochs
    BY InBounds DEF TypeInv
<1>2. day \in 0..MaxDays /\ goal \in BOOLEAN /\ state \in State /\ saved \in State
    BY DEF TypeInv, SettingsFit
<1>3. /\ context = None \/ context \in Context
      /\ cached = None \/ cached \in [opts : SUBSET Suggestions, ctx : Context, epoch : Epochs]
    BY DEF TypeInv, AdviceFits, Contexts, Advice
<1>4. \A field \in DOMAIN gate : gate[field] = None \/ gate[field] \in Context
    BY DEF TypeInv, JobFits, Gates, Contexts
<1>5. job.pc \in {"none", "slot", "call"} /\ (job.pc # "none" => gate.inFlight = job.ctx)
    BY DEF TypeInv, JobFits, Jobs
<1>6. \A n \in Senders : chat[n].pc \in {"none", "lock", "ask1", "call1", "ask2", "call2", "storing", "done"}
    BY DEF IInv, ChatTypes, ChatRecord, Working
<1>7. Cardinality({n \in Senders : chat[n].pc \in InCall}) + (IF job.pc = "call" THEN 1 ELSE 0) <= Slots
    BY DEF TypeInv, SlotsSuffice, InUse, Calling
<1> QED BY <1>1, <1>2, <1>3, <1>4, <1>5, <1>6, <1>7 DEF AssistantTypeOK

\* Whoever asks the model and in whatever order the answers come, every part of the
\* assistant keeps its type, the gate's context in flight is that of the job, and the
\* calls in progress never exceed the slots (_model_slots, RefreshGate).
THEOREM AssistantTypeCorrect == AssistantSpec => []AssistantTypeOK
<1>1. AssistantInit => IInv /\ TypeInv
    BY InitIInv, InitTypes
<1>2. IInv /\ TypeInv /\ [AssistantNext]_asvars => (IInv /\ TypeInv)'
    BY NextKeepsIInv, NextKeepsTypes
<1>3. IInv /\ TypeInv => AssistantTypeOK
    BY TypeInvTypeOK
<1> QED BY <1>1, <1>2, <1>3, PTL DEF AssistantSpec
=============================================================================
