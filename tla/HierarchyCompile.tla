--------------------------- MODULE HierarchyCompile ---------------------------
(* hierarchy_compile.py with the routes of server.py that drive it: compiles    *)
(* on drafts of the live database, and the swap of database files when a draft  *)
(* is accepted, beside edits and the recorder that use the live database.       *)
(*                                                                              *)
(* A database is a main file and a write-ahead log beside it, both found by     *)
(* path.  Its content is abstracted to marks: the writers whose transactions    *)
(* are in it and the compiles whose markup is.  "of" is the database a file     *)
(* belongs to, whatever path it is moved to.  A commit appends to the log;      *)
(* folding a log into its main file is what SQLite does at a checkpoint and     *)
(* when the last connection closes.                                             *)
EXTENDS Naturals, FiniteSets

CONSTANTS
    Tokens,    \* compiles, each with the draft it mints
    Swaps,     \* requests to accept or revert a draft
    Edits,     \* requests that edit the live database
    Recorder,  \* the recording system with its long-lived handle
    Original,  \* the live database before any accept
    Fresh,     \* an empty database made by a request that found none
    NoFile,
    LastStamp  \* bound: the seconds in which swaps happen

ASSUME CompileAssumption ==
    /\ LastStamp \in Nat
    /\ Recorder \notin Edits
    /\ Original \notin Tokens /\ Fresh \notin Tokens /\ Original # Fresh
    /\ NoFile \notin Tokens \cup {Original, Fresh}

VARIABLES
    files, wals,   \* path -> database file and its log
    metas,         \* drafts whose metadata is written
    stage,         \* where a compile is
    swap,          \* where an accept or revert is, its draft and its backup
    conn, writer,  \* the database a writer has open, and how far it is
    running,       \* status["running"]
    settled,       \* history: marks committed to the live file while no swap moved files
    upset          \* history: what has disturbed a swap or a copy

cvars == <<files, wals, metas, stage, swap, conn, writer, running, settled, upset>>

Writers == Edits \cup {Recorder}
Marks   == Writers \cup Tokens
Databases == Tokens \cup {Original, Fresh}
Stamps  == 0..LastStamp

live      == <<"live">>
Draft(t)  == <<"draft", t>>
Backup(s) == <<"backup", s>>
Paths == {live} \cup {Draft(t) : t \in Tokens} \cup {Backup(s) : s \in Stamps}

File == [of : Databases, marks : SUBSET Marks]

ASSUME NoFileAssumption == NoFile \notin File

Compiling == {"started", "copied", "open", "edited"}
Stages == {"new", "complete", "failed"} \cup Compiling

\* The steps of an accept from its checks to the removal of the draft.
InThread == {"foldLive", "foldDraft", "moveLive", "dropWal", "moveDraft", "dropSidecar"}
Swapping == {"quiesce", "discard"} \cup InThread
SwapSteps == {"new", "over"} \cup Swapping

CompileTypeOK ==
    /\ files \in [Paths -> File \cup {NoFile}]
    /\ wals \in [Paths -> File \cup {NoFile}]
    /\ metas \subseteq Tokens
    /\ stage \in [Tokens -> Stages]
    /\ swap \in [Swaps -> [at : SwapSteps, token : Tokens \cup {NoFile}, stamp : Stamps]]
    /\ conn \in [Writers -> Databases \cup {NoFile}]
    /\ writer \in [Writers -> {"new", "open", "committed", "closed"}]
    /\ \A w \in Writers : conn[w] # NoFile => writer[w] \in {"open", "committed"}
    /\ running \in BOOLEAN
    /\ settled \subseteq Writers
    /\ upset \subseteq {"twoSwaps", "gapOpened", "sweptDraft", "sweptCopy",
                     "tornCopy", "notFolded"}

CompileInit ==
    /\ files = [p \in Paths |-> IF p = live THEN [of |-> Original, marks |-> {}] ELSE NoFile]
    /\ wals = [p \in Paths |-> NoFile]
    /\ metas = {}
    /\ stage = [t \in Tokens |-> "new"]
    /\ swap = [r \in Swaps |-> [at |-> "new", token |-> NoFile, stamp |-> 0]]
    /\ conn = [w \in Writers |-> NoFile]
    /\ writer = [w \in Writers |-> "new"]
    /\ running = FALSE
    /\ settled = {}
    /\ upset = {}

-----------------------------------------------------------------------------
(* Database files. *)

Logged(f, mark) == IF f = NoFile THEN {mark} ELSE f.marks \cup {mark}

\* What a reader of the database at path p sees.
Content(p) ==
    (IF files[p] = NoFile THEN {} ELSE files[p].marks)
        \cup (IF wals[p] = NoFile THEN {} ELSE wals[p].marks)

\* Fold the log at p into its main file; a missing database is ignored.
Fold(p) ==
    IF files[p] = NoFile
    THEN UNCHANGED <<files, wals>>
    ELSE /\ files' = [files EXCEPT ![p].marks = Content(p)]
         /\ wals' = [wals EXCEPT ![p] = NoFile]

\* Mutant: the handle is kept after a close.
DisconnectNot(w) == UNCHANGED <<conn, files, wals>>

\* The last connection to a database that is still at its path folds the log.
Disconnect(w) ==
    /\ conn' = [conn EXCEPT ![w] = NoFile]
    /\ IF /\ files[live] # NoFile
          /\ files[live].of = conn[w]
          /\ \A v \in Writers \ {w} : conn[v] # conn[w]
       THEN Fold(live)
       ELSE UNCHANGED <<files, wals>>

Without(paths, f) == [p \in Paths |-> IF p \in paths THEN NoFile ELSE f[p]]

\* _discard_draft
Discard(t) ==
    /\ files' = Without({Draft(t)}, files)
    /\ wals' = Without({Draft(t)}, wals)
    /\ metas' = metas \ {t}

Moving(r) == swap[r].at \in InThread

-----------------------------------------------------------------------------
(* Writers of the live database. *)

\* connect: SQLite creates the database when no file is at the live path.
Open(w) ==
    /\ writer[w] = "new"
    /\ w = Recorder => running
    /\ writer' = [writer EXCEPT ![w] = "open"]
    /\ IF files[live] = NoFile
       THEN /\ files' = [files EXCEPT ![live] = [of |-> Fresh, marks |-> {}]]
            /\ conn' = [conn EXCEPT ![w] = Fresh]
            /\ upset' = upset \cup {"gapOpened"}
       ELSE /\ conn' = [conn EXCEPT ![w] = files[live].of]
            /\ UNCHANGED <<files, upset>>
    /\ UNCHANGED <<wals, metas, stage, swap, running, settled>>

\* The end of a session.  The log at the live path takes the transaction as long
\* as it is that of the writer's database; otherwise it has been unlinked, and the
\* transaction is in a file without a name.
Commit(w) ==
    /\ writer[w] = "open"
    /\ writer' = [writer EXCEPT ![w] = "committed"]
    /\ LET there   == files[live] # NoFile /\ files[live].of = conn[w]
           logOnly == wals[live] # NoFile /\ wals[live].of = conn[w]
           quiet   == \A r \in Swaps : ~Moving(r)
       IN /\ wals' = IF there \/ logOnly
                     THEN [wals EXCEPT ![live] = [of |-> conn[w], marks |-> Logged(wals[live], w)]]
                     ELSE wals
          /\ settled' = IF there /\ quiet THEN settled \cup {w} ELSE settled
    /\ UNCHANGED <<files, metas, stage, swap, conn, running, upset>>

\* close of a request's own Database; the recorder's handle is shared and stays.
Close(w) ==
    /\ w \in Edits
    /\ writer[w] = "committed"
    /\ writer' = [writer EXCEPT ![w] = "closed"]
    /\ Disconnect(w)
    /\ UNCHANGED <<metas, stage, swap, running, settled, upset>>

StartRecording ==
    /\ ~running /\ writer[Recorder] = "new"
    /\ running' = TRUE
    /\ UNCHANGED <<files, wals, metas, stage, swap, conn, writer, settled, upset>>

StopRecording ==
    /\ running /\ writer[Recorder] # "open"
    /\ running' = FALSE
    /\ UNCHANGED <<files, wals, metas, stage, swap, conn, writer, settled, upset>>

-----------------------------------------------------------------------------
(* compile *)

\* What the removal of old drafts disturbs.
SweepUpsets(old) ==
    {u \in {"sweptDraft", "sweptCopy"} :
        \/ u = "sweptDraft" /\ \E r \in Swaps : swap[r].at \in Swapping /\ swap[r].token \in old
        \/ u = "sweptCopy" /\ \E a \in old : stage[a] \in Compiling /\ files[Draft(a)] # NoFile}

\* _sweep_stale_drafts, and the first event.  Any draft may be old by now, that of a
\* running compile too: shutil.copy2 gives the copy the time of the live file, and
\* until the draft is closed commits only write its log.  Each file is looked at by
\* itself: the log of an old draft may be younger and stay.
StartCompile(t) ==
    /\ stage[t] = "new"
    /\ stage' = [stage EXCEPT ![t] = "started"]
    /\ \E old \in SUBSET {a \in Tokens : stage[a] \notin {"new", "started"}} :
          /\ files' = Without({Draft(a) : a \in old}, files)
          /\ \E logs \in SUBSET old : wals' = Without({Draft(a) : a \in logs}, wals)
          /\ metas' = metas \ old
          /\ upset' = upset \cup SweepUpsets(old)
    /\ UNCHANGED <<swap, conn, writer, running, settled>>

\* _copy_live_database: the main file first, as it is.  Without one the compile ends.
CopyMain(t) ==
    /\ stage[t] = "started"
    /\ IF files[live] = NoFile
       THEN /\ stage' = [stage EXCEPT ![t] = "failed"]
            /\ UNCHANGED files
       ELSE /\ stage' = [stage EXCEPT ![t] = "copied"]
            /\ files' = [files EXCEPT ![Draft(t)] = files[live]]
    /\ UNCHANGED <<wals, metas, swap, conn, writer, running, settled, upset>>

\* The log at the live path is that of the file copied before, which neither a swap
\* nor a fold has replaced since; a foreign log is "tornCopy".
LogFits(t) == wals[live] = NoFile \/ files[live] = files[Draft(t)]

\* ... then the log, whichever lies at the live path by now, and the draft is opened
\* under its own name.  When the main file has been swept SQLite creates an empty
\* database, and deletes the log beside it.
CopyWal(t) ==
    /\ stage[t] = "copied"
    /\ stage' = [stage EXCEPT ![t] = "open"]
    /\ LET d == Draft(t)
           opened(f) == IF f.of = files[d].of THEN [f EXCEPT !.of = t] ELSE f
       IN IF files[d] = NoFile
          THEN /\ files' = [files EXCEPT ![d] = [of |-> Fresh, marks |-> {}]]
               /\ UNCHANGED <<wals, upset>>
          ELSE /\ files' = [files EXCEPT ![d].of = t]
               /\ wals' = IF wals[live] = NoFile THEN wals
                          ELSE [wals EXCEPT ![d] = opened(wals[live])]
               /\ upset' = IF LogFits(t) THEN upset ELSE upset \cup {"tornCopy"}
    /\ UNCHANGED <<metas, swap, conn, writer, running, settled>>

\* _apply_edits in a session of the draft, after the first snapshot.  Without a file
\* the transaction is in one that has no name any more; an empty database has
\* nothing to mark up.
EditDraft(t) ==
    /\ stage[t] = "open"
    /\ stage' = [stage EXCEPT ![t] = "edited"]
    /\ LET d == Draft(t)
           log == IF wals[d] = NoFile THEN [of |-> t, marks |-> {}] ELSE wals[d]
       IN wals' = IF (files[d] = NoFile /\ wals[d] = NoFile)
                     \/ (files[d] # NoFile /\ files[d].of = Fresh)
                  THEN wals
                  ELSE [wals EXCEPT ![d] = [log EXCEPT !.marks = @ \cup {t}]]
    /\ UNCHANGED <<files, metas, swap, conn, writer, running, settled, upset>>

\* Synthesis and the second snapshot succeed, the draft is closed and the
\* metadata written: the "complete" event.
FinishCompile(t) ==
    /\ stage[t] = "edited"
    /\ stage' = [stage EXCEPT ![t] = "complete"]
    /\ Fold(Draft(t))
    /\ metas' = metas \cup {t}
    /\ UNCHANGED <<swap, conn, writer, running, settled, upset>>

\* An exception: the "error" event.  While the copy runs "draft" is still None,
\* and what has been copied stays behind.
FailCompile(t) ==
    /\ stage[t] \in Compiling
    /\ stage' = [stage EXCEPT ![t] = "failed"]
    /\ IF stage[t] \in {"open", "edited"}
       THEN Discard(t)
       ELSE UNCHANGED <<files, wals, metas>>
    /\ UNCHANGED <<swap, conn, writer, running, settled, upset>>

\* The client goes away and the generator is closed: a draft that is open is closed,
\* and the files are left.
AbandonCompile(t) ==
    /\ stage[t] \in Compiling
    /\ stage' = [stage EXCEPT ![t] = "failed"]
    /\ IF stage[t] \in {"open", "edited"}
       THEN Fold(Draft(t))
       ELSE UNCHANGED <<files, wals>>
    /\ UNCHANGED <<metas, swap, conn, writer, running, settled, upset>>

-----------------------------------------------------------------------------
(* accept and revert *)

To(r, step) == [swap EXCEPT ![r].at = step]
Ended(r) == [swap EXCEPT ![r] = [at |-> "over", token |-> NoFile, stamp |-> 0]]

\* Mutant: a draft is acceptable as soon as its file exists.
CanAcceptAnyFile(t) == ~running /\ files[Draft(t)] # NoFile

\* The route's test of status["running"] and accept's checks; none is repeated.
\* A refused request ends here.
CanAccept(t) == ~running /\ t \in metas /\ files[Draft(t)] # NoFile

StartAccept(r, t) ==
    /\ swap[r].at = "new"
    /\ CanAccept(t)
    /\ swap' = [swap EXCEPT ![r] = [at |-> "quiesce", token |-> t, stamp |-> 0]]
    /\ upset' = IF \E o \in Swaps : swap[o].at \in Swapping
                THEN upset \cup {"twoSwaps"} ELSE upset
    /\ UNCHANGED <<files, wals, metas, stage, conn, writer, running, settled>>

\* quiesce("before"): force_close of the recorder's handle, unless a session uses it.
Quiesce(r) ==
    /\ swap[r].at = "quiesce"
    /\ swap' = To(r, "foldLive")
    /\ IF writer[Recorder] = "committed" /\ conn[Recorder] # NoFile
       THEN Disconnect(Recorder)
       ELSE UNCHANGED <<files, wals, conn>>
    /\ UNCHANGED <<metas, stage, writer, running, settled, upset>>

\* Mutant: the live log is not folded before the file moves.
FoldLiveNot(r) ==
    /\ swap[r].at = "foldLive"
    /\ \E now \in Stamps : swap' = [swap EXCEPT ![r].at = "foldDraft", ![r].stamp = now]
    /\ UNCHANGED <<files, wals, metas, stage, conn, writer, running, settled, upset>>

\* _checkpoint_sqlite: an error is logged and a busy checkpoint not noticed, and the
\* swap goes on.  What is folded in part lies between the two.
Checkpoint(p) ==
    \/ Fold(p) /\ UNCHANGED upset
    \/ /\ files[p] # NoFile /\ wals[p] # NoFile
       /\ upset' = upset \cup {"notFolded"}
       /\ UNCHANGED <<files, wals>>

\* The seconds that name a backup; those without a swap are not counted.
Stamped(s) ==
    \/ files[Backup(s)] # NoFile
    \/ \E o \in Swaps : swap[o].at \in InThread \ {"foldLive"} /\ swap[o].stamp = s

\* _swap_in_draft runs in a thread, beside the event loop.  The backup is named by
\* the second, which is not before that of an earlier backup.
FoldLive(r) ==
    /\ swap[r].at = "foldLive"
    /\ \E now \in Stamps :
          /\ \A s \in Stamps : files[Backup(s)] # NoFile => s <= now
          /\ \A s \in Stamps : s < now => Stamped(s)
          /\ swap' = [swap EXCEPT ![r].at = "foldDraft", ![r].stamp = now]
    /\ Checkpoint(live)
    /\ UNCHANGED <<metas, stage, conn, writer, running, settled>>

FoldDraft(r) ==
    /\ swap[r].at = "foldDraft"
    /\ swap' = To(r, "moveLive")
    /\ Checkpoint(Draft(swap[r].token))
    /\ UNCHANGED <<metas, stage, conn, writer, running, settled>>

\* A file moved onto a backup of the same second replaces it.
MoveLive(r) ==
    /\ swap[r].at = "moveLive"
    /\ swap' = To(r, "dropWal")
    /\ IF files[live] = NoFile
       THEN UNCHANGED <<files, upset>>
       ELSE /\ files' = [files EXCEPT ![Backup(swap[r].stamp)] = files[live], ![live] = NoFile]
            /\ upset' = IF files[Backup(swap[r].stamp)] # NoFile
                        THEN upset \cup {"twoSwaps"} ELSE upset
    /\ UNCHANGED <<wals, metas, stage, conn, writer, running, settled>>

\* Mutant: the live log is left where it is.
DropWalNot(r) ==
    /\ swap[r].at = "dropWal"
    /\ swap' = To(r, "moveDraft")
    /\ UNCHANGED <<files, wals, metas, stage, conn, writer, running, settled, upset>>

DropWal(r) ==
    /\ swap[r].at = "dropWal"
    /\ swap' = To(r, "moveDraft")
    /\ wals' = Without({live}, wals)
    /\ UNCHANGED <<files, metas, stage, conn, writer, running, settled, upset>>

\* Without a draft the move raises, and the request ends with an error.
MoveDraft(r) ==
    /\ swap[r].at = "moveDraft"
    /\ LET d == Draft(swap[r].token)
       IN IF files[d] = NoFile
          THEN /\ swap' = Ended(r)
               /\ UNCHANGED files
          ELSE /\ swap' = To(r, "dropSidecar")
               /\ files' = [files EXCEPT ![live] = files[d], ![d] = NoFile]
    /\ UNCHANGED <<wals, metas, stage, conn, writer, running, settled, upset>>

DropSidecar(r) ==
    /\ swap[r].at = "dropSidecar"
    /\ swap' = To(r, "discard")
    /\ wals' = Without({Draft(swap[r].token)}, wals)
    /\ UNCHANGED <<files, metas, stage, conn, writer, running, settled, upset>>

EndAccept(r) ==
    /\ swap[r].at = "discard"
    /\ swap' = Ended(r)
    /\ Discard(swap[r].token)
    /\ UNCHANGED <<stage, conn, writer, running, settled, upset>>

\* revert does not suspend: its lock is its own.
Revert(r, t) ==
    /\ swap[r].at = "new"
    /\ t \in metas
    /\ swap' = Ended(r)
    /\ Discard(t)
    /\ upset' = IF \E o \in Swaps : swap[o].at \in Swapping /\ swap[o].token = t
                THEN upset \cup {"twoSwaps"} ELSE upset
    /\ UNCHANGED <<stage, conn, writer, running, settled>>

CompileNext ==
    \/ \E w \in Writers : Open(w) \/ Commit(w) \/ Close(w)
    \/ StartRecording \/ StopRecording
    \/ \E t \in Tokens :
          \/ StartCompile(t) \/ CopyMain(t) \/ CopyWal(t) \/ EditDraft(t)
          \/ FinishCompile(t) \/ FailCompile(t) \/ AbandonCompile(t)
    \/ \E r \in Swaps :
          \/ Quiesce(r) \/ FoldLive(r) \/ FoldDraft(r) \/ MoveLive(r) \/ DropWal(r)
          \/ MoveDraft(r) \/ DropSidecar(r) \/ EndAccept(r)
          \/ \E t \in Tokens : StartAccept(r, t) \/ Revert(r, t)

CompileSpec == CompileInit /\ [][CompileNext]_cvars

-----------------------------------------------------------------------------
(* Properties *)

\* accept promotes what a compile has completed and nothing else: a draft whose
\* edits or synthesis failed, or whose client went away, never becomes the live
\* database.  Metadata, which makes a draft acceptable, is there only with a
\* completed draft, until a swap that has moved the draft discards it (compile,
\* accept, _discard_draft).  The sweep of another compile can take the copy of a
\* running one away; after that a compile may complete with an empty draft or none.
LiveIsWhole == "sweptCopy" \notin upset =>
    /\ files[live] # NoFile /\ files[live].of \in Tokens =>
           stage[files[live].of] = "complete" /\ files[live].of \in files[live].marks
    /\ \A t \in metas :
           /\ stage[t] = "complete"
           /\ \/ files[Draft(t)] # NoFile
              \/ \E r \in Swaps : swap[r].token = t /\ swap[r].at \in {"dropSidecar", "discard"}

\* What was committed to the live file while no swap moved files is in the live
\* database or in a backup ever after, although the draft that replaces it was
\* copied before: the backup is the folded live file.  Two swaps at once, or in one
\* second, can destroy it, and so can a checkpoint that does not fold the log which
\* the swap then unlinks (_swap_in_draft, _checkpoint_sqlite).
SettledIsKept ==
    upset \cap {"twoSwaps", "notFolded"} = {} =>
        \A w \in settled :
            \/ w \in Content(live)
            \/ \E s \in Stamps : w \in Content(Backup(s))

\* Between swaps there is a live database, unless a draft was taken away from a
\* swap that had begun: by another accept or revert, or by the sweep of a compile
\* (accept tests the draft before it waits).  And no database ends up paired with
\* the log of another one (_swap_in_draft folds and drops the logs), except that of
\* an empty database which a request created while the live file was moved away, and
\* the copy of a file with a log that is not that file's (_copy_live_database).
SwapLeavesSoundDatabase ==
    /\ /\ upset \cap {"twoSwaps", "sweptDraft"} = {}
       /\ \A r \in Swaps : swap[r].at \notin {"dropWal", "moveDraft"}
       => files[live] # NoFile
    /\ \A p \in Paths :
           /\ files[p] # NoFile /\ wals[p] # NoFile
           /\ upset \cap {"twoSwaps", "gapOpened", "tornCopy"} = {}
           => wals[p].of = files[p].of

-----------------------------------------------------------------------------
(* Claims that the code does not keep. *)

\* "Fold each database's WAL into its main file before moving anything", "keeping a
\* timestamped backup" (_swap_in_draft): with one swap at a time, what was committed
\* to the live file is in it or in a backup.
BackupIsFolded ==
    "twoSwaps" \notin upset =>
        \A w \in settled : \E p \in {live} \cup {Backup(s) : s \in Stamps} : w \in Content(p)

\* "Working copies older than this are swept on the next compile.  A compile the user
\* walked away from should not pin disk forever." (STALE_DRAFT_SECONDS): the draft of
\* a compile that runs, and then completes, is not swept.
RunningDraftIsKept ==
    \A t \in Tokens : stage[t] \in {"open", "edited"} => files[Draft(t)] # NoFile

\* "The live database runs in WAL mode, so recent writes may live only in the sidecar
\* files.  Carry them across or the copy reads as stale." (_copy_live_database): the
\* log that is carried across is that of the file which was copied.
CopyHasItsLog ==
    \A t \in Tokens :
        stage[t] = "open" /\ files[Draft(t)] # NoFile /\ wals[Draft(t)] # NoFile
        => wals[Draft(t)].of = files[Draft(t)].of
=============================================================================
