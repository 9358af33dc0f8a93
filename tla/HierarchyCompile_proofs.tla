----------------------- MODULE HierarchyCompile_proofs -----------------------
(***************************************************************************)
(* Proofs about compiles and the swap of database files, for any numbers   *)
(* of compiles, swaps and edits and any bound on time: type correctness,   *)
(* that only a completed draft goes live, that settled transactions are    *)
(* kept, and that a swap leaves a sound database.                          *)
(***************************************************************************)
EXTENDS HierarchyCompile, TLAPS

-----------------------------------------------------------------------------
(* Paths and files *)

LEMMA PathFacts ==
    /\ live \in Paths
    /\ \A t \in Tokens : Draft(t) \in Paths /\ Draft(t) # live
    /\ \A s \in Stamps : Backup(s) \in Paths /\ Backup(s) # live
    /\ \A t, u \in Tokens : Draft(t) = Draft(u) => t = u
    /\ \A s, z \in Stamps : Backup(s) = Backup(z) => s = z
    /\ \A t \in Tokens, s \in Stamps : Draft(t) # Backup(s)
    /\ \A p \in Paths : \/ p = live
                        \/ \E t \in Tokens : p = Draft(t)
                        \/ \E s \in Stamps : p = Backup(s)
<1>1. \A t : Draft(t) # live /\ Backup(t) # live
  BY DEF live, Draft, Backup
<1>2. \A t, u : Draft(t) = Draft(u) => t = u
  BY DEF Draft
<1>3. \A t, u : Backup(t) = Backup(u) => t = u
  BY DEF Backup
<1>4. \A t, u : Draft(t) # Backup(u)
  BY DEF Draft, Backup
<1> QED BY <1>1, <1>2, <1>3, <1>4 DEF Paths

FilesTypeOK ==
    /\ files \in [Paths -> File \cup {NoFile}]
    /\ wals \in [Paths -> File \cup {NoFile}]

LEMMA ContentType ==
    ASSUME FilesTypeOK, NEW p \in Paths
    PROVE  Content(p) \in SUBSET Marks
<1>1. /\ files[p] # NoFile => files[p].marks \in SUBSET Marks
      /\ wals[p] # NoFile => wals[p].marks \in SUBSET Marks
  BY DEF FilesTypeOK, File
<1> QED BY <1>1 DEF Content

\* Folding a log changes nothing but the path it is at: the file there takes
\* the content of both.
LEMMA FoldEffect ==
    ASSUME FilesTypeOK, NEW p \in Paths, Fold(p)
    PROVE  /\ FilesTypeOK'
           /\ \A q \in Paths : q # p => files'[q] = files[q] /\ wals'[q] = wals[q]
           /\ files[p] = NoFile => files'[p] = NoFile /\ wals'[p] = wals[p]
           /\ files[p] # NoFile =>
                /\ files'[p] # NoFile /\ wals'[p] = NoFile
                /\ files'[p].of = files[p].of
                /\ files'[p].marks = Content(p)
<1>1. CASE files[p] = NoFile
  BY <1>1 DEF Fold, FilesTypeOK
<1>2. CASE files[p] # NoFile
  <2> DEFINE f == [files[p] EXCEPT !.marks = Content(p)]
  <2>1. /\ files' = [files EXCEPT ![p] = f]
        /\ wals' = [wals EXCEPT ![p] = NoFile]
    BY <1>2 DEF Fold
  <2>2. files[p] \in File /\ Content(p) \in SUBSET Marks
    BY <1>2, ContentType DEF FilesTypeOK
  <2>3. f \in File /\ f.of = files[p].of /\ f.marks = Content(p)
    BY <2>2 DEF File
  <2> HIDE DEF f
  <2> QED BY <1>2, <2>1, <2>3, NoFileAssumption DEF FilesTypeOK
<1> QED BY <1>1, <1>2

LEMMA WithoutEffect ==
    ASSUME NEW f \in [Paths -> File \cup {NoFile}], NEW S
    PROVE  /\ Without(S, f) \in [Paths -> File \cup {NoFile}]
           /\ \A q \in Paths :
                Without(S, f)[q] = IF q \in S THEN NoFile ELSE f[q]
BY DEF Without

-----------------------------------------------------------------------------
(* What every action does to the files, path by path *)

KeptAt(q) == files'[q] = files[q] /\ wals'[q] = wals[q]
GoneAt(q) == files'[q] = NoFile /\ wals'[q] = NoFile

\* The paths a step leaves alone.
KeptBut(S) == \A q \in Paths : q \notin S => KeptAt(q)

\* The log at p is folded, or nothing happens there.
FoldedAt(p) ==
    /\ files[p] = NoFile => KeptAt(p)
    /\ files[p] # NoFile =>
         /\ files'[p] # NoFile /\ files'[p].of = files[p].of
         /\ KeptAt(p) \/ (wals'[p] = NoFile /\ files'[p].marks = Content(p))

LEMMA StillFiles ==
    ASSUME FilesTypeOK, UNCHANGED <<files, wals>>
    PROVE  FilesTypeOK' /\ KeptBut({}) /\ \A p \in Paths : FoldedAt(p)
BY DEF FilesTypeOK, KeptBut, KeptAt, FoldedAt

LEMMA FoldFiles ==
    ASSUME FilesTypeOK, NEW p \in Paths, Fold(p)
    PROVE  FilesTypeOK' /\ KeptBut({p}) /\ FoldedAt(p)
BY FoldEffect DEF KeptBut, KeptAt, FoldedAt

LEMMA DisconnectFiles ==
    ASSUME FilesTypeOK, NEW w, Disconnect(w)
    PROVE  FilesTypeOK' /\ KeptBut({live}) /\ FoldedAt(live)
<1>1. CASE Fold(live)
  BY <1>1, FoldFiles, PathFacts
<1>2. CASE UNCHANGED <<files, wals>>
  BY <1>2, StillFiles, PathFacts DEF KeptBut
<1> QED BY <1>1, <1>2 DEF Disconnect

LEMMA DiscardFiles ==
    ASSUME FilesTypeOK, NEW t \in Tokens, Discard(t)
    PROVE  FilesTypeOK' /\ KeptBut({Draft(t)}) /\ GoneAt(Draft(t))
<1>1. /\ files' = Without({Draft(t)}, files)
      /\ wals' = Without({Draft(t)}, wals)
  BY DEF Discard
<1> QED BY <1>1, WithoutEffect, PathFacts DEF FilesTypeOK, KeptBut, KeptAt, GoneAt

LEMMA OpenFiles ==
    ASSUME FilesTypeOK, NEW w, Open(w)
    PROVE  /\ FilesTypeOK' /\ KeptBut({live}) /\ wals' = wals
           /\ files[live] # NoFile => KeptAt(live) /\ upset' = upset
           /\ files[live] = NoFile =>
                /\ files'[live] # NoFile /\ files'[live].of = Fresh
                /\ upset' = upset \cup {"gapOpened"}
<1> DEFINE f == [of |-> Fresh, marks |-> {}]
<1>1. f \in File /\ f.of = Fresh
  BY DEF File, Databases
<1>2. CASE files[live] = NoFile
  <2>1. files' = [files EXCEPT ![live] = f] /\ wals' = wals
        /\ upset' = upset \cup {"gapOpened"}
    BY <1>2 DEF Open
  <2> HIDE DEF f
  <2> QED BY <1>1, <1>2, <2>1, NoFileAssumption, PathFacts
          DEF FilesTypeOK, KeptBut, KeptAt
<1>3. CASE files[live] # NoFile
  BY <1>3 DEF Open, FilesTypeOK, KeptBut, KeptAt
<1> QED BY <1>2, <1>3

There(w) == files[live] # NoFile /\ files[live].of = conn[w]
LogOnly(w) == wals[live] # NoFile /\ wals[live].of = conn[w]

LEMMA CommitFiles ==
    ASSUME FilesTypeOK, NEW w \in Writers, Commit(w)
    PROVE  /\ FilesTypeOK' /\ files' = files /\ KeptBut({live})
           /\ ~There(w) /\ ~LogOnly(w) => wals' = wals
           /\ There(w) \/ LogOnly(w) =>
                /\ wals'[live] # NoFile /\ wals'[live].of = conn[w]
                /\ w \in wals'[live].marks /\ w \in Content(live)'
                /\ Content(live) \subseteq Content(live)'
<1>1. /\ files' = files
      /\ wals' = IF There(w) \/ LogOnly(w)
                 THEN [wals EXCEPT ![live] = [of |-> conn[w],
                                              marks |-> Logged(wals[live], w)]]
                 ELSE wals
  BY DEF Commit, There, LogOnly
<1>2. CASE ~There(w) /\ ~LogOnly(w)
  BY <1>1, <1>2 DEF FilesTypeOK, KeptBut, KeptAt
<1>3. CASE There(w) \/ LogOnly(w)
  <2> DEFINE f == [of |-> conn[w], marks |-> Logged(wals[live], w)]
  <2>1. conn[w] \in Databases
    BY <1>3, PathFacts DEF There, LogOnly, FilesTypeOK, File
  <2>2. /\ Logged(wals[live], w) \in SUBSET Marks
        /\ w \in Logged(wals[live], w)
        /\ wals[live] # NoFile => wals[live].marks \subseteq Logged(wals[live], w)
    <3>1. wals[live] # NoFile => wals[live].marks \in SUBSET Marks
      BY PathFacts DEF FilesTypeOK, File
    <3>2. w \in Marks
      BY DEF Marks
    <3> QED BY <3>1, <3>2 DEF Logged
  <2>3. f \in File /\ f.of = conn[w] /\ f.marks = Logged(wals[live], w)
    BY <2>1, <2>2 DEF File
  <2>4. wals' = [wals EXCEPT ![live] = f]
    BY <1>1, <1>3
  <2> HIDE DEF f
  <2>5. /\ wals' \in [Paths -> File \cup {NoFile}]
        /\ wals'[live] = f /\ f # NoFile
        /\ \A q \in Paths : q # live => wals'[q] = wals[q]
    BY <2>3, <2>4, NoFileAssumption, PathFacts DEF FilesTypeOK
  <2>6. FilesTypeOK' /\ KeptBut({live})
    BY <1>1, <2>5 DEF FilesTypeOK, KeptBut, KeptAt
  <2>7. w \in Content(live)' /\ Content(live) \subseteq Content(live)'
    BY <1>1, <2>2, <2>3, <2>5 DEF Content
  <2> QED BY <1>1, <1>3, <2>2, <2>3, <2>5, <2>6, <2>7
<1> QED BY <1>1, <1>2, <1>3

\* The file of the draft u is swept, and with it the metadata.
SweptAway(u) ==
    /\ files'[Draft(u)] = NoFile /\ wals'[Draft(u)] \in {wals[Draft(u)], NoFile}
    /\ u \notin metas'
    /\ \A r \in Swaps : swap[r].at \in Swapping /\ swap[r].token = u => "sweptDraft" \in upset'
    /\ stage[u] \in Compiling /\ files[Draft(u)] # NoFile => "sweptCopy" \in upset'

LEMMA StartCompileFiles ==
    ASSUME FilesTypeOK, NEW t \in Tokens, StartCompile(t)
    PROVE  /\ FilesTypeOK'
           /\ KeptAt(live)
           /\ \A s \in Stamps : KeptAt(Backup(s))
           /\ \A u \in Tokens : KeptAt(Draft(u)) \/ SweptAway(u)
           /\ metas' \subseteq metas
           /\ upset \subseteq upset' /\ upset' \subseteq upset \cup {"sweptDraft", "sweptCopy"}
<1>1. PICK old \in SUBSET {a \in Tokens : stage[a] \notin {"new", "started"}} :
          /\ files' = Without({Draft(a) : a \in old}, files)
          /\ \E logs \in SUBSET old : wals' = Without({Draft(a) : a \in logs}, wals)
          /\ metas' = metas \ old
          /\ upset' = upset \cup SweepUpsets(old)
  BY DEF StartCompile
<1>2. PICK logs \in SUBSET old : wals' = Without({Draft(a) : a \in logs}, wals)
  BY <1>1
<1>3. /\ FilesTypeOK'
      /\ \A q \in Paths :
           /\ files'[q] = IF \E a \in old : q = Draft(a) THEN NoFile ELSE files[q]
           /\ wals'[q] = IF \E a \in logs : q = Draft(a) THEN NoFile ELSE wals[q]
  <2> DEFINE S == {Draft(a) : a \in old}
             T == {Draft(a) : a \in logs}
  <2>1. /\ Without(S, files) \in [Paths -> File \cup {NoFile}]
        /\ \A q \in Paths : Without(S, files)[q] = IF q \in S THEN NoFile ELSE files[q]
    <3> HIDE DEF S
    <3> QED BY WithoutEffect DEF FilesTypeOK
  <2>2. /\ Without(T, wals) \in [Paths -> File \cup {NoFile}]
        /\ \A q \in Paths : Without(T, wals)[q] = IF q \in T THEN NoFile ELSE wals[q]
    <3> HIDE DEF T
    <3> QED BY WithoutEffect DEF FilesTypeOK
  <2>3. files' = Without(S, files) /\ wals' = Without(T, wals)
    BY <1>1, <1>2
  <2>4. FilesTypeOK'
    BY <2>1, <2>2, <2>3 DEF FilesTypeOK
  <2> QED BY <2>1, <2>2, <2>3, <2>4
<1>4. KeptAt(live) /\ \A s \in Stamps : KeptAt(Backup(s))
  <2>1. /\ ~ \E a \in old : live = Draft(a)
        /\ \A s \in Stamps : ~ \E a \in old : Backup(s) = Draft(a)
    BY PathFacts
  <2>2. /\ ~ \E a \in logs : live = Draft(a)
        /\ \A s \in Stamps : ~ \E a \in logs : Backup(s) = Draft(a)
    BY <2>1
  <2> QED BY <1>3, <2>1, <2>2, PathFacts DEF KeptAt
<1>5. ASSUME NEW u \in Tokens PROVE KeptAt(Draft(u)) \/ SweptAway(u)
  <2>1. (\E a \in old : Draft(u) = Draft(a)) <=> u \in old
    BY PathFacts
  <2>2. (\E a \in logs : Draft(u) = Draft(a)) <=> u \in logs
    BY PathFacts
  <2>3. CASE u \notin old
    BY <1>3, <2>1, <2>2, <2>3, PathFacts DEF KeptAt
  <2>4. CASE u \in old
    <3>1. files'[Draft(u)] = NoFile /\ wals'[Draft(u)] \in {wals[Draft(u)], NoFile}
      BY <1>3, <2>1, <2>2, <2>4, PathFacts
    <3>2. u \notin metas' BY <1>1, <2>4
    <3>3. \A r \in Swaps : swap[r].at \in Swapping /\ swap[r].token = u => "sweptDraft" \in upset'
      BY <1>1, <2>4 DEF SweepUpsets
    <3>4. stage[u] \in Compiling /\ files[Draft(u)] # NoFile => "sweptCopy" \in upset'
      BY <1>1, <2>4 DEF SweepUpsets
    <3> QED BY <3>1, <3>2, <3>3, <3>4 DEF SweptAway
  <2> QED BY <2>3, <2>4
<1>6. SweepUpsets(old) \subseteq {"sweptDraft", "sweptCopy"}
  BY DEF SweepUpsets
<1> QED BY <1>1, <1>3, <1>4, <1>5, <1>6

LEMMA CopyMainFiles ==
    ASSUME FilesTypeOK, NEW t \in Tokens, CopyMain(t)
    PROVE  /\ FilesTypeOK' /\ KeptBut({Draft(t)}) /\ wals' = wals
           /\ files[live] = NoFile => files' = files
           /\ files[live] # NoFile =>
                files'[Draft(t)] # NoFile
<1>1. CASE files[live] = NoFile
  BY <1>1 DEF CopyMain, FilesTypeOK, KeptBut, KeptAt
<1>2. CASE files[live] # NoFile
  <2>1. files' = [files EXCEPT ![Draft(t)] = files[live]] /\ wals' = wals
    BY <1>2 DEF CopyMain
  <2> QED BY <1>2, <2>1, PathFacts DEF FilesTypeOK, KeptBut, KeptAt
<1> QED BY <1>1, <1>2

\* An opened draft is the compile's own, or an empty one that SQLite has made, and
\* has the log that was at the live path.
LEMMA CopyWalFiles ==
    ASSUME FilesTypeOK, CompileAssumption, NEW t \in Tokens, CopyWal(t)
    PROVE  /\ FilesTypeOK' /\ KeptBut({Draft(t)}) /\ files'[Draft(t)] # NoFile
           /\ files'[Draft(t)].of \in {t, Fresh}
           /\ files[Draft(t)] # NoFile => files'[Draft(t)].of = t
           /\ \/ wals' = wals
              \/ /\ files[Draft(t)] # NoFile /\ wals[live] # NoFile
                 /\ wals[live].of = files[Draft(t)].of => wals'[Draft(t)].of = t
                 /\ LogFits(t) \/ "tornCopy" \in upset'
           /\ upset \subseteq upset' /\ upset' \subseteq upset \cup {"tornCopy"}
<1> DEFINE d == Draft(t)
<1>0. d \in Paths /\ live \in Paths
  BY PathFacts
<1>1. CASE files[d] = NoFile
  <2> DEFINE f == [of |-> Fresh, marks |-> {}]
  <2>1. files' = [files EXCEPT ![d] = f] /\ wals' = wals /\ upset' = upset
    BY <1>1 DEF CopyWal
  <2>2. f \in File /\ f.of = Fresh
    BY DEF File, Databases
  <2> HIDE DEF d, f
  <2>3. FilesTypeOK' /\ KeptBut({d}) /\ files'[d] = f /\ f # NoFile
    BY <1>0, <2>1, <2>2, NoFileAssumption DEF FilesTypeOK, KeptBut, KeptAt
  <2> QED BY <1>1, <2>1, <2>2, <2>3 DEF d
<1>2. CASE files[d] # NoFile
  <2> DEFINE f == [files[d] EXCEPT !.of = t]
             g == IF wals[live].of = files[d].of THEN [wals[live] EXCEPT !.of = t] ELSE wals[live]
  <2>1. /\ files' = [files EXCEPT ![d] = f]
        /\ wals' = IF wals[live] = NoFile THEN wals ELSE [wals EXCEPT ![d] = g]
        /\ upset' = IF LogFits(t) THEN upset ELSE upset \cup {"tornCopy"}
    BY <1>2 DEF CopyWal
  <2>2. f \in File /\ f.of = t
    <3>1. files[d] \in File BY <1>0, <1>2 DEF FilesTypeOK
    <3> QED BY <3>1 DEF File, Databases
  <2>3. wals[live] # NoFile =>
            g \in File /\ (wals[live].of = files[d].of => g.of = t)
    <3>1. SUFFICES ASSUME wals[live] # NoFile
                   PROVE  g \in File /\ (wals[live].of = files[d].of => g.of = t)
      OBVIOUS
    <3>2. wals[live] \in File BY <1>0, <3>1 DEF FilesTypeOK
    <3> QED BY <3>2 DEF File, Databases
  <2> HIDE DEF d, f, g
  <2>4. /\ files' \in [Paths -> File \cup {NoFile}]
        /\ files'[d] = f /\ f # NoFile
        /\ \A q \in Paths : q # d => files'[q] = files[q]
    BY <1>0, <2>1, <2>2, NoFileAssumption DEF FilesTypeOK
  <2>5. /\ wals' \in [Paths -> File \cup {NoFile}]
        /\ \A q \in Paths : q # d => wals'[q] = wals[q]
        /\ wals[live] # NoFile => wals'[d] = g
        /\ wals[live] = NoFile => wals' = wals
    BY <1>0, <2>1, <2>3 DEF FilesTypeOK
  <2>6. FilesTypeOK' /\ KeptBut({d})
    BY <2>4, <2>5 DEF FilesTypeOK, KeptBut, KeptAt
  <2>7. LogFits(t) \/ "tornCopy" \in upset'
    BY <2>1
  <2> QED BY <1>2, <2>1, <2>2, <2>3, <2>4, <2>5, <2>6, <2>7 DEF d
<1> QED BY <1>1, <1>2

\* The markup is in the log, unless the draft has lost its file or never had one.
LEMMA EditDraftFiles ==
    ASSUME FilesTypeOK, NEW t \in Tokens, EditDraft(t)
    PROVE  /\ FilesTypeOK' /\ KeptBut({Draft(t)}) /\ files' = files /\ upset' = upset
           /\ \/ /\ wals' = wals
                 /\ files[Draft(t)] # NoFile => files[Draft(t)].of = Fresh
              \/ /\ files[Draft(t)] # NoFile => files[Draft(t)].of # Fresh
                 /\ wals'[Draft(t)] # NoFile /\ t \in wals'[Draft(t)].marks
                 /\ wals'[Draft(t)].of = IF wals[Draft(t)] = NoFile THEN t ELSE wals[Draft(t)].of
<1> DEFINE d == Draft(t)
           log == IF wals[d] = NoFile THEN [of |-> t, marks |-> {}] ELSE wals[d]
           f == [log EXCEPT !.marks = @ \cup {t}]
           empty == files[d] # NoFile /\ files[d].of = Fresh
           lost == files[d] = NoFile /\ wals[d] = NoFile
<1>0. d \in Paths
  BY PathFacts
<1>1. wals' = (IF lost \/ empty THEN wals ELSE [wals EXCEPT ![d] = f]) /\ files' = files
      /\ upset' = upset
  BY DEF EditDraft
<1>2. log \in File /\ log.of = IF wals[d] = NoFile THEN t ELSE wals[d].of
  BY <1>0 DEF FilesTypeOK, File, Databases
<1>3. f \in File /\ f.of = log.of /\ t \in f.marks
  <2> HIDE DEF log
  <2>1. log \in [of : Databases, marks : SUBSET Marks] /\ t \in Marks
    BY <1>2 DEF File, Marks
  <2> QED BY <2>1 DEF File
<1> HIDE DEF d, f, log
<1>4. CASE lost \/ empty
  BY <1>1, <1>4 DEF FilesTypeOK, KeptBut, KeptAt, d
<1>5. CASE ~lost /\ ~empty
  <2>1. /\ wals' \in [Paths -> File \cup {NoFile}]
        /\ wals'[d] = f /\ f # NoFile
        /\ \A q \in Paths : q # d => wals'[q] = wals[q]
    BY <1>0, <1>1, <1>3, <1>5, NoFileAssumption DEF FilesTypeOK
  <2>2. FilesTypeOK' /\ KeptBut({d})
    BY <1>1, <2>1 DEF FilesTypeOK, KeptBut, KeptAt
  <2> QED BY <1>1, <1>2, <1>3, <1>5, <2>1, <2>2 DEF d
<1> QED BY <1>4, <1>5

LEMMA FailCompileFiles ==
    ASSUME FilesTypeOK, NEW t \in Tokens, FailCompile(t)
    PROVE  FilesTypeOK' /\ KeptBut({Draft(t)}) /\ (KeptAt(Draft(t)) \/ GoneAt(Draft(t)))
<1>1. CASE Discard(t)
  BY <1>1, DiscardFiles
<1>2. CASE UNCHANGED <<files, wals, metas>>
  BY <1>2, StillFiles, PathFacts DEF KeptBut
<1> QED BY <1>1, <1>2 DEF FailCompile

LEMMA AbandonCompileFiles ==
    ASSUME FilesTypeOK, NEW t \in Tokens, AbandonCompile(t)
    PROVE  FilesTypeOK' /\ KeptBut({Draft(t)})
<1>1. CASE Fold(Draft(t))
  BY <1>1, FoldFiles, PathFacts
<1>2. CASE UNCHANGED <<files, wals>>
  BY <1>2, StillFiles, PathFacts DEF KeptBut
<1> QED BY <1>1, <1>2 DEF AbandonCompile

LEMMA CheckpointFiles ==
    ASSUME FilesTypeOK, NEW p \in Paths, Checkpoint(p)
    PROVE  /\ FilesTypeOK' /\ KeptBut({p}) /\ FoldedAt(p)
           /\ upset \subseteq upset' /\ upset' \subseteq upset \cup {"notFolded"}
           /\ Fold(p) \/ "notFolded" \in upset'
<1>1. CASE Fold(p) /\ UNCHANGED upset
  BY <1>1, FoldFiles
<1>2. CASE upset' = upset \cup {"notFolded"} /\ UNCHANGED <<files, wals>>
  BY <1>2, StillFiles DEF KeptBut
<1> QED BY <1>1, <1>2 DEF Checkpoint

\* The live file is moved to the backup of the swap's second.
LEMMA MoveLiveFiles ==
    ASSUME FilesTypeOK, NEW r \in Swaps, swap[r].stamp \in Stamps, MoveLive(r)
    PROVE  /\ FilesTypeOK' /\ wals' = wals
           /\ files[live] = NoFile => files' = files /\ upset' = upset
           /\ files[live] # NoFile =>
                /\ KeptBut({live, Backup(swap[r].stamp)})
                /\ files'[live] = NoFile
                /\ files'[Backup(swap[r].stamp)] = files[live]
                /\ upset' = IF files[Backup(swap[r].stamp)] # NoFile
                            THEN upset \cup {"twoSwaps"} ELSE upset
<1> DEFINE b == Backup(swap[r].stamp)
<1>1. b \in Paths /\ b # live
  BY PathFacts
<1>2. CASE files[live] = NoFile
  BY <1>2 DEF MoveLive, FilesTypeOK
<1>3. CASE files[live] # NoFile
  <2>1. /\ files' = [files EXCEPT ![b] = files[live], ![live] = NoFile]
        /\ wals' = wals
        /\ upset' = IF files[b] # NoFile THEN upset \cup {"twoSwaps"} ELSE upset
    BY <1>3 DEF MoveLive
  <2> HIDE DEF b
  <2>2. /\ files' \in [Paths -> File \cup {NoFile}]
        /\ files'[b] = files[live] /\ files'[live] = NoFile
        /\ \A q \in Paths : q \notin {live, b} => files'[q] = files[q]
    BY <1>1, <2>1, PathFacts DEF FilesTypeOK
  <2>3. FilesTypeOK' /\ KeptBut({live, b})
    BY <2>1, <2>2 DEF FilesTypeOK, KeptBut, KeptAt
  <2> QED BY <1>3, <2>1, <2>2, <2>3 DEF b
<1> QED BY <1>2, <1>3

LEMMA DropWalFiles ==
    ASSUME FilesTypeOK, NEW r \in Swaps, DropWal(r)
    PROVE  FilesTypeOK' /\ KeptBut({live}) /\ files' = files /\ wals'[live] = NoFile
<1>1. wals' = Without({live}, wals) /\ files' = files
  BY DEF DropWal
<1> QED BY <1>1, WithoutEffect, PathFacts DEF FilesTypeOK, KeptBut, KeptAt

\* The draft takes the place of the live file.
LEMMA MoveDraftFiles ==
    ASSUME FilesTypeOK, NEW r \in Swaps, swap[r].token \in Tokens, MoveDraft(r)
    PROVE  /\ FilesTypeOK' /\ wals' = wals
           /\ files[Draft(swap[r].token)] = NoFile => files' = files
           /\ files[Draft(swap[r].token)] # NoFile =>
                /\ KeptBut({live, Draft(swap[r].token)})
                /\ files'[live] = files[Draft(swap[r].token)]
                /\ files'[Draft(swap[r].token)] = NoFile
<1> DEFINE d == Draft(swap[r].token)
<1>1. d \in Paths /\ d # live
  BY PathFacts
<1>2. CASE files[d] = NoFile
  BY <1>2 DEF MoveDraft, FilesTypeOK
<1>3. CASE files[d] # NoFile
  <2>1. /\ files' = [files EXCEPT ![live] = files[d], ![d] = NoFile]
        /\ wals' = wals
    BY <1>3 DEF MoveDraft
  <2> HIDE DEF d
  <2>2. /\ files' \in [Paths -> File \cup {NoFile}]
        /\ files'[live] = files[d] /\ files'[d] = NoFile
        /\ \A q \in Paths : q \notin {live, d} => files'[q] = files[q]
    BY <1>1, <2>1, PathFacts DEF FilesTypeOK
  <2>3. FilesTypeOK' /\ KeptBut({live, d})
    BY <2>1, <2>2 DEF FilesTypeOK, KeptBut, KeptAt
  <2> QED BY <1>3, <2>1, <2>2, <2>3 DEF d
<1> QED BY <1>2, <1>3

LEMMA DropSidecarFiles ==
    ASSUME FilesTypeOK, NEW r \in Swaps, swap[r].token \in Tokens, DropSidecar(r)
    PROVE  /\ FilesTypeOK' /\ KeptBut({Draft(swap[r].token)}) /\ files' = files
           /\ wals'[Draft(swap[r].token)] = NoFile
<1>1. wals' = Without({Draft(swap[r].token)}, wals) /\ files' = files
  BY DEF DropSidecar
<1> QED BY <1>1, WithoutEffect, PathFacts DEF FilesTypeOK, KeptBut, KeptAt

-----------------------------------------------------------------------------
(* What every action does to the swaps *)

SwapTypeOK ==
    swap \in [Swaps -> [at : SwapSteps, token : Tokens \cup {NoFile}, stamp : Stamps]]

OthersKept(r) == \A o \in Swaps : o # r => swap'[o] = swap[o]

\* The swap r goes on with its draft.
Goes(r, from, to) ==
    /\ swap[r].at = from /\ swap'[r].at = to
    /\ swap'[r].token = swap[r].token
    /\ OthersKept(r)

Ends(r) == swap'[r].at = "over" /\ OthersKept(r)

LEMMA ToEffect ==
    ASSUME SwapTypeOK, NEW r \in Swaps, NEW step \in SwapSteps, swap' = To(r, step)
    PROVE  SwapTypeOK' /\ Goes(r, swap[r].at, step)
<1> DEFINE m == [swap[r] EXCEPT !.at = step]
<1>1. swap' = [swap EXCEPT ![r] = m]
  BY DEF To
<1>2. /\ m \in [at : SwapSteps, token : Tokens \cup {NoFile}, stamp : Stamps]
      /\ m.at = step /\ m.token = swap[r].token
  BY DEF SwapTypeOK
<1> HIDE DEF m
<1> QED BY <1>1, <1>2 DEF SwapTypeOK, Goes, OthersKept

LEMMA EndedEffect ==
    ASSUME SwapTypeOK, CompileAssumption, NEW r \in Swaps, swap' = Ended(r)
    PROVE  SwapTypeOK' /\ Ends(r)
<1> DEFINE m == [at |-> "over", token |-> NoFile, stamp |-> 0]
<1>1. swap' = [swap EXCEPT ![r] = m]
  BY DEF Ended
<1>2. /\ m \in [at : SwapSteps, token : Tokens \cup {NoFile}, stamp : Stamps]
      /\ m.at = "over"
  BY DEF CompileAssumption, SwapSteps, Stamps
<1> HIDE DEF m
<1> QED BY <1>1, <1>2 DEF SwapTypeOK, Ends, OthersKept

LEMMA StartEffect ==
    ASSUME SwapTypeOK, CompileAssumption, NEW r \in Swaps, NEW t \in Tokens, StartAccept(r, t)
    PROVE  /\ SwapTypeOK' /\ OthersKept(r)
           /\ swap'[r].at = "quiesce" /\ swap'[r].token = t
<1> DEFINE m == [at |-> "quiesce", token |-> t, stamp |-> 0]
<1>1. swap' = [swap EXCEPT ![r] = m]
  BY DEF StartAccept
<1>2. /\ m \in [at : SwapSteps, token : Tokens \cup {NoFile}, stamp : Stamps]
      /\ m.at = "quiesce" /\ m.token = t
  BY DEF CompileAssumption, SwapSteps, Swapping, Stamps
<1> HIDE DEF m
<1> QED BY <1>1, <1>2 DEF SwapTypeOK, OthersKept

LEMMA FoldLiveEffect ==
    ASSUME SwapTypeOK, NEW r \in Swaps, FoldLive(r)
    PROVE  SwapTypeOK' /\ Goes(r, "foldLive", "foldDraft")
<1>1. PICK now \in Stamps :
        swap' = [swap EXCEPT ![r].at = "foldDraft", ![r].stamp = now]
  BY DEF FoldLive
<1> DEFINE n == [swap[r] EXCEPT !.at = "foldDraft"]
           m == [n EXCEPT !.stamp = now]
<1>2. swap' = [swap EXCEPT ![r] = m]
  BY <1>1 DEF SwapTypeOK
<1>3. "foldDraft" \in SwapSteps
  BY DEF SwapSteps, Swapping, InThread
<1>4. /\ n \in [at : SwapSteps, token : Tokens \cup {NoFile}, stamp : Stamps]
      /\ n.at = "foldDraft" /\ n.token = swap[r].token
  BY <1>3 DEF SwapTypeOK
<1>5. /\ m \in [at : SwapSteps, token : Tokens \cup {NoFile}, stamp : Stamps]
      /\ m.at = "foldDraft" /\ m.token = swap[r].token
  BY <1>4
<1> HIDE DEF n, m
<1>6. swap[r].at = "foldLive"
  BY DEF FoldLive
<1> QED BY <1>2, <1>5, <1>6 DEF SwapTypeOK, Goes, OthersKept

-----------------------------------------------------------------------------
(* The inductive invariant *)

BeforeMove == {"quiesce", "foldLive", "foldDraft", "moveLive", "dropWal", "moveDraft"}

\* The file of a draft that has been opened is that of its own compile, or an empty
\* one; before that there is no log beside it, and after that, unless the copy was
\* torn, the log is that of the file.
DraftsOfTokens ==
    \A t \in Tokens :
        /\ stage[t] \in {"open", "edited", "complete"} /\ files[Draft(t)] # NoFile =>
               files[Draft(t)].of \in {t, Fresh}
        /\ stage[t] \in {"new", "started", "copied"} => wals[Draft(t)] = NoFile
        /\ /\ upset \cap {"twoSwaps", "gapOpened", "tornCopy"} = {}
           /\ files[Draft(t)] # NoFile /\ wals[Draft(t)] # NoFile
           => wals[Draft(t)].of = files[Draft(t)].of

\* A backup is a file without a log.
BackupsAreFolded == \A s \in Stamps : wals[Backup(s)] = NoFile

\* A compile finds its draft until it ends, unless the draft is swept, and its
\* markup is in it.
CompilesOwnDrafts == "sweptCopy" \notin upset =>
    \A t \in Tokens :
        /\ stage[t] \in {"copied", "open", "edited"} => files[Draft(t)] # NoFile
        /\ stage[t] \in {"open", "edited", "complete"} /\ files[Draft(t)] # NoFile =>
               files[Draft(t)].of = t
        /\ stage[t] = "edited" => wals[Draft(t)] # NoFile /\ t \in wals[Draft(t)].marks
        /\ stage[t] = "complete" /\ files[Draft(t)] # NoFile => t \in files[Draft(t)].marks

\* Only what a compile has completed is accepted.
OnlyCompleted ==
    /\ \A t \in metas : stage[t] = "complete"
    /\ \A r \in Swaps : swap[r].at \in Swapping =>
           swap[r].token \in Tokens /\ stage[swap[r].token] = "complete"

OneSwap ==
    "twoSwaps" \notin upset =>
        \A r, o \in Swaps : swap[r].at \in Swapping /\ swap[o].at \in Swapping => r = o

\* A swap has its draft until it moves it.
DraftIsThere ==
    upset \cap {"twoSwaps", "sweptDraft"} = {} =>
        \A r \in Swaps : swap[r].at \in BeforeMove => files[Draft(swap[r].token)] # NoFile

\* The live log outlives the live file in one place only.
LogWithoutFile ==
    files[live] = NoFile /\ wals[live] # NoFile => \E r \in Swaps : swap[r].at = "dropWal"

\* Nothing is at the live path while a swap has moved the live file away, unless
\* a request has created a database there.
GapIsEmpty ==
    upset \cap {"twoSwaps", "gapOpened"} = {} =>
        \A r \in Swaps :
            /\ swap[r].at \in {"dropWal", "moveDraft"} => files[live] = NoFile
            /\ swap[r].at = "moveDraft" => wals[live] = NoFile

InBackup(w) == \E s \in Stamps : files[Backup(s)] # NoFile /\ w \in files[Backup(s)].marks

\* Once the live log is folded, what is settled is in main files, and once the
\* live file is moved, in backups.
SettledInFiles ==
    upset \cap {"twoSwaps", "notFolded"} = {} =>
        \A r \in Swaps, w \in settled :
            /\ swap[r].at \in {"foldDraft", "moveLive"} =>
                   (files[live] # NoFile /\ w \in files[live].marks) \/ InBackup(w)
            /\ swap[r].at \in {"dropWal", "moveDraft"} => InBackup(w)

CompileInv ==
    /\ CompileTypeOK
    /\ DraftsOfTokens /\ BackupsAreFolded /\ CompilesOwnDrafts
    /\ OnlyCompleted /\ OneSwap /\ DraftIsThere
    /\ LogWithoutFile /\ GapIsEmpty /\ SettledInFiles
    /\ LiveIsWhole /\ SettledIsKept /\ SwapLeavesSoundDatabase

-----------------------------------------------------------------------------
(* Type correctness *)

LEMMA CompileTypeParts ==
    CompileTypeOK =>
        /\ FilesTypeOK /\ SwapTypeOK
        /\ \A r \in Swaps : swap[r].stamp \in Stamps
<1> SUFFICES ASSUME CompileTypeOK PROVE FilesTypeOK /\ SwapTypeOK
                     /\ \A r \in Swaps : swap[r].stamp \in Stamps
  OBVIOUS
<1>1. FilesTypeOK BY DEF CompileTypeOK, FilesTypeOK
<1>2. SwapTypeOK BY DEF CompileTypeOK, SwapTypeOK
<1>3. \A r \in Swaps : swap[r].stamp \in Stamps BY <1>2 DEF SwapTypeOK
<1> QED BY <1>1, <1>2, <1>3

SwapStepNames == {"foldLive", "foldDraft", "moveLive", "dropWal", "moveDraft", "dropSidecar", "discard"}

LEMMA StepNames == \A step \in SwapStepNames : step \in SwapSteps
BY DEF SwapStepNames, SwapSteps, Swapping, InThread

\* A swap that has begun has a draft of some compile.
LEMMA SwapHasToken ==
    ASSUME OnlyCompleted, NEW r \in Swaps, swap[r].at \in Swapping
    PROVE  swap[r].token \in Tokens
BY DEF OnlyCompleted

LEMMA QuiesceEffect ==
    ASSUME SwapTypeOK, NEW r \in Swaps, Quiesce(r)
    PROVE  SwapTypeOK' /\ Goes(r, "quiesce", "foldLive")
BY ToEffect, StepNames DEF Quiesce, SwapStepNames

LEMMA FoldDraftEffect ==
    ASSUME SwapTypeOK, NEW r \in Swaps, FoldDraft(r)
    PROVE  SwapTypeOK' /\ Goes(r, "foldDraft", "moveLive")
BY ToEffect, StepNames DEF FoldDraft, SwapStepNames

LEMMA MoveLiveEffect ==
    ASSUME SwapTypeOK, NEW r \in Swaps, MoveLive(r)
    PROVE  SwapTypeOK' /\ Goes(r, "moveLive", "dropWal")
BY ToEffect, StepNames DEF MoveLive, SwapStepNames

LEMMA DropWalEffect ==
    ASSUME SwapTypeOK, NEW r \in Swaps, DropWal(r)
    PROVE  SwapTypeOK' /\ Goes(r, "dropWal", "moveDraft")
BY ToEffect, StepNames DEF DropWal, SwapStepNames

LEMMA MoveDraftEffect ==
    ASSUME SwapTypeOK, CompileAssumption, NEW r \in Swaps, MoveDraft(r)
    PROVE  /\ SwapTypeOK' /\ swap[r].at = "moveDraft"
           /\ files[Draft(swap[r].token)] = NoFile => Ends(r)
           /\ files[Draft(swap[r].token)] # NoFile => Goes(r, "moveDraft", "dropSidecar")
BY ToEffect, EndedEffect, StepNames DEF MoveDraft, SwapStepNames

LEMMA DropSidecarEffect ==
    ASSUME SwapTypeOK, NEW r \in Swaps, DropSidecar(r)
    PROVE  SwapTypeOK' /\ Goes(r, "dropSidecar", "discard")
BY ToEffect, StepNames DEF DropSidecar, SwapStepNames

LEMMA EndAcceptEffect ==
    ASSUME SwapTypeOK, CompileAssumption, NEW r \in Swaps, EndAccept(r)
    PROVE  SwapTypeOK' /\ swap[r].at = "discard" /\ Ends(r)
BY EndedEffect DEF EndAccept

LEMMA RevertEffect ==
    ASSUME SwapTypeOK, CompileAssumption, NEW r \in Swaps, NEW t \in Tokens, Revert(r, t)
    PROVE  SwapTypeOK' /\ swap[r].at = "new" /\ Ends(r)
BY EndedEffect DEF Revert

-----------------------------------------------------------------------------
(* Steps by what they disturb *)

DraftsKept == \A t \in Tokens : KeptAt(Draft(t))
BackupsKept == \A s \in Stamps : KeptAt(Backup(s))

\* No swap enters or leaves the gap in which the live file is moved away.
SameGap ==
    \A r \in Swaps :
        swap[r].at \in {"dropWal", "moveDraft"} \/ swap'[r].at \in {"dropWal", "moveDraft"}
            => swap'[r].at = swap[r].at

\* A step that does not touch the live database nor a backup.
Aside ==
    /\ FilesTypeOK' /\ KeptAt(live) /\ BackupsKept
    /\ SameGap
    /\ \A r \in Swaps : swap'[r].at \in {"foldDraft", "moveLive"} =>
           swap[r].at \in {"foldDraft", "moveLive"}
    /\ settled' = settled /\ upset \subseteq upset'

\* A step that folds the live log or leaves it.
LiveFold ==
    /\ FilesTypeOK' /\ FoldedAt(live) /\ BackupsKept
    /\ SameGap
    /\ settled' = settled /\ upset \subseteq upset'

LEMMA KeptButOne ==
    /\ KeptBut({}) => KeptAt(live) /\ DraftsKept /\ BackupsKept
    /\ KeptBut({live}) => DraftsKept /\ BackupsKept
    /\ \A t \in Tokens : KeptBut({Draft(t)}) =>
           /\ KeptAt(live) /\ BackupsKept
           /\ \A u \in Tokens : u # t => KeptAt(Draft(u))
    /\ \A t \in Tokens : KeptBut({live, Draft(t)}) =>
           BackupsKept /\ \A u \in Tokens : u # t => KeptAt(Draft(u))
    /\ \A s \in Stamps : KeptBut({live, Backup(s)}) =>
           DraftsKept /\ \A z \in Stamps : z # s => KeptAt(Backup(z))
<1>1. KeptBut({}) => KeptAt(live) /\ DraftsKept /\ BackupsKept
  BY PathFacts DEF KeptBut, DraftsKept, BackupsKept
<1>2. KeptBut({live}) => DraftsKept /\ BackupsKept
  BY PathFacts DEF KeptBut, DraftsKept, BackupsKept
<1>3. ASSUME NEW t \in Tokens
      PROVE  /\ KeptBut({Draft(t)}) =>
                   /\ KeptAt(live) /\ BackupsKept
                   /\ \A u \in Tokens : u # t => KeptAt(Draft(u))
             /\ KeptBut({live, Draft(t)}) =>
                   BackupsKept /\ \A u \in Tokens : u # t => KeptAt(Draft(u))
  <2>1. /\ live # Draft(t)
        /\ \A s \in Stamps : Backup(s) \notin {live, Draft(t)} /\ Backup(s) \in Paths
        /\ \A u \in Tokens : u # t => Draft(u) \notin {live, Draft(t)} /\ Draft(u) \in Paths
    BY PathFacts
  <2> QED BY <2>1, PathFacts DEF KeptBut, BackupsKept
<1>4. ASSUME NEW s \in Stamps
      PROVE  KeptBut({live, Backup(s)}) =>
                 DraftsKept /\ \A z \in Stamps : z # s => KeptAt(Backup(z))
  <2>1. /\ \A u \in Tokens : Draft(u) \notin {live, Backup(s)} /\ Draft(u) \in Paths
        /\ \A z \in Stamps : z # s => Backup(z) \notin {live, Backup(s)} /\ Backup(z) \in Paths
    BY PathFacts
  <2> QED BY <2>1 DEF KeptBut, DraftsKept
<1> QED BY <1>1, <1>2, <1>3, <1>4

LEMMA SwapUnchanged == swap' = swap => SameGap /\ \A r \in Swaps : swap'[r].at \in {"foldDraft", "moveLive"} =>
           swap[r].at \in {"foldDraft", "moveLive"}
BY DEF SameGap

CompileStep(t) ==
    \/ StartCompile(t) \/ CopyMain(t) \/ CopyWal(t) \/ EditDraft(t)
    \/ FinishCompile(t) \/ FailCompile(t) \/ AbandonCompile(t)

LEMMA CompileStepFiles ==
    ASSUME CompileTypeOK, NEW t \in Tokens, CompileStep(t)
    PROVE  /\ FilesTypeOK' /\ KeptAt(live) /\ BackupsKept
           /\ swap' = swap /\ settled' = settled /\ upset \subseteq upset'
           /\ UNCHANGED <<conn, writer, running>>
<1> USE CompileTypeParts
<1>1. CASE StartCompile(t)
  BY <1>1, StartCompileFiles DEF StartCompile, BackupsKept
<1>2. CASE CopyMain(t)
  BY <1>2, CopyMainFiles, KeptButOne DEF CopyMain
<1>3. CASE CopyWal(t)
  BY <1>3, CopyWalFiles, CompileAssumption, KeptButOne DEF CopyWal
<1>4. CASE EditDraft(t)
  BY <1>4, EditDraftFiles, KeptButOne DEF EditDraft
<1>5. CASE FinishCompile(t)
  BY <1>5, FoldFiles, KeptButOne, PathFacts DEF FinishCompile
<1>6. CASE FailCompile(t)
  BY <1>6, FailCompileFiles, KeptButOne DEF FailCompile
<1>7. CASE AbandonCompile(t)
  BY <1>7, AbandonCompileFiles, KeptButOne DEF AbandonCompile
<1> QED BY <1>1, <1>2, <1>3, <1>4, <1>5, <1>6, <1>7 DEF CompileStep

Idle == StartRecording \/ StopRecording \/ UNCHANGED cvars

LEMMA IdleFiles ==
    ASSUME CompileTypeOK, Idle
    PROVE  /\ FilesTypeOK' /\ KeptAt(live) /\ DraftsKept /\ BackupsKept
           /\ UNCHANGED <<files, wals, metas, stage, swap, conn, writer, settled, upset>>
<1>1. UNCHANGED <<files, wals, metas, stage, swap, conn, writer, settled, upset>>
  BY DEF Idle, StartRecording, StopRecording, cvars
<1> QED BY <1>1, StillFiles, KeptButOne, CompileTypeParts

\* A step of an accept or a revert on its draft.
SwapOnDraft(r) ==
    \/ FoldDraft(r) \/ DropSidecar(r) \/ EndAccept(r)
    \/ \E t \in Tokens : StartAccept(r, t) \/ Revert(r, t)

LEMMA SwapOnDraftAside ==
    ASSUME CompileTypeOK, OnlyCompleted, NEW r \in Swaps, SwapOnDraft(r)
    PROVE  Aside
<1> USE CompileTypeParts, CompileAssumption
<1>0. /\ "foldDraft" \in Swapping /\ "dropSidecar" \in Swapping /\ "discard" \in Swapping
  BY DEF Swapping, InThread
<1>1. CASE FoldDraft(r)
  <2>1. swap[r].token \in Tokens /\ Checkpoint(Draft(swap[r].token))
    BY <1>0, <1>1, SwapHasToken DEF FoldDraft
  <2>2. FilesTypeOK' /\ KeptAt(live) /\ BackupsKept /\ upset \subseteq upset'
    BY <2>1, CheckpointFiles, KeptButOne, PathFacts
  <2>3. Goes(r, "foldDraft", "moveLive") BY <1>1, FoldDraftEffect
  <2> QED BY <1>1, <2>2, <2>3 DEF FoldDraft, Aside, SameGap, Goes, OthersKept
<1>2. CASE DropSidecar(r)
  <2>1. swap[r].token \in Tokens
    BY <1>0, <1>2, SwapHasToken DEF DropSidecar
  <2>2. FilesTypeOK' /\ KeptAt(live) /\ BackupsKept
    BY <1>2, <2>1, DropSidecarFiles, KeptButOne
  <2>3. Goes(r, "dropSidecar", "discard") BY <1>2, DropSidecarEffect
  <2> QED BY <1>2, <2>2, <2>3 DEF DropSidecar, Aside, SameGap, Goes, OthersKept
<1>3. CASE EndAccept(r)
  <2>1. swap[r].token \in Tokens /\ Discard(swap[r].token)
    BY <1>0, <1>3, SwapHasToken DEF EndAccept
  <2>2. FilesTypeOK' /\ KeptAt(live) /\ BackupsKept
    BY <2>1, DiscardFiles, KeptButOne
  <2>3. swap[r].at = "discard" /\ Ends(r) BY <1>3, EndAcceptEffect
  <2> QED BY <1>3, <2>2, <2>3 DEF EndAccept, Aside, SameGap, Ends, OthersKept
<1>4. ASSUME NEW t \in Tokens, StartAccept(r, t) PROVE Aside
  <2>2. FilesTypeOK' /\ KeptAt(live) /\ BackupsKept
    BY <1>4, StillFiles, KeptButOne DEF StartAccept
  <2>3. /\ swap[r].at = "new" /\ swap'[r].at = "quiesce" /\ OthersKept(r)
        /\ settled' = settled /\ upset \subseteq upset'
    BY <1>4, StartEffect DEF StartAccept
  <2> QED BY <2>2, <2>3 DEF Aside, SameGap, OthersKept
<1>5. ASSUME NEW t \in Tokens, Revert(r, t) PROVE Aside
  <2>2. FilesTypeOK' /\ KeptAt(live) /\ BackupsKept
    BY <1>5, DiscardFiles, KeptButOne DEF Revert
  <2>3. /\ swap[r].at = "new" /\ Ends(r)
        /\ settled' = settled /\ upset \subseteq upset'
    BY <1>5, RevertEffect DEF Revert
  <2> QED BY <2>2, <2>3 DEF Aside, SameGap, Ends, OthersKept
<1> QED BY <1>1, <1>2, <1>3, <1>4, <1>5 DEF SwapOnDraft

\* A step that may fold the live log and does nothing else to a file.
FoldsLive == \/ \E w \in Writers : Close(w)
             \/ \E r \in Swaps : Quiesce(r) \/ FoldLive(r)

LEMMA FoldsLiveEffect ==
    ASSUME CompileTypeOK, FoldsLive
    PROVE  /\ LiveFold /\ DraftsKept
           /\ UNCHANGED <<metas, stage, running>>
<1> USE CompileTypeParts
<1>1. ASSUME NEW w \in Writers, Close(w)
      PROVE  LiveFold /\ DraftsKept /\ UNCHANGED <<metas, stage, running>>
  <2>1. FilesTypeOK' /\ KeptBut({live}) /\ FoldedAt(live)
    BY <1>1, DisconnectFiles DEF Close
  <2> QED BY <1>1, <2>1, KeptButOne, SwapUnchanged DEF Close, LiveFold
<1>2. ASSUME NEW r \in Swaps, Quiesce(r)
      PROVE  LiveFold /\ DraftsKept /\ UNCHANGED <<metas, stage, running>>
  <2>1. FilesTypeOK' /\ KeptBut({live}) /\ FoldedAt(live)
    <3>1. CASE Disconnect(Recorder)
      BY <3>1, DisconnectFiles
    <3>2. CASE UNCHANGED <<files, wals, conn>>
      BY <3>2, StillFiles, PathFacts DEF KeptBut
    <3> QED BY <1>2, <3>1, <3>2 DEF Quiesce
  <2>2. SameGap
    BY <1>2, QuiesceEffect DEF SameGap, Goes, OthersKept
  <2> QED BY <1>2, <2>1, <2>2, KeptButOne DEF Quiesce, LiveFold
<1>3. ASSUME NEW r \in Swaps, FoldLive(r)
      PROVE  LiveFold /\ DraftsKept /\ UNCHANGED <<metas, stage, running>>
  <2>1. FilesTypeOK' /\ KeptBut({live}) /\ FoldedAt(live) /\ upset \subseteq upset'
    BY <1>3, CheckpointFiles, PathFacts DEF FoldLive
  <2>2. SameGap
    BY <1>3, FoldLiveEffect DEF SameGap, Goes, OthersKept
  <2> QED BY <1>3, <2>1, <2>2, KeptButOne DEF FoldLive, LiveFold
<1> QED BY <1>1, <1>2, <1>3 DEF FoldsLive

\* Every step is one of these.
LEMMA StepCases ==
    [CompileNext]_cvars =>
        \/ Idle
        \/ \E t \in Tokens : CompileStep(t)
        \/ \E r \in Swaps : SwapOnDraft(r)
        \/ FoldsLive
        \/ \E w \in Writers : Open(w) \/ Commit(w)
        \/ \E r \in Swaps : MoveLive(r) \/ DropWal(r) \/ MoveDraft(r)
BY DEF CompileNext, Idle, CompileStep, SwapOnDraft, FoldsLive

LEMMA LiveCases ==
    ASSUME CompileTypeOK, OnlyCompleted, [CompileNext]_cvars
    PROVE  \/ Aside
           \/ LiveFold
           \/ \E w \in Writers : Open(w) \/ Commit(w)
           \/ \E r \in Swaps : MoveLive(r) \/ DropWal(r) \/ MoveDraft(r)
<1>1. ASSUME NEW t \in Tokens, CompileStep(t) PROVE Aside
  BY <1>1, CompileStepFiles, SwapUnchanged DEF Aside
<1>2. CASE Idle
  BY <1>2, IdleFiles, SwapUnchanged DEF Aside
<1> QED BY <1>1, <1>2, SwapOnDraftAside, FoldsLiveEffect, StepCases

-----------------------------------------------------------------------------
(* The invariant is inductive: the live database and the backups *)

LEMMA UpsetGrows ==
    ASSUME CompileTypeOK, OnlyCompleted, [CompileNext]_cvars
    PROVE  upset \subseteq upset'
<1>1. ASSUME NEW w \in Writers, Open(w) \/ Commit(w) PROVE upset \subseteq upset'
  BY <1>1 DEF Open, Commit
<1>2. ASSUME NEW r \in Swaps, MoveLive(r) \/ DropWal(r) \/ MoveDraft(r)
      PROVE  upset \subseteq upset'
  BY <1>2 DEF MoveLive, DropWal, MoveDraft
<1> QED BY <1>1, <1>2, LiveCases DEF Aside, LiveFold

LEMMA LogWithoutFileInductive ==
    ASSUME CompileInv, [CompileNext]_cvars
    PROVE  LogWithoutFile'
<1> USE CompileTypeParts DEF CompileInv
<1> SUFFICES ASSUME files'[live] = NoFile, wals'[live] # NoFile
             PROVE  \E r \in Swaps : swap'[r].at = "dropWal"
  BY PathFacts DEF LogWithoutFile
<1>1. ASSUME KeptAt(live), SameGap PROVE \E r \in Swaps : swap'[r].at = "dropWal"
  BY <1>1 DEF KeptAt, SameGap, LogWithoutFile
<1>2. CASE LiveFold
  BY <1>1, <1>2 DEF LiveFold, FoldedAt
<1>3. ASSUME NEW w \in Writers, Open(w) PROVE \E r \in Swaps : swap'[r].at = "dropWal"
  <2>1. swap' = swap BY <1>3 DEF Open
  <2> QED BY <1>1, <1>3, <2>1, SwapUnchanged, OpenFiles
<1>4. ASSUME NEW w \in Writers, Commit(w) PROVE \E r \in Swaps : swap'[r].at = "dropWal"
  <2>1. swap' = swap BY <1>4 DEF Commit
  <2>2. files' = files /\ (~There(w) /\ ~LogOnly(w) => wals' = wals)
    BY <1>4, CommitFiles
  <2>3. files[live] = NoFile /\ wals[live] # NoFile
    BY <2>2 DEF There, LogOnly
  <2> QED BY <2>1, <2>3 DEF LogWithoutFile
<1>5. ASSUME NEW r \in Swaps, MoveLive(r) PROVE \E o \in Swaps : swap'[o].at = "dropWal"
  BY <1>5, MoveLiveEffect DEF Goes
<1>6. ASSUME NEW r \in Swaps, DropWal(r) PROVE FALSE
  BY <1>6, DropWalFiles
<1>7. ASSUME NEW r \in Swaps, MoveDraft(r) PROVE \E o \in Swaps : swap'[o].at = "dropWal"
  <2>1. swap[r].at = "moveDraft" /\ OthersKept(r)
    BY <1>7, MoveDraftEffect, CompileAssumption DEF Ends, Goes
  <2>2. swap[r].token \in Tokens
    BY <2>1, SwapHasToken DEF Swapping, InThread
  <2>3. files[live] = NoFile /\ wals[live] # NoFile
    BY <1>7, <2>2, MoveDraftFiles
  <2> QED BY <2>1, <2>3 DEF LogWithoutFile, OthersKept
<1> QED BY <1>1, <1>2, <1>3, <1>4, <1>5, <1>6, <1>7, LiveCases DEF Aside

LEMMA GapIsEmptyInductive ==
    ASSUME CompileInv, [CompileNext]_cvars
    PROVE  GapIsEmpty'
<1> USE CompileTypeParts DEF CompileInv
<1> SUFFICES ASSUME upset' \cap {"twoSwaps", "gapOpened"} = {}, NEW r \in Swaps
             PROVE  /\ swap'[r].at \in {"dropWal", "moveDraft"} => files'[live] = NoFile
                    /\ swap'[r].at = "moveDraft" => wals'[live] = NoFile
  BY DEF GapIsEmpty
<1> DEFINE Goal == /\ swap'[r].at \in {"dropWal", "moveDraft"} => files'[live] = NoFile
                   /\ swap'[r].at = "moveDraft" => wals'[live] = NoFile
<1>0. /\ "twoSwaps" \notin upset /\ "twoSwaps" \notin upset' /\ "gapOpened" \notin upset'
      /\ swap[r].at \in {"dropWal", "moveDraft"} => files[live] = NoFile
      /\ swap[r].at = "moveDraft" => wals[live] = NoFile
      /\ \A o, q \in Swaps : swap[o].at \in Swapping /\ swap[q].at \in Swapping => o = q
      /\ {"dropWal", "moveDraft", "moveLive"} \subseteq Swapping
  <2>1. upset \subseteq upset' BY UpsetGrows
  <2>2. upset \cap {"twoSwaps", "gapOpened"} = {} BY <2>1
  <2> QED BY <2>1, <2>2 DEF GapIsEmpty, OneSwap, Swapping, InThread
<1>1. ASSUME KeptAt(live), SameGap PROVE Goal
  BY <1>0, <1>1 DEF KeptAt, SameGap
<1>2. CASE LiveFold
  <2>1. CASE files[live] = NoFile
    BY <1>1, <1>2, <2>1 DEF LiveFold, FoldedAt
  <2>2. CASE files[live] # NoFile
    BY <1>0, <1>2, <2>2 DEF LiveFold, SameGap
  <2> QED BY <2>1, <2>2
<1>3. ASSUME NEW w \in Writers, Open(w) PROVE Goal
  <2>1. swap' = swap BY <1>3 DEF Open
  <2>2. files[live] # NoFile BY <1>0, <1>3, OpenFiles
  <2> QED BY <1>1, <1>3, <2>1, <2>2, SwapUnchanged, OpenFiles
<1>4. ASSUME NEW w \in Writers, Commit(w) PROVE Goal
  <2>1. swap' = swap BY <1>4 DEF Commit
  <2>2. files' = files /\ (~There(w) /\ ~LogOnly(w) => wals' = wals)
    BY <1>4, CommitFiles
  <2> QED BY <1>0, <2>1, <2>2 DEF There, LogOnly
<1>5. ASSUME NEW o \in Swaps, MoveLive(o) PROVE Goal
  <2>1. Goes(o, "moveLive", "dropWal") BY <1>5, MoveLiveEffect
  <2>2. files'[live] = NoFile BY <1>5, MoveLiveFiles
  <2>3. r # o => swap'[r] = swap[r] /\ swap[r].at \notin Swapping
    BY <1>0, <2>1 DEF Goes, OthersKept
  <2> QED BY <1>0, <2>1, <2>2, <2>3 DEF Goes
<1>6. ASSUME NEW o \in Swaps, DropWal(o) PROVE Goal
  <2>1. Goes(o, "dropWal", "moveDraft") BY <1>6, DropWalEffect
  <2>2. wals'[live] = NoFile /\ files' = files BY <1>6, DropWalFiles
  <2> QED BY <1>0, <2>1, <2>2 DEF Goes, OthersKept
<1>7. ASSUME NEW o \in Swaps, MoveDraft(o) PROVE Goal
  <2>1. swap[o].at = "moveDraft" /\ OthersKept(o) /\ swap'[o].at \in {"over", "dropSidecar"}
    BY <1>7, MoveDraftEffect, CompileAssumption DEF Ends, Goes
  <2>2. r # o => swap'[r] = swap[r] /\ swap[r].at \notin Swapping
    BY <1>0, <2>1 DEF OthersKept
  <2> QED BY <1>0, <2>1, <2>2
<1> QED BY <1>1, <1>2, <1>3, <1>4, <1>5, <1>6, <1>7, LiveCases DEF Aside

\* Backups are never taken away, and one swap at a time writes no backup over another.
LEMMA BackupsStay ==
    ASSUME CompileInv, [CompileNext]_cvars, "twoSwaps" \notin upset', NEW w, InBackup(w)
    PROVE  InBackup(w)'
<1> USE CompileTypeParts DEF CompileInv
<1>0. PICK s \in Stamps : files[Backup(s)] # NoFile /\ w \in files[Backup(s)].marks
  BY DEF InBackup
<1>1. ASSUME KeptAt(Backup(s)) PROVE InBackup(w)'
  BY <1>0, <1>1 DEF KeptAt, InBackup
<1>2. ASSUME NEW v \in Writers, Open(v) \/ Commit(v) PROVE KeptAt(Backup(s))
  BY <1>2, OpenFiles, CommitFiles, KeptButOne DEF BackupsKept
<1>3. ASSUME NEW r \in Swaps, MoveLive(r) PROVE KeptAt(Backup(s))
  <2>1. CASE files[live] = NoFile
    BY <1>3, <2>1, MoveLiveFiles DEF KeptAt
  <2>2. CASE files[live] # NoFile
    <3>1. KeptBut({live, Backup(swap[r].stamp)}) /\ swap[r].stamp # s
      BY <1>0, <1>3, <2>2, MoveLiveFiles
    <3> QED BY <3>1, KeptButOne
  <2> QED BY <2>1, <2>2
<1>4. ASSUME NEW r \in Swaps, DropWal(r) PROVE KeptAt(Backup(s))
  BY <1>4, DropWalFiles, KeptButOne DEF BackupsKept
<1>5. ASSUME NEW r \in Swaps, MoveDraft(r) PROVE KeptAt(Backup(s))
  <2>1. swap[r].token \in Tokens
    BY <1>5, SwapHasToken DEF Swapping, InThread, MoveDraft
  <2>2. CASE files[Draft(swap[r].token)] = NoFile
    BY <1>5, <2>1, <2>2, MoveDraftFiles DEF KeptAt
  <2>3. CASE files[Draft(swap[r].token)] # NoFile
    BY <1>5, <2>1, <2>3, MoveDraftFiles, KeptButOne DEF BackupsKept
  <2> QED BY <2>2, <2>3
<1> QED BY <1>1, <1>2, <1>3, <1>4, <1>5, LiveCases DEF Aside, LiveFold, BackupsKept

LEMMA BackupsAreFoldedInductive ==
    ASSUME CompileInv, [CompileNext]_cvars
    PROVE  BackupsAreFolded'
<1> USE CompileTypeParts DEF CompileInv
<1> SUFFICES ASSUME NEW s \in Stamps PROVE wals'[Backup(s)] = wals[Backup(s)]
  BY DEF BackupsAreFolded, Backup
<1>1. ASSUME NEW v \in Writers, Open(v) \/ Commit(v) PROVE KeptAt(Backup(s))
  BY <1>1, OpenFiles, CommitFiles, KeptButOne DEF BackupsKept
<1>2. ASSUME NEW r \in Swaps, MoveLive(r) \/ MoveDraft(r) PROVE wals' = wals
  BY <1>2 DEF MoveLive, MoveDraft
<1>3. ASSUME NEW r \in Swaps, DropWal(r) PROVE KeptAt(Backup(s))
  BY <1>3, DropWalFiles, KeptButOne DEF BackupsKept
<1> QED BY <1>1, <1>2, <1>3, LiveCases DEF Aside, LiveFold, BackupsKept, KeptAt

LEMMA FoldedContent ==
    ASSUME FilesTypeOK, FoldedAt(live)
    PROVE  /\ Content(live) \subseteq Content(live)'
           /\ files[live] # NoFile =>
                files'[live] # NoFile /\ files[live].marks \subseteq files'[live].marks
<1>1. CASE KeptAt(live)
  BY <1>1 DEF KeptAt, Content
<1>2. CASE files[live] # NoFile /\ ~KeptAt(live)
  <2>1. files'[live] # NoFile /\ wals'[live] = NoFile /\ files'[live].marks = Content(live)
    BY <1>2 DEF FoldedAt
  <2> QED BY <1>2, <2>1 DEF Content
<1> QED BY <1>1, <1>2 DEF FoldedAt

\* What a commit settles, it settles outside of every swap's thread.
LEMMA CommitSettles ==
    ASSUME CompileTypeOK, NEW w \in Writers, Commit(w)
    PROVE  /\ swap' = swap /\ upset' = upset
           /\ \/ settled' = settled
              \/ /\ settled' = settled \cup {w} /\ There(w)
                 /\ \A r \in Swaps : swap[r].at \notin InThread
<1>1. settled' = IF There(w) /\ \A r \in Swaps : ~Moving(r) THEN settled \cup {w} ELSE settled
  BY DEF Commit, There
<1> QED BY <1>1 DEF Commit, Moving

LEMMA SettledInFilesInductive ==
    ASSUME CompileInv, [CompileNext]_cvars
    PROVE  SettledInFiles'
<1> USE CompileTypeParts DEF CompileInv
<1> DEFINE InLive(w) == files[live] # NoFile /\ w \in files[live].marks
           Folded == {"foldDraft", "moveLive"}
           Gap == {"dropWal", "moveDraft"}
<1> SUFFICES ASSUME upset' \cap {"twoSwaps", "notFolded"} = {},
                    NEW r \in Swaps, NEW w \in settled'
             PROVE  /\ swap'[r].at \in Folded => InLive(w)' \/ InBackup(w)'
                    /\ swap'[r].at \in Gap => InBackup(w)'
  BY DEF SettledInFiles
<1> DEFINE Goal == /\ swap'[r].at \in Folded => InLive(w)' \/ InBackup(w)'
                   /\ swap'[r].at \in Gap => InBackup(w)'
<1>0. /\ upset \cap {"twoSwaps", "notFolded"} = {}
      /\ \A o, q \in Swaps : swap[o].at \in Swapping /\ swap[q].at \in Swapping => o = q
      /\ Gap \subseteq InThread /\ Folded \subseteq InThread /\ InThread \subseteq Swapping
      /\ InBackup(w) => InBackup(w)'
      /\ w \in settled /\ swap[r].at \in Folded => InLive(w) \/ InBackup(w)
      /\ w \in settled /\ swap[r].at \in Gap => InBackup(w)
  <2>1. upset \cap {"twoSwaps", "notFolded"} = {} BY UpsetGrows
  <2>2. InBackup(w) => InBackup(w)' BY BackupsStay
  <2> QED BY <2>1, <2>2 DEF OneSwap, SettledInFiles, Swapping, InThread
<1>1. ASSUME Aside PROVE Goal
  <2>1. w \in settled /\ (InLive(w) => InLive(w)')
    BY <1>1 DEF Aside, KeptAt
  <2>2. /\ swap'[r].at \in Folded => swap[r].at \in Folded
        /\ swap'[r].at \in Gap => swap[r].at \in Gap
    BY <1>1 DEF Aside, SameGap
  <2> QED BY <1>0, <2>1, <2>2
<1>2. ASSUME LiveFold, UNCHANGED swap PROVE Goal
  <2>1. w \in settled /\ (InLive(w) => InLive(w)')
    BY <1>2, FoldedContent DEF LiveFold
  <2> QED BY <1>0, <1>2, <2>1
<1>3. ASSUME NEW o \in Swaps, Quiesce(o), LiveFold PROVE Goal
  <2>1. w \in settled /\ (InLive(w) => InLive(w)')
    BY <1>3, FoldedContent DEF LiveFold
  <2>2. Goes(o, "quiesce", "foldLive") BY <1>3, QuiesceEffect
  <2>3. /\ swap'[r].at \in Folded => swap[r].at \in Folded
        /\ swap'[r].at \in Gap => swap[r].at \in Gap
    BY <2>2 DEF Goes, OthersKept
  <2> QED BY <1>0, <2>1, <2>3
<1>4. ASSUME NEW o \in Swaps, FoldLive(o), LiveFold PROVE Goal
  <2>1. w \in settled BY <1>4 DEF LiveFold
  <2>2. Goes(o, "foldLive", "foldDraft") BY <1>4, FoldLiveEffect
  <2>3. r # o => swap'[r].at \notin InThread
    <3>1. swap[o].at \in Swapping BY <2>2 DEF Goes, Swapping, InThread
    <3> QED BY <1>0, <2>2, <3>1 DEF Goes, OthersKept
  <2>4. CASE InBackup(w)
    BY <1>0, <2>4
  <2>5. CASE ~InBackup(w)
    <3>1. w \in Content(live)
      <4>1. \A s \in Stamps : w \notin Content(Backup(s))
        BY <2>5 DEF InBackup, Content, BackupsAreFolded
      <4> QED BY <1>0, <2>1, <4>1 DEF SettledIsKept
    <3>2. files[live] # NoFile
      <4>1. SUFFICES ASSUME files[live] = NoFile PROVE FALSE
        OBVIOUS
      <4>2. wals[live] # NoFile
        BY <3>1, <4>1 DEF Content
      <4>3. PICK q \in Swaps : swap[q].at = "dropWal"
        BY <4>1, <4>2 DEF LogWithoutFile
      <4> QED BY <1>0, <2>2, <4>3 DEF Goes, Swapping, InThread
    <3>3. InLive(w)'
      <4>1. files'[live] # NoFile /\ files'[live].marks = Content(live)
        <5>1. Fold(live) BY <1>4, CheckpointFiles, PathFacts DEF FoldLive
        <5> QED BY <3>2, <5>1, FoldEffect, PathFacts
      <4> QED BY <3>1, <4>1
    <3>4. swap'[o].at = "foldDraft" BY <2>2 DEF Goes
    <3> QED BY <1>0, <2>3, <3>3, <3>4
  <2> QED BY <2>4, <2>5
<1>5. ASSUME FoldsLive PROVE Goal
  <2>1. LiveFold BY <1>5, FoldsLiveEffect
  <2>2. ASSUME NEW v \in Writers, Close(v) PROVE Goal
    <3>1. swap' = swap BY <2>2 DEF Close
    <3> QED BY <1>2, <2>1, <3>1
  <2> QED BY <1>3, <1>4, <1>5, <2>1, <2>2 DEF FoldsLive
<1>6. ASSUME NEW v \in Writers, Open(v) PROVE Goal
  <2>1. swap' = swap /\ w \in settled BY <1>6 DEF Open
  <2>2. InLive(w) => InLive(w)' BY <1>6, OpenFiles DEF KeptAt
  <2> QED BY <1>0, <2>1, <2>2
<1>7. ASSUME NEW v \in Writers, Commit(v) PROVE Goal
  <2>1. files' = files BY <1>7, CommitFiles
  <2>2. swap' = swap /\ (w \in settled \/ swap[r].at \notin InThread)
    BY <1>7, CommitSettles
  <2> QED BY <1>0, <2>1, <2>2
<1>8. ASSUME NEW o \in Swaps, MoveLive(o) PROVE Goal
  <2>1. Goes(o, "moveLive", "dropWal") BY <1>8, MoveLiveEffect
  <2>2. w \in settled BY <1>8 DEF MoveLive
  <2>3. r # o => swap'[r].at \notin InThread
    <3>1. swap[o].at \in Swapping BY <2>1 DEF Goes, Swapping, InThread
    <3> QED BY <1>0, <2>1, <3>1 DEF Goes, OthersKept
  <2>4. InLive(w) \/ InBackup(w)
    <3>1. swap[o].at \in Folded BY <2>1 DEF Goes
    <3> QED BY <1>0, <2>2, <3>1 DEF SettledInFiles
  <2>5. InLive(w) => InBackup(w)'
    <3>1. SUFFICES ASSUME InLive(w) PROVE InBackup(w)'
      OBVIOUS
    <3>2. swap[o].stamp \in Stamps
      OBVIOUS
    <3>3. files'[Backup(swap[o].stamp)] = files[live]
      BY <1>8, <3>1, <3>2, MoveLiveFiles
    <3>4. \E s \in Stamps : files'[Backup(s)] # NoFile /\ w \in files'[Backup(s)].marks
      BY <3>1, <3>2, <3>3
    <3> QED BY <3>4 DEF InBackup, Backup
  <2> QED BY <1>0, <2>3, <2>4, <2>5
<1>9. ASSUME NEW o \in Swaps, DropWal(o) PROVE Goal
  <2>1. Goes(o, "dropWal", "moveDraft") BY <1>9, DropWalEffect
  <2>2. w \in settled /\ files' = files BY <1>9 DEF DropWal
  <2>3. /\ swap'[r].at \in Folded => swap[r].at \in Folded
        /\ swap'[r].at \in Gap => swap[r].at \in Gap
    BY <2>1 DEF Goes, OthersKept
  <2> QED BY <1>0, <2>2, <2>3
<1>10. ASSUME NEW o \in Swaps, MoveDraft(o) PROVE Goal
  <2>1. swap[o].at = "moveDraft" /\ OthersKept(o) /\ swap'[o].at \in {"over", "dropSidecar"}
    BY <1>10, MoveDraftEffect, CompileAssumption DEF Ends, Goes
  <2>2. r # o => swap'[r].at \notin InThread
    <3>1. swap[o].at \in Swapping BY <2>1 DEF Swapping, InThread
    <3> QED BY <1>0, <2>1, <3>1 DEF OthersKept
  <2> QED BY <1>0, <2>1, <2>2
<1> HIDE DEF Goal
<1>11. Goal
  <2>1. ASSUME NEW t \in Tokens, CompileStep(t) PROVE Aside
    BY <2>1, CompileStepFiles, SwapUnchanged DEF Aside
  <2>2. ASSUME Idle PROVE Aside
    BY <2>2, IdleFiles, SwapUnchanged DEF Aside
  <2> QED BY <1>1, <1>5, <1>6, <1>7, <1>8, <1>9, <1>10, <2>1, <2>2,
             SwapOnDraftAside, StepCases
<1> QED BY <1>11 DEF Goal

LEMMA SettledIsKeptInductive ==
    ASSUME CompileInv, [CompileNext]_cvars
    PROVE  SettledIsKept'
<1> USE CompileTypeParts DEF CompileInv
<1> SUFFICES ASSUME upset' \cap {"twoSwaps", "notFolded"} = {}, NEW w \in settled'
             PROVE  w \in Content(live)' \/ InBackup(w)'
  <2>1. \A w : InBackup(w)' => \E s \in Stamps : w \in Content(Backup(s))'
    BY DEF InBackup, Content, Backup
  <2> QED BY <2>1 DEF SettledIsKept, Backup, live
<1> DEFINE Goal == w \in Content(live)' \/ InBackup(w)'
<1>0. /\ upset \cap {"twoSwaps", "notFolded"} = {}
      /\ InBackup(w) => InBackup(w)'
      /\ w \in settled => w \in Content(live) \/ InBackup(w)
  <2>1. upset \cap {"twoSwaps", "notFolded"} = {} BY UpsetGrows
  <2>2. InBackup(w) => InBackup(w)' BY BackupsStay
  <2>3. \A s \in Stamps : w \in Content(Backup(s)) => InBackup(w)
    BY DEF InBackup, Content, BackupsAreFolded
  <2> QED BY <2>1, <2>2, <2>3 DEF SettledIsKept
<1>1. CASE Aside
  BY <1>0, <1>1 DEF Aside, KeptAt, Content
<1>2. CASE LiveFold
  BY <1>0, <1>2, FoldedContent DEF LiveFold
<1>3. ASSUME NEW v \in Writers, Open(v) PROVE Goal
  <2>1. w \in settled BY <1>3 DEF Open
  <2>2. Content(live) \subseteq Content(live)'
    <3>1. CASE files[live] = NoFile
      BY <1>3, <3>1, OpenFiles DEF Content
    <3>2. CASE files[live] # NoFile
      BY <1>3, <3>2, OpenFiles DEF Content, KeptAt
    <3> QED BY <3>1, <3>2
  <2> QED BY <1>0, <2>1, <2>2
<1>4. ASSUME NEW v \in Writers, Commit(v) PROVE Goal
  <2>1. Content(live) \subseteq Content(live)'
    <3>1. CASE There(v) \/ LogOnly(v)
      BY <1>4, <3>1, CommitFiles
    <3>2. CASE ~There(v) /\ ~LogOnly(v)
      BY <1>4, <3>2, CommitFiles DEF Content
    <3> QED BY <3>1, <3>2
  <2>2. CASE w \in settled
    BY <1>0, <2>1, <2>2
  <2>3. CASE w \notin settled
    BY <1>4, <2>3, CommitSettles, CommitFiles
  <2> QED BY <2>2, <2>3
<1>5. ASSUME NEW o \in Swaps, MoveLive(o) PROVE Goal
  <2>1. SettledInFiles' /\ swap'[o].at = "dropWal"
    BY <1>5, MoveLiveEffect, SettledInFilesInductive DEF Goes
  <2> QED BY <2>1 DEF SettledInFiles
<1>6. ASSUME NEW o \in Swaps, DropWal(o) PROVE Goal
  <2>1. SettledInFiles' /\ swap'[o].at = "moveDraft"
    BY <1>6, DropWalEffect, SettledInFilesInductive DEF Goes
  <2> QED BY <2>1 DEF SettledInFiles
<1>7. ASSUME NEW o \in Swaps, MoveDraft(o) PROVE Goal
  <2>1. swap[o].at = "moveDraft" /\ w \in settled
    BY <1>7 DEF MoveDraft
  <2> QED BY <1>0, <2>1 DEF SettledInFiles
<1> QED BY <1>1, <1>2, <1>3, <1>4, <1>5, <1>6, <1>7, LiveCases

-----------------------------------------------------------------------------
(* The invariant is inductive: drafts *)

LEMMA DraftCases ==
    ASSUME CompileTypeOK, OnlyCompleted, [CompileNext]_cvars
    PROVE  \/ DraftsKept /\ UNCHANGED <<metas, stage>>
           \/ \E t \in Tokens : CompileStep(t)
           \/ \E r \in Swaps : SwapOnDraft(r) \/ MoveDraft(r)
<1> USE CompileTypeParts
<1>1. CASE Idle
  BY <1>1, IdleFiles
<1>2. ASSUME NEW w \in Writers, Open(w) \/ Commit(w)
      PROVE  DraftsKept /\ UNCHANGED <<metas, stage>>
  <2>1. DraftsKept BY <1>2, OpenFiles, CommitFiles, KeptButOne
  <2> QED BY <1>2, <2>1 DEF Open, Commit
<1>3. ASSUME NEW r \in Swaps, MoveLive(r)
      PROVE  DraftsKept /\ UNCHANGED <<metas, stage>>
  <2>1. CASE files[live] = NoFile
    BY <1>3, <2>1, MoveLiveFiles DEF MoveLive, DraftsKept, KeptAt
  <2>2. CASE files[live] # NoFile
    BY <1>3, <2>2, MoveLiveFiles, KeptButOne DEF MoveLive
  <2> QED BY <2>1, <2>2
<1>4. ASSUME NEW r \in Swaps, DropWal(r)
      PROVE  DraftsKept /\ UNCHANGED <<metas, stage>>
  BY <1>4, DropWalFiles, KeptButOne DEF DropWal
<1> QED BY <1>1, <1>2, <1>3, <1>4, FoldsLiveEffect, StepCases

Taken(p) ==
    /\ files'[p] \in {files[p], NoFile}
    /\ wals'[p] \in {wals[p], NoFile}

\* Swaps fold or take away the drafts of complete compiles and touch no other.
LEMMA SwapDraftSteps ==
    ASSUME CompileTypeOK, OnlyCompleted, NEW r \in Swaps,
           SwapOnDraft(r) \/ MoveDraft(r), NEW u \in Tokens
    PROVE  /\ FoldedAt(Draft(u)) \/ Taken(Draft(u))
           /\ stage[u] # "complete" => KeptAt(Draft(u))
           /\ stage' = stage /\ metas' \subseteq metas
<1> USE CompileTypeParts
<1> DEFINE Goal == /\ FoldedAt(Draft(u)) \/ Taken(Draft(u))
                   /\ stage[u] # "complete" => KeptAt(Draft(u))
                   /\ stage' = stage /\ metas' \subseteq metas
           x == swap[r].token
<1>0. /\ {"foldDraft", "moveDraft", "dropSidecar", "discard"} \subseteq Swapping
      /\ \A t \in metas : t \in Tokens /\ stage[t] = "complete"
      /\ swap[r].at \in Swapping => x \in Tokens /\ stage[x] = "complete"
      /\ KeptAt(Draft(u)) \/ GoneAt(Draft(u)) => Taken(Draft(u))
  BY DEF Swapping, InThread, OnlyCompleted, CompileTypeOK, KeptAt, GoneAt, Taken
<1>1. CASE FoldDraft(r)
  <2>1. x \in Tokens /\ stage[x] = "complete" /\ Checkpoint(Draft(x))
    BY <1>0, <1>1 DEF FoldDraft
  <2>2. FoldedAt(Draft(x)) /\ (u # x => KeptAt(Draft(u)))
    BY <2>1, CheckpointFiles, KeptButOne, PathFacts
  <2>3. UNCHANGED <<metas, stage>> BY <1>1 DEF FoldDraft
  <2> QED BY <1>0, <2>1, <2>2, <2>3
<1>2. CASE DropSidecar(r)
  <2>1. x \in Tokens /\ stage[x] = "complete"
    BY <1>0, <1>2 DEF DropSidecar
  <2>2. /\ files' = files /\ wals'[Draft(x)] = NoFile
        /\ u # x => KeptAt(Draft(u))
    BY <1>2, <2>1, DropSidecarFiles, KeptButOne
  <2>3. UNCHANGED <<metas, stage>> BY <1>2 DEF DropSidecar
  <2> QED BY <1>0, <2>1, <2>2, <2>3 DEF Taken
<1>3. CASE EndAccept(r)
  <2>1. x \in Tokens /\ stage[x] = "complete" /\ Discard(x)
    BY <1>0, <1>3 DEF EndAccept
  <2>2. GoneAt(Draft(x)) /\ (u # x => KeptAt(Draft(u)))
    BY <2>1, DiscardFiles, KeptButOne
  <2>3. stage' = stage /\ metas' \subseteq metas
    BY <1>3, <2>1 DEF EndAccept, Discard
  <2> QED BY <1>0, <2>1, <2>2, <2>3
<1>4. ASSUME NEW t \in Tokens, StartAccept(r, t) PROVE Goal
  <2>1. KeptAt(Draft(u)) BY <1>4 DEF StartAccept, KeptAt
  <2>2. UNCHANGED <<metas, stage>> BY <1>4 DEF StartAccept
  <2> QED BY <1>0, <2>1, <2>2
<1>5. ASSUME NEW t \in Tokens, Revert(r, t) PROVE Goal
  <2>1. stage[t] = "complete" /\ Discard(t)
    BY <1>0, <1>5 DEF Revert
  <2>2. GoneAt(Draft(t)) /\ (u # t => KeptAt(Draft(u)))
    BY <2>1, DiscardFiles, KeptButOne
  <2>3. stage' = stage /\ metas' \subseteq metas
    BY <1>5, <2>1 DEF Revert, Discard
  <2> QED BY <1>0, <2>1, <2>2, <2>3
<1>6. CASE MoveDraft(r)
  <2>1. x \in Tokens /\ stage[x] = "complete"
    BY <1>0, <1>6 DEF MoveDraft
  <2>2. UNCHANGED <<metas, stage>> BY <1>6 DEF MoveDraft
  <2>3. CASE files[Draft(x)] = NoFile
    BY <1>0, <1>6, <2>1, <2>2, <2>3, MoveDraftFiles DEF KeptAt
  <2>4. CASE files[Draft(x)] # NoFile
    <3>1. /\ files'[Draft(x)] = NoFile /\ wals' = wals
          /\ u # x => KeptAt(Draft(u))
      BY <1>6, <2>1, <2>4, MoveDraftFiles, KeptButOne
    <3> QED BY <1>0, <2>1, <2>2, <3>1 DEF Taken
  <2> QED BY <2>3, <2>4
<1> HIDE DEF Goal
<1>7. Goal
  <2>1. CASE SwapOnDraft(r)
    <3>1. ASSUME FoldDraft(r) \/ DropSidecar(r) \/ EndAccept(r) PROVE Goal
      BY <1>1, <1>2, <1>3, <3>1 DEF Goal
    <3> QED BY <1>4, <1>5, <2>1, <3>1 DEF SwapOnDraft
  <2>2. CASE MoveDraft(r)
    BY <1>6, <2>2 DEF Goal
  <2> QED BY <2>1, <2>2
<1> QED BY <1>7 DEF Goal

LEMMA SwapDraftSets ==
    ASSUME CompileTypeOK, OnlyCompleted, NEW r \in Swaps, SwapOnDraft(r) \/ MoveDraft(r)
    PROVE  stage' = stage /\ metas' \subseteq metas
<1>1. CASE FoldDraft(r) \/ DropSidecar(r) \/ EndAccept(r) \/ MoveDraft(r)
  <2>1. swap[r].at \in Swapping
    BY <1>1 DEF FoldDraft, DropSidecar, EndAccept, MoveDraft, Swapping, InThread
  <2> QED BY <2>1, SwapHasToken, SwapDraftSteps
<1>2. CASE \E t \in Tokens : StartAccept(r, t) \/ Revert(r, t)
  BY <1>2, SwapDraftSteps
<1> QED BY <1>1, <1>2 DEF SwapOnDraft

\* A compile leaves the drafts of others alone, or sweeps them.
LEMMA OtherDrafts ==
    ASSUME CompileTypeOK, NEW t \in Tokens, CompileStep(t), NEW u \in Tokens, u # t
    PROVE  /\ KeptAt(Draft(u)) \/ SweptAway(u)
           /\ stage'[u] = stage[u]
<1> USE CompileTypeParts
<1>1. stage'[u] = stage[u]
  <2>1. \E st \in Stages : stage' = [stage EXCEPT ![t] = st] \/ stage' = stage
    <3>1. {"started", "copied", "open", "edited", "complete", "failed"} \subseteq Stages
      BY DEF Stages, Compiling
    <3> QED BY <3>1 DEF CompileStep, StartCompile, CopyMain, CopyWal, EditDraft, FinishCompile,
                 FailCompile, AbandonCompile
  <2> QED BY <2>1 DEF CompileTypeOK
<1>2. CASE StartCompile(t)
  BY <1>1, <1>2, StartCompileFiles
<1>3. CASE CopyMain(t)
  BY <1>1, <1>3, CopyMainFiles, KeptButOne
<1>4. CASE CopyWal(t)
  BY <1>1, <1>4, CopyWalFiles, CompileAssumption, KeptButOne
<1>5. CASE EditDraft(t)
  BY <1>1, <1>5, EditDraftFiles, KeptButOne
<1>6. CASE FinishCompile(t)
  BY <1>1, <1>6, FoldFiles, KeptButOne, PathFacts DEF FinishCompile
<1>7. CASE FailCompile(t)
  BY <1>1, <1>7, FailCompileFiles, KeptButOne
<1>8. CASE AbandonCompile(t)
  BY <1>1, <1>8, AbandonCompileFiles, KeptButOne
<1> QED BY <1>2, <1>3, <1>4, <1>5, <1>6, <1>7, <1>8 DEF CompileStep

OwnDraft(t) ==
    /\ stage[t] \in {"open", "edited", "complete"} /\ files[Draft(t)] # NoFile =>
           files[Draft(t)].of \in {t, Fresh}
    /\ stage[t] \in {"new", "started", "copied"} => wals[Draft(t)] = NoFile
    /\ /\ upset \cap {"twoSwaps", "gapOpened", "tornCopy"} = {}
       /\ files[Draft(t)] # NoFile /\ wals[Draft(t)] # NoFile
       => wals[Draft(t)].of = files[Draft(t)].of

LEMMA DraftsOfTokensInductive ==
    ASSUME CompileInv, [CompileNext]_cvars
    PROVE  DraftsOfTokens'
<1> USE CompileTypeParts DEF CompileInv
<1> SUFFICES ASSUME NEW u \in Tokens PROVE OwnDraft(u)'
  BY DEF DraftsOfTokens, OwnDraft, Draft
<1>0. /\ OwnDraft(u) /\ stage \in [Tokens -> Stages] /\ upset \subseteq upset'
  BY UpsetGrows DEF DraftsOfTokens, OwnDraft, CompileTypeOK
<1>1. ASSUME FoldedAt(Draft(u)) \/ Taken(Draft(u)),
             stage'[u] = stage[u] \/ stage'[u] = "failed"
                 \/ (stage[u] = "edited" /\ stage'[u] = "complete")
      PROVE  OwnDraft(u)'
  <2>1. files'[Draft(u)] # NoFile => files[Draft(u)] # NoFile /\ files'[Draft(u)].of = files[Draft(u)].of
    BY <1>1 DEF FoldedAt, Taken, KeptAt
  <2>2. wals'[Draft(u)] \in {wals[Draft(u)], NoFile}
    BY <1>1 DEF FoldedAt, Taken, KeptAt
  <2> QED BY <1>0, <1>1, <2>1, <2>2 DEF OwnDraft, Draft
<1>2. KeptAt(Draft(u)) \/ GoneAt(Draft(u)) \/ SweptAway(u) => Taken(Draft(u))
  BY DEF KeptAt, GoneAt, SweptAway, Taken
<1>3. ASSUME NEW t \in Tokens, CompileStep(t) PROVE OwnDraft(u)'
  <2>1. CASE u # t
    BY <1>1, <1>2, <1>3, <2>1, OtherDrafts
  <2>2. CASE u = t
    <3>1. CASE StartCompile(t)
      <4>1. stage[u] = "new" /\ stage'[u] = "started"
        BY <1>0, <2>2, <3>1 DEF StartCompile
      <4>2. Taken(Draft(u))
        BY <1>2, <3>1, StartCompileFiles
      <4> QED BY <1>0, <4>1, <4>2 DEF OwnDraft, Draft, Taken
    <3>2. CASE CopyMain(t)
      <4>1. stage[u] = "started" /\ stage'[u] \in {"copied", "failed"} /\ wals' = wals
        BY <1>0, <2>2, <3>2 DEF CopyMain
      <4> QED BY <1>0, <4>1 DEF OwnDraft, Draft
    <3>3. CASE CopyWal(t)
      <4>1. stage[u] = "copied" /\ stage'[u] = "open" /\ wals[Draft(u)] = NoFile
        BY <1>0, <2>2, <3>3 DEF CopyWal, OwnDraft
      <4>2. files'[Draft(u)] # NoFile /\ files'[Draft(u)].of \in {u, Fresh}
        BY <2>2, <3>3, CopyWalFiles, CompileAssumption
      <4>3. ASSUME upset' \cap {"twoSwaps", "gapOpened", "tornCopy"} = {}, wals'[Draft(u)] # NoFile
            PROVE  wals'[Draft(u)].of = files'[Draft(u)].of
        <5>1. /\ files[Draft(u)] # NoFile /\ wals[live] # NoFile /\ LogFits(u)
              /\ files'[Draft(u)].of = u
              /\ wals[live].of = files[Draft(u)].of => wals'[Draft(u)].of = u
          BY <2>2, <3>3, <4>1, <4>3, CopyWalFiles, CompileAssumption
        <5>2. files[live] = files[Draft(u)]
          BY <5>1 DEF LogFits
        <5>3. wals[live].of = files[live].of
          BY <1>0, <4>3, <5>1, <5>2, PathFacts DEF SwapLeavesSoundDatabase
        <5> QED BY <5>1, <5>2, <5>3
      <4> QED BY <4>1, <4>2, <4>3 DEF OwnDraft, Draft
    <3>4. CASE EditDraft(t)
      <4>1. stage[u] = "open" /\ stage'[u] = "edited"
        BY <1>0, <2>2, <3>4 DEF EditDraft
      <4>2. /\ files' = files
            /\ \/ wals' = wals
               \/ /\ files[Draft(u)] # NoFile => files[Draft(u)].of # Fresh
                  /\ wals'[Draft(u)].of = IF wals[Draft(u)] = NoFile THEN u ELSE wals[Draft(u)].of
        BY <2>2, <3>4, EditDraftFiles
      <4> QED BY <1>0, <4>1, <4>2 DEF OwnDraft, Draft
    <3>5. CASE FinishCompile(t)
      <4>1. stage[u] = "edited" /\ stage'[u] = "complete" /\ FoldedAt(Draft(u))
        BY <1>0, <2>2, <3>5, FoldFiles, PathFacts DEF FinishCompile
      <4> QED BY <1>1, <4>1
    <3>6. CASE FailCompile(t)
      <4>1. stage'[u] = "failed" /\ Taken(Draft(u))
        BY <1>0, <1>2, <2>2, <3>6, FailCompileFiles DEF FailCompile
      <4> QED BY <1>1, <4>1
    <3>7. CASE AbandonCompile(t)
      <4>1. stage'[u] = "failed" /\ (FoldedAt(Draft(u)) \/ KeptAt(Draft(u)))
        BY <1>0, <2>2, <3>7, FoldFiles, PathFacts DEF AbandonCompile, KeptAt
      <4> QED BY <1>1, <1>2, <4>1
    <3> QED BY <1>3, <3>1, <3>2, <3>3, <3>4, <3>5, <3>6, <3>7 DEF CompileStep
  <2> QED BY <2>1, <2>2
<1> QED BY <1>1, <1>2, <1>3, DraftCases, SwapDraftSteps DEF DraftsKept

OwnMarks(t) ==
    /\ stage[t] \in {"copied", "open", "edited"} => files[Draft(t)] # NoFile
    /\ stage[t] \in {"open", "edited", "complete"} /\ files[Draft(t)] # NoFile =>
           files[Draft(t)].of = t
    /\ stage[t] = "edited" => wals[Draft(t)] # NoFile /\ t \in wals[Draft(t)].marks
    /\ stage[t] = "complete" /\ files[Draft(t)] # NoFile => t \in files[Draft(t)].marks

LEMMA CompilesOwnDraftsInductive ==
    ASSUME CompileInv, [CompileNext]_cvars
    PROVE  CompilesOwnDrafts'
<1> USE CompileTypeParts DEF CompileInv
<1> SUFFICES ASSUME "sweptCopy" \notin upset', NEW u \in Tokens PROVE OwnMarks(u)'
  BY DEF CompilesOwnDrafts, OwnMarks, Draft
<1>0. OwnMarks(u) /\ stage \in [Tokens -> Stages]
  BY UpsetGrows DEF CompilesOwnDrafts, OwnMarks, CompileTypeOK
<1>1. ASSUME KeptAt(Draft(u)), stage'[u] = stage[u] PROVE OwnMarks(u)'
  BY <1>0, <1>1 DEF OwnMarks, KeptAt, Draft
<1>2. ASSUME FoldedAt(Draft(u)) \/ Taken(Draft(u)), stage[u] = "complete", stage'[u] = stage[u]
      PROVE OwnMarks(u)'
  <2>1. files'[Draft(u)] # NoFile =>
            /\ files[Draft(u)] # NoFile /\ files[Draft(u)].marks \subseteq files'[Draft(u)].marks
            /\ files'[Draft(u)].of = files[Draft(u)].of
    <3>1. CASE KeptAt(Draft(u)) \/ Taken(Draft(u))
      BY <3>1 DEF KeptAt, Taken
    <3>2. CASE FoldedAt(Draft(u)) /\ ~KeptAt(Draft(u))
      BY <3>2 DEF FoldedAt, Content
    <3> QED BY <1>2, <3>1, <3>2
  <2> QED BY <1>0, <1>2, <2>1 DEF OwnMarks, Draft
<1>3. ASSUME NEW t \in Tokens, CompileStep(t) PROVE OwnMarks(u)'
  <2>1. CASE u # t
    <3>1. CASE KeptAt(Draft(u))
      BY <1>1, <1>3, <2>1, <3>1, OtherDrafts
    <3>2. CASE SweptAway(u)
      <4>1. stage[u] \in Compiling => files[Draft(u)] = NoFile
        BY <3>2 DEF SweptAway
      <4>2. stage[u] \notin {"copied", "open", "edited"}
        BY <1>0, <4>1 DEF OwnMarks, Compiling
      <4> QED BY <1>3, <2>1, <3>2, <4>2, OtherDrafts DEF OwnMarks, SweptAway, Draft
    <3> QED BY <1>3, <2>1, <3>1, <3>2, OtherDrafts
  <2>2. CASE u = t
    <3>1. CASE StartCompile(t) \/ FailCompile(t) \/ AbandonCompile(t)
      <4>1. stage'[u] \in {"started", "failed"}
        BY <1>0, <2>2, <3>1 DEF StartCompile, FailCompile, AbandonCompile
      <4> QED BY <4>1 DEF OwnMarks
    <3>2. CASE CopyMain(t)
      <4>1. IF files[live] = NoFile THEN stage'[u] = "failed" ELSE stage'[u] = "copied"
        BY <1>0, <2>2, <3>2 DEF CopyMain
      <4> QED BY <2>2, <3>2, <4>1, CopyMainFiles DEF OwnMarks, Draft
    <3>3. CASE CopyWal(t)
      <4>1. stage[u] = "copied" /\ stage'[u] = "open"
        BY <1>0, <2>2, <3>3 DEF CopyWal
      <4>2. files'[Draft(u)] # NoFile /\ files'[Draft(u)].of = u
        BY <1>0, <2>2, <3>3, <4>1, CopyWalFiles, CompileAssumption DEF OwnMarks
      <4> QED BY <4>1, <4>2 DEF OwnMarks, Draft
    <3>4. CASE EditDraft(t)
      <4>1. stage[u] = "open" /\ stage'[u] = "edited"
        BY <1>0, <2>2, <3>4 DEF EditDraft
      <4>2. files[Draft(u)] # NoFile /\ files[Draft(u)].of = u /\ u # Fresh
        BY <1>0, <4>1, CompileAssumption DEF OwnMarks
      <4>3. files' = files /\ wals'[Draft(u)] # NoFile /\ u \in wals'[Draft(u)].marks
        BY <2>2, <3>4, <4>2, EditDraftFiles
      <4> QED BY <4>1, <4>2, <4>3 DEF OwnMarks, Draft
    <3>5. CASE FinishCompile(t)
      <4>1. stage[u] = "edited" /\ stage'[u] = "complete" /\ Fold(Draft(u))
        BY <1>0, <2>2, <3>5 DEF FinishCompile
      <4>2. /\ files'[Draft(u)].marks = Content(Draft(u)) /\ u \in Content(Draft(u))
            /\ files'[Draft(u)].of = u
        BY <1>0, <4>1, FoldEffect, PathFacts DEF OwnMarks, Content
      <4> QED BY <4>1, <4>2 DEF OwnMarks, Draft
    <3> QED BY <1>3, <3>1, <3>2, <3>3, <3>4, <3>5 DEF CompileStep
  <2> QED BY <2>1, <2>2
<1>4. ASSUME NEW r \in Swaps, SwapOnDraft(r) \/ MoveDraft(r) PROVE OwnMarks(u)'
  BY <1>1, <1>2, <1>4, SwapDraftSteps
<1> QED BY <1>1, <1>3, <1>4, DraftCases DEF DraftsKept

-----------------------------------------------------------------------------
(* The invariant is inductive: the swaps *)

\* What a step that is part of a swap was preceded by.
LEMMA Continues ==
    ASSUME CompileTypeOK, OnlyCompleted, [CompileNext]_cvars, NEW r \in Swaps,
           swap'[r].at \in Swapping
    PROVE  \/ /\ swap[r].at \in Swapping
              /\ swap'[r].token = swap[r].token
              /\ swap'[r].at \in BeforeMove => swap[r].at \in BeforeMove
           \/ \E t \in Tokens : StartAccept(r, t)
<1> USE CompileTypeParts
<1> DEFINE Same == /\ swap[r].at \in Swapping
                   /\ swap'[r].token = swap[r].token
                   /\ swap'[r].at \in BeforeMove => swap[r].at \in BeforeMove
           Begun == \E t \in Tokens : StartAccept(r, t)
<1>1. ASSUME swap' = swap PROVE Same
  BY <1>1
<1>3. ASSUME NEW o \in Swaps, NEW from \in BeforeMove, NEW to, Goes(o, from, to)
      PROVE  Same
  BY <1>3 DEF Goes, OthersKept, BeforeMove, Swapping, InThread
<1>4. ASSUME NEW o \in Swaps, Goes(o, "dropSidecar", "discard") PROVE Same
  BY <1>4 DEF Goes, OthersKept, BeforeMove, Swapping, InThread
<1>5. ASSUME NEW o \in Swaps, Ends(o) PROVE Same
  BY <1>5 DEF Ends, OthersKept, Swapping, InThread
<1>6. /\ "quiesce" \in BeforeMove /\ "foldLive" \in BeforeMove /\ "foldDraft" \in BeforeMove
      /\ "moveLive" \in BeforeMove /\ "dropWal" \in BeforeMove /\ "moveDraft" \in BeforeMove
  BY DEF BeforeMove
<1>7. ASSUME NEW o \in Swaps, SwapOnDraft(o) PROVE Same \/ Begun
  <2>1. ASSUME NEW t \in Tokens, StartAccept(o, t) PROVE Same \/ Begun
    <3>1. CASE o = r
      BY <2>1, <3>1
    <3>2. CASE o # r
      BY <2>1, <3>2, StartEffect, CompileAssumption DEF OthersKept
    <3> QED BY <3>1, <3>2
  <2>2. ASSUME FoldDraft(o) PROVE Same
    BY <1>3, <1>6, <2>2, FoldDraftEffect
  <2>3. ASSUME DropSidecar(o) PROVE Same
    BY <1>4, <2>3, DropSidecarEffect
  <2>4. ASSUME EndAccept(o) PROVE Same
    BY <1>5, <2>4, EndAcceptEffect, CompileAssumption
  <2>5. ASSUME NEW t \in Tokens, Revert(o, t) PROVE Same
    BY <1>5, <2>5, RevertEffect, CompileAssumption
  <2> HIDE DEF Same, Begun
  <2> QED BY <1>7, <2>1, <2>2, <2>3, <2>4, <2>5 DEF SwapOnDraft
<1>8. ASSUME FoldsLive PROVE Same
  <2>1. ASSUME NEW w \in Writers, Close(w) PROVE Same
    BY <1>1, <2>1 DEF Close
  <2>2. ASSUME NEW o \in Swaps, Quiesce(o) PROVE Same
    BY <1>3, <1>6, <2>2, QuiesceEffect
  <2>3. ASSUME NEW o \in Swaps, FoldLive(o) PROVE Same
    BY <1>3, <1>6, <2>3, FoldLiveEffect
  <2> QED BY <1>8, <2>1, <2>2, <2>3 DEF FoldsLive
<1>9. ASSUME NEW w \in Writers, Open(w) \/ Commit(w) PROVE Same
  BY <1>1, <1>9 DEF Open, Commit
<1>10. ASSUME NEW o \in Swaps, MoveLive(o) \/ DropWal(o) \/ MoveDraft(o) PROVE Same
  <2>1. ASSUME MoveLive(o) PROVE Same
    BY <1>3, <1>6, <2>1, MoveLiveEffect
  <2>2. ASSUME DropWal(o) PROVE Same
    BY <1>3, <1>6, <2>2, DropWalEffect
  <2>3. ASSUME MoveDraft(o) PROVE Same
    BY <1>3, <1>5, <1>6, <2>3, MoveDraftEffect, CompileAssumption
  <2> HIDE DEF Same
  <2> QED BY <1>10, <2>1, <2>2, <2>3
<1>11. ASSUME NEW t \in Tokens, CompileStep(t) PROVE Same
  BY <1>1, <1>11, CompileStepFiles
<1>12. ASSUME Idle PROVE Same
  BY <1>1, <1>12, IdleFiles
<1> HIDE DEF Same, Begun
<1>13. Same \/ Begun
  BY <1>7, <1>8, <1>9, <1>10, <1>11, <1>12, StepCases
<1> QED BY <1>13 DEF Same, Begun

LEMMA EndOfCompileStays ==
    ASSUME CompileTypeOK, OnlyCompleted, [CompileNext]_cvars, NEW u \in Tokens,
           stage[u] \in {"complete", "failed"}
    PROVE  stage'[u] = stage[u]
<1>1. ASSUME NEW t \in Tokens, CompileStep(t) PROVE stage'[u] = stage[u]
  <2>1. CASE u = t
    BY <1>1, <2>1 DEF CompileStep, StartCompile, CopyMain, CopyWal, EditDraft, FinishCompile,
                 FailCompile, AbandonCompile, Compiling
  <2> QED BY <1>1, <2>1, OtherDrafts
<1> QED BY <1>1, DraftCases, SwapDraftSteps

LEMMA OneSwapInductive ==
    ASSUME CompileInv, [CompileNext]_cvars
    PROVE  OneSwap'
<1> USE CompileTypeParts DEF CompileInv
<1> SUFFICES ASSUME "twoSwaps" \notin upset', NEW r \in Swaps, NEW o \in Swaps,
                    swap'[r].at \in Swapping, swap'[o].at \in Swapping, r # o
             PROVE  FALSE
  BY DEF OneSwap
<1>0. "twoSwaps" \notin upset
  BY UpsetGrows
<1>1. ASSUME NEW x \in Swaps, NEW y \in Swaps, NEW t \in Tokens, x # y,
             swap'[y].at \in Swapping, StartAccept(x, t)
      PROVE  FALSE
  <2>1. swap[y].at \in Swapping
    BY <1>1, StartEffect, CompileAssumption DEF OthersKept
  <2> QED BY <1>1, <2>1 DEF StartAccept
<1>2. swap[r].at \in Swapping /\ swap[o].at \in Swapping
  BY <1>1, Continues
<1> QED BY <1>0, <1>2 DEF OneSwap

LEMMA OnlyCompletedInductive ==
    ASSUME CompileInv, [CompileNext]_cvars
    PROVE  OnlyCompleted'
<1> USE CompileTypeParts DEF CompileInv
<1>1. ASSUME NEW u \in metas' PROVE stage'[u] = "complete"
  <2>0. u \in metas => u \in Tokens /\ stage[u] = "complete"
    BY DEF OnlyCompleted, CompileTypeOK
  <2>1. u \in metas => stage'[u] = "complete"
    BY <2>0, EndOfCompileStays
  <2>2. ASSUME NEW t \in Tokens, CompileStep(t), u \notin metas PROVE stage'[u] = "complete"
    <3>1. FinishCompile(t) /\ u = t
      BY <1>1, <2>2 DEF CompileStep, StartCompile, CopyMain, CopyWal, EditDraft, FinishCompile,
                 FailCompile, AbandonCompile, Discard
    <3> QED BY <3>1 DEF FinishCompile, CompileTypeOK
  <2> QED BY <1>1, <2>1, <2>2, DraftCases, SwapDraftSets
<1>3. ASSUME NEW r \in Swaps, swap'[r].at \in Swapping
      PROVE  swap'[r].token \in Tokens /\ stage'[swap'[r].token] = "complete"
  <2>1. CASE swap[r].at \in Swapping /\ swap'[r].token = swap[r].token
    BY <2>1, EndOfCompileStays DEF OnlyCompleted
  <2>2. ASSUME NEW t \in Tokens, StartAccept(r, t)
        PROVE  swap'[r].token \in Tokens /\ stage'[swap'[r].token] = "complete"
    <3>1. swap'[r].token = t /\ t \in metas
      BY <2>2, StartEffect, CompileAssumption DEF StartAccept, CanAccept
    <3> QED BY <3>1, EndOfCompileStays DEF OnlyCompleted
  <2> QED BY <1>3, <2>1, <2>2, Continues
<1> QED BY <1>1, <1>3 DEF OnlyCompleted

\* How a complete draft can lose its file.
LEMMA DraftLost ==
    ASSUME CompileTypeOK, OnlyCompleted, [CompileNext]_cvars, NEW u \in Tokens,
           stage[u] = "complete", files[Draft(u)] # NoFile, files'[Draft(u)] = NoFile
    PROVE  \/ SweptAway(u)
           \/ \E r \in Swaps : swap[r].token = u /\ (MoveDraft(r) \/ EndAccept(r))
           \/ \E r \in Swaps : Revert(r, u)
<1> USE CompileTypeParts
<1>0. ~KeptAt(Draft(u)) /\ ~FoldedAt(Draft(u))
  BY DEF KeptAt, FoldedAt
<1>1. ASSUME NEW t \in Tokens, CompileStep(t) PROVE SweptAway(u)
  <2>1. u # t
    BY <1>1 DEF CompileStep, StartCompile, CopyMain, CopyWal, EditDraft, FinishCompile,
               FailCompile, AbandonCompile, Compiling
  <2> QED BY <1>0, <1>1, <2>1, OtherDrafts
<1>2. ASSUME NEW r \in Swaps, SwapOnDraft(r) \/ MoveDraft(r)
      PROVE  \/ swap[r].token = u /\ (MoveDraft(r) \/ EndAccept(r))
             \/ Revert(r, u)
  <2>0. {"foldDraft", "moveDraft", "dropSidecar", "discard"} \subseteq Swapping
    BY DEF Swapping, InThread
  <2>1. ASSUME FoldDraft(r) PROVE FALSE
    <3>1. swap[r].token \in Tokens /\ Checkpoint(Draft(swap[r].token))
      BY <2>0, <2>1, SwapHasToken DEF FoldDraft
    <3> QED BY <1>0, <3>1, CheckpointFiles, KeptButOne, PathFacts
  <2>2. ASSUME DropSidecar(r) PROVE FALSE
    BY <2>2 DEF DropSidecar
  <2>3. ASSUME EndAccept(r) PROVE swap[r].token = u
    <3>1. swap[r].token \in Tokens /\ Discard(swap[r].token)
      BY <2>0, <2>3, SwapHasToken DEF EndAccept
    <3> QED BY <1>0, <3>1, DiscardFiles, KeptButOne
  <2>4. ASSUME NEW t \in Tokens, StartAccept(r, t) PROVE FALSE
    BY <2>4 DEF StartAccept
  <2>5. ASSUME NEW t \in Tokens, Revert(r, t) PROVE t = u
    BY <1>0, <2>5, DiscardFiles, KeptButOne DEF Revert
  <2>6. ASSUME MoveDraft(r) PROVE swap[r].token = u
    <3>1. swap[r].token \in Tokens
      BY <2>0, <2>6, SwapHasToken DEF MoveDraft
    <3>2. files[Draft(swap[r].token)] # NoFile
      BY <2>6, <3>1, MoveDraftFiles
    <3> QED BY <1>0, <2>6, <3>1, <3>2, MoveDraftFiles, KeptButOne
  <2> QED BY <1>2, <2>1, <2>2, <2>3, <2>4, <2>5, <2>6 DEF SwapOnDraft
<1> QED BY <1>0, <1>1, <1>2, DraftCases DEF DraftsKept

LEMMA DraftIsThereInductive ==
    ASSUME CompileInv, [CompileNext]_cvars
    PROVE  DraftIsThere'
<1> USE CompileTypeParts DEF CompileInv
<1> SUFFICES ASSUME upset' \cap {"twoSwaps", "sweptDraft"} = {}, NEW r \in Swaps,
                    swap'[r].at \in BeforeMove, files'[Draft(swap'[r].token)] = NoFile
             PROVE  FALSE
  BY DEF DraftIsThere, Draft
<1>0. /\ upset \cap {"twoSwaps", "sweptDraft"} = {}
      /\ BeforeMove \subseteq Swapping
  BY UpsetGrows DEF BeforeMove, Swapping, InThread
<1>1. ASSUME NEW t \in Tokens, StartAccept(r, t) PROVE FALSE
  BY <1>1, StartEffect, CompileAssumption DEF StartAccept, CanAccept
<1> DEFINE u == swap[r].token
<1>2. /\ swap[r].at \in BeforeMove /\ swap'[r].token = u
      /\ u \in Tokens /\ stage[u] = "complete" /\ files[Draft(u)] # NoFile
  <2>1. swap[r].at \in BeforeMove /\ swap'[r].token = u
    BY <1>0, <1>1, Continues
  <2> QED BY <1>0, <2>1 DEF OnlyCompleted, DraftIsThere
<1>3. ASSUME SweptAway(u) PROVE FALSE
  BY <1>0, <1>2, <1>3 DEF SweptAway
<1>4. ASSUME NEW o \in Swaps, MoveDraft(o) \/ EndAccept(o) PROVE FALSE
  <2>1. swap[o].at \in Swapping /\ swap'[o].at \notin BeforeMove
    BY <1>4, MoveDraftEffect, EndAcceptEffect, CompileAssumption
       DEF Goes, Ends, BeforeMove, Swapping, InThread
  <2>2. o = r
    BY <1>0, <1>2, <2>1 DEF OneSwap
  <2> QED BY <2>1, <2>2
<1>5. ASSUME NEW o \in Swaps, Revert(o, u) PROVE FALSE
  BY <1>0, <1>2, <1>5 DEF Revert
<1> QED BY <1>2, <1>3, <1>4, <1>5, DraftLost

\* After its draft is moved a swap goes on to the end.
LEMMA EndingStays ==
    ASSUME CompileTypeOK, OnlyCompleted, [CompileNext]_cvars, NEW r \in Swaps,
           swap[r].at \in {"dropSidecar", "discard"}
    PROVE  \/ swap'[r].at \in {"dropSidecar", "discard"} /\ swap'[r].token = swap[r].token
           \/ EndAccept(r)
<1> USE CompileTypeParts
<1> DEFINE Still == swap'[r].at \in {"dropSidecar", "discard"} /\ swap'[r].token = swap[r].token
<1>1. ASSUME NEW o \in Swaps, OthersKept(o), o # r PROVE Still
  BY <1>1 DEF OthersKept
<1>2. ASSUME NEW o \in Swaps, SwapOnDraft(o) PROVE Still \/ EndAccept(r)
  <2>1. ASSUME FoldDraft(o) PROVE Still
    BY <1>1, <2>1, FoldDraftEffect DEF Goes
  <2>2. ASSUME DropSidecar(o) PROVE Still
    BY <1>1, <2>2, DropSidecarEffect DEF Goes
  <2>3. ASSUME EndAccept(o) PROVE Still \/ EndAccept(r)
    BY <1>1, <2>3, EndAcceptEffect, CompileAssumption DEF Ends
  <2>4. ASSUME NEW t \in Tokens, StartAccept(o, t) PROVE Still
    <3>1. o # r BY <2>4 DEF StartAccept
    <3> QED BY <1>1, <2>4, <3>1, StartEffect, CompileAssumption
  <2>5. ASSUME NEW t \in Tokens, Revert(o, t) PROVE Still
    BY <1>1, <2>5, RevertEffect, CompileAssumption DEF Ends
  <2> HIDE DEF Still
  <2> QED BY <1>2, <2>1, <2>2, <2>3, <2>4, <2>5 DEF SwapOnDraft
<1>3. ASSUME FoldsLive PROVE Still
  <2>1. ASSUME NEW w \in Writers, Close(w) PROVE Still
    BY <2>1 DEF Close
  <2>2. ASSUME NEW o \in Swaps, Quiesce(o) PROVE Still
    BY <1>1, <2>2, QuiesceEffect DEF Goes
  <2>3. ASSUME NEW o \in Swaps, FoldLive(o) PROVE Still
    BY <1>1, <2>3, FoldLiveEffect DEF Goes
  <2> QED BY <1>3, <2>1, <2>2, <2>3 DEF FoldsLive
<1>4. ASSUME NEW o \in Swaps, MoveLive(o) \/ DropWal(o) \/ MoveDraft(o) PROVE Still
  BY <1>1, <1>4, MoveLiveEffect, DropWalEffect, MoveDraftEffect, CompileAssumption
     DEF Goes, Ends
<1>5. ASSUME NEW w \in Writers, Open(w) \/ Commit(w) PROVE Still
  BY <1>5 DEF Open, Commit
<1>6. ASSUME NEW t \in Tokens, CompileStep(t) PROVE Still
  BY <1>6, CompileStepFiles
<1>7. ASSUME Idle PROVE Still
  BY <1>7, IdleFiles
<1> HIDE DEF Still
<1>8. Still \/ EndAccept(r)
  BY <1>2, <1>3, <1>4, <1>5, <1>6, <1>7, StepCases
<1> QED BY <1>8 DEF Still

-----------------------------------------------------------------------------
(* The invariant is inductive: what is live, and the soundness of a swap *)

AcceptableDraft(t) ==
    /\ stage[t] = "complete"
    /\ \/ files[Draft(t)] # NoFile
       \/ \E r \in Swaps : swap[r].token = t /\ swap[r].at \in {"dropSidecar", "discard"}

LiveCompleted ==
    files[live] # NoFile /\ files[live].of \in Tokens =>
        stage[files[live].of] = "complete" /\ files[live].of \in files[live].marks

LEMMA LiveCompletedInductive ==
    ASSUME CompileInv, [CompileNext]_cvars, "sweptCopy" \notin upset'
    PROVE  LiveCompleted'
<1> USE CompileTypeParts DEF CompileInv
<1>0. LiveCompleted /\ "sweptCopy" \notin upset
  BY UpsetGrows DEF LiveIsWhole, LiveCompleted
<1>1. ASSUME files[live] # NoFile, files'[live] # NoFile => files'[live].of = files[live].of
                 /\ files[live].marks \subseteq files'[live].marks
      PROVE  LiveCompleted'
  BY <1>0, <1>1, EndOfCompileStays DEF LiveCompleted, live
<1>2. ASSUME files'[live] = NoFile PROVE LiveCompleted'
  BY <1>2 DEF LiveCompleted, live
<1>3. ASSUME files'[live] = files[live] PROVE LiveCompleted'
  BY <1>1, <1>2, <1>3
<1>4. CASE LiveFold
  <2>1. CASE files[live] = NoFile
    BY <1>2, <1>4, <2>1 DEF LiveFold, FoldedAt, KeptAt
  <2>2. CASE files[live] # NoFile
    BY <1>1, <1>4, <2>2, FoldedContent DEF LiveFold, FoldedAt
  <2> QED BY <2>1, <2>2
<1>5. ASSUME NEW w \in Writers, Open(w) PROVE LiveCompleted'
  <2>1. CASE files[live] = NoFile
    BY <1>5, <2>1, OpenFiles, CompileAssumption DEF LiveCompleted, live
  <2>2. CASE files[live] # NoFile
    BY <1>3, <1>5, <2>2, OpenFiles DEF KeptAt
  <2> QED BY <2>1, <2>2
<1>6. ASSUME NEW w \in Writers, Commit(w) PROVE LiveCompleted'
  BY <1>3, <1>6, CommitFiles
<1>7. ASSUME NEW r \in Swaps, MoveLive(r) \/ DropWal(r) PROVE LiveCompleted'
  BY <1>2, <1>3, <1>7, MoveLiveFiles, DropWalFiles
<1>8. ASSUME NEW r \in Swaps, MoveDraft(r) PROVE LiveCompleted'
  <2> DEFINE x == swap[r].token
  <2>1. x \in Tokens /\ stage[x] = "complete"
    BY <1>8 DEF MoveDraft, OnlyCompleted, Swapping, InThread
  <2>2. CASE files[Draft(x)] = NoFile
    BY <1>3, <1>8, <2>1, <2>2, MoveDraftFiles
  <2>3. CASE files[Draft(x)] # NoFile
    <3>1. files'[live] = files[Draft(x)] /\ stage' = stage
      BY <1>8, <2>1, <2>3, MoveDraftFiles DEF MoveDraft
    <3>2. files[Draft(x)].of = x /\ x \in files[Draft(x)].marks
      BY <1>0, <2>1, <2>3 DEF CompilesOwnDrafts
    <3> QED BY <2>1, <3>1, <3>2 DEF LiveCompleted, live
  <2> QED BY <2>2, <2>3
<1> QED BY <1>3, <1>4, <1>5, <1>6, <1>7, <1>8, LiveCases DEF Aside, KeptAt

LEMMA LiveIsWholeInductive ==
    ASSUME CompileInv, [CompileNext]_cvars
    PROVE  LiveIsWhole'
<1> USE CompileTypeParts DEF CompileInv
<1> SUFFICES ASSUME "sweptCopy" \notin upset'
             PROVE  LiveCompleted' /\ \A u \in metas' : AcceptableDraft(u)'
  BY DEF LiveIsWhole, LiveCompleted, AcceptableDraft
<1>0. "sweptCopy" \notin upset
  BY UpsetGrows
<1>1. ASSUME NEW u \in metas', u \in metas PROVE AcceptableDraft(u)'
  <2>1. u \in Tokens /\ AcceptableDraft(u)
    BY <1>0, <1>1 DEF LiveIsWhole, AcceptableDraft, CompileTypeOK
  <2>2. stage'[u] = "complete"
    BY <2>1, EndOfCompileStays DEF AcceptableDraft
  <2>3. CASE files[Draft(u)] # NoFile /\ files'[Draft(u)] = NoFile
    <3>1. ASSUME SweptAway(u) PROVE FALSE
      BY <1>1, <3>1 DEF SweptAway
    <3>2. ASSUME NEW r \in Swaps, Revert(r, u) PROVE FALSE
      BY <1>1, <3>2 DEF Revert, Discard
    <3>3. ASSUME NEW r \in Swaps, swap[r].token = u, EndAccept(r) PROVE FALSE
      BY <1>1, <3>3 DEF EndAccept, Discard
    <3>4. ASSUME NEW r \in Swaps, swap[r].token = u, MoveDraft(r) PROVE AcceptableDraft(u)'
      BY <2>2, <2>3, <3>4, MoveDraftEffect, CompileAssumption DEF Goes, AcceptableDraft, Draft
    <3>5. stage[u] = "complete"
      BY <2>1 DEF AcceptableDraft
    <3> QED BY <2>1, <2>3, <3>1, <3>2, <3>3, <3>4, <3>5, DraftLost
  <2>4. ASSUME NEW r \in Swaps, swap[r].token = u, swap[r].at \in {"dropSidecar", "discard"}
        PROVE  AcceptableDraft(u)'
    <3>1. ~EndAccept(r)
      BY <1>1, <2>4 DEF EndAccept, Discard
    <3> QED BY <2>2, <2>4, <3>1, EndingStays DEF AcceptableDraft
  <2>5. CASE files'[Draft(u)] # NoFile
    BY <2>2, <2>5 DEF AcceptableDraft, Draft
  <2> QED BY <2>1, <2>3, <2>4, <2>5 DEF AcceptableDraft
<1>2. ASSUME NEW u \in metas', u \notin metas PROVE AcceptableDraft(u)'
  <2>1. ASSUME NEW t \in Tokens, CompileStep(t) PROVE FinishCompile(t) /\ u = t
    BY <1>2, <2>1 DEF CompileStep, StartCompile, CopyMain, CopyWal, EditDraft, FinishCompile,
                 FailCompile, AbandonCompile, Discard
  <2>2. PICK t \in Tokens : FinishCompile(t) /\ u = t
    BY <1>2, <2>1, DraftCases, SwapDraftSets
  <2>3. stage[u] = "edited" /\ stage'[u] = "complete" /\ Fold(Draft(u))
    BY <2>2 DEF FinishCompile, CompileTypeOK
  <2>4. files'[Draft(u)] # NoFile
    BY <1>0, <2>2, <2>3, FoldEffect, PathFacts DEF CompilesOwnDrafts
  <2> QED BY <2>3, <2>4 DEF AcceptableDraft, Draft
<1> QED BY <1>1, <1>2, LiveCompletedInductive

LiveStands ==
    /\ upset \cap {"twoSwaps", "sweptDraft"} = {}
    /\ \A r \in Swaps : swap[r].at \notin {"dropWal", "moveDraft"}
    => files[live] # NoFile

LEMMA LiveStandsInductive ==
    ASSUME CompileInv, [CompileNext]_cvars
    PROVE  LiveStands'
<1> USE CompileTypeParts DEF CompileInv
<1> SUFFICES ASSUME upset' \cap {"twoSwaps", "sweptDraft"} = {},
                    \A r \in Swaps : swap'[r].at \notin {"dropWal", "moveDraft"}
             PROVE  files'[live] # NoFile
  BY DEF LiveStands, live
<1>0. upset \cap {"twoSwaps", "sweptDraft"} = {}
  BY UpsetGrows
<1>1. ASSUME SameGap PROVE files[live] # NoFile
  BY <1>0, <1>1 DEF SameGap, SwapLeavesSoundDatabase
<1>2. CASE Aside
  BY <1>1, <1>2 DEF Aside, KeptAt
<1>3. CASE LiveFold
  BY <1>1, <1>3 DEF LiveFold, FoldedAt
<1>4. ASSUME NEW w \in Writers, Open(w) PROVE files'[live] # NoFile
  <2>1. SameGap
    BY <1>4, SwapUnchanged DEF Open
  <2> QED BY <1>1, <1>4, <2>1, OpenFiles DEF KeptAt
<1>5. ASSUME NEW w \in Writers, Commit(w) PROVE files'[live] # NoFile
  <2>1. SameGap
    BY <1>5, SwapUnchanged DEF Commit
  <2> QED BY <1>1, <1>5, <2>1, CommitFiles
<1>6. ASSUME NEW r \in Swaps, MoveLive(r) \/ DropWal(r) PROVE FALSE
  BY <1>6, MoveLiveEffect, DropWalEffect DEF Goes
<1>7. ASSUME NEW r \in Swaps, MoveDraft(r) PROVE files'[live] # NoFile
  <2>1. swap[r].at = "moveDraft" /\ swap[r].token \in Tokens
    BY <1>7 DEF MoveDraft, OnlyCompleted, Swapping, InThread
  <2>2. files[Draft(swap[r].token)] # NoFile
    BY <1>0, <2>1 DEF DraftIsThere, BeforeMove
  <2> QED BY <1>7, <2>1, <2>2, MoveDraftFiles
<1> QED BY <1>2, <1>3, <1>4, <1>5, <1>6, <1>7, LiveCases

Paired(p) ==
    /\ files[p] # NoFile /\ wals[p] # NoFile
    /\ upset \cap {"twoSwaps", "gapOpened", "tornCopy"} = {}
    => wals[p].of = files[p].of

LEMMA LivePairedInductive ==
    ASSUME CompileInv, [CompileNext]_cvars
    PROVE  Paired(live)'
<1> USE CompileTypeParts DEF CompileInv
<1> SUFFICES ASSUME files'[live] # NoFile, wals'[live] # NoFile,
                    upset' \cap {"twoSwaps", "gapOpened", "tornCopy"} = {}
             PROVE  wals'[live].of = files'[live].of
  BY DEF Paired, live
<1> DEFINE Goal == wals'[live].of = files'[live].of
<1>0. /\ upset \cap {"twoSwaps", "gapOpened", "tornCopy"} = {}
      /\ files[live] # NoFile /\ wals[live] # NoFile => wals[live].of = files[live].of
  BY UpsetGrows, PathFacts DEF SwapLeavesSoundDatabase
<1>1. ASSUME KeptAt(live) PROVE Goal
  BY <1>0, <1>1 DEF KeptAt
<1>2. CASE LiveFold
  BY <1>1, <1>2 DEF LiveFold, FoldedAt
<1>3. ASSUME NEW w \in Writers, Open(w) PROVE Goal
  BY <1>1, <1>3, OpenFiles
<1>4. ASSUME NEW w \in Writers, Commit(w) PROVE Goal
  BY <1>0, <1>1, <1>4, CommitFiles DEF There, LogOnly, KeptAt
<1>5. ASSUME NEW r \in Swaps, MoveLive(r) PROVE Goal
  BY <1>1, <1>5, MoveLiveFiles DEF KeptAt
<1>6. ASSUME NEW r \in Swaps, DropWal(r) PROVE Goal
  BY <1>6, DropWalFiles
<1>7. ASSUME NEW r \in Swaps, MoveDraft(r) PROVE Goal
  <2>1. wals[live] = NoFile
    BY <1>0, <1>7 DEF MoveDraft, GapIsEmpty
  <2> QED BY <1>7, <2>1 DEF MoveDraft
<1> QED BY <1>1, <1>2, <1>3, <1>4, <1>5, <1>6, <1>7, LiveCases DEF Aside

LEMMA SoundInductive ==
    ASSUME CompileInv, [CompileNext]_cvars
    PROVE  SwapLeavesSoundDatabase'
<1>1. \A p \in Paths : Paired(p)'
  <2>1. \A t \in Tokens : Paired(Draft(t))'
    BY DraftsOfTokensInductive DEF DraftsOfTokens, Paired, Draft
  <2>2. \A s \in Stamps : Paired(Backup(s))'
    BY BackupsAreFoldedInductive DEF BackupsAreFolded, Paired, Backup
  <2> QED BY <2>1, <2>2, LivePairedInductive, PathFacts
<1> QED BY <1>1, LiveStandsInductive DEF SwapLeavesSoundDatabase, LiveStands, Paired, Paths, live

-----------------------------------------------------------------------------
(* The invariant is inductive: types *)

WritersTypeOK ==
    /\ conn \in [Writers -> Databases \cup {NoFile}]
    /\ writer \in [Writers -> {"new", "open", "committed", "closed"}]
    /\ \A w \in Writers : conn[w] # NoFile => writer[w] \in {"open", "committed"}

LEMMA DisconnectWriters ==
    ASSUME conn \in [Writers -> Databases \cup {NoFile}], NEW w \in Writers, Disconnect(w)
    PROVE  /\ conn' \in [Writers -> Databases \cup {NoFile}]
           /\ conn'[w] = NoFile
           /\ \A v \in Writers : v # w => conn'[v] = conn[v]
BY DEF Disconnect

LEMMA WritersTypeInductive ==
    ASSUME CompileTypeOK, OnlyCompleted, [CompileNext]_cvars
    PROVE  WritersTypeOK'
<1> USE CompileTypeParts
<1>0. WritersTypeOK
  BY DEF CompileTypeOK, WritersTypeOK
<1>1. ASSUME UNCHANGED <<conn, writer>> PROVE WritersTypeOK'
  BY <1>0, <1>1 DEF WritersTypeOK
<1>2. ASSUME NEW w \in Writers, Open(w) PROVE WritersTypeOK'
  <2>1. PICK d \in Databases : conn' = [conn EXCEPT ![w] = d]
    <3>1. CASE files[live] = NoFile
      BY <1>2, <3>1 DEF Open, Databases
    <3>2. CASE files[live] # NoFile
      <4>1. files[live].of \in Databases
        BY <3>2, PathFacts DEF FilesTypeOK, File
      <4> QED BY <1>2, <3>2, <4>1 DEF Open
    <3> QED BY <3>1, <3>2
  <2>2. writer' = [writer EXCEPT ![w] = "open"]
    BY <1>2 DEF Open
  <2> QED BY <1>0, <2>1, <2>2 DEF WritersTypeOK
<1>3. ASSUME NEW w \in Writers, Commit(w) PROVE WritersTypeOK'
  BY <1>0, <1>3 DEF Commit, WritersTypeOK
<1>4. ASSUME NEW w \in Writers, Close(w) PROVE WritersTypeOK'
  <2>1. Disconnect(w) /\ writer' = [writer EXCEPT ![w] = "closed"]
    BY <1>4 DEF Close
  <2> QED BY <1>0, <2>1, DisconnectWriters DEF WritersTypeOK
<1>5. ASSUME NEW r \in Swaps, Quiesce(r) PROVE WritersTypeOK'
  <2>1. CASE Disconnect(Recorder)
    <3>1. Recorder \in Writers /\ writer' = writer
      BY <1>5 DEF Writers, Quiesce
    <3> QED BY <1>0, <2>1, <3>1, DisconnectWriters DEF WritersTypeOK
  <2>2. CASE UNCHANGED <<files, wals, conn>>
    BY <1>1, <1>5, <2>2 DEF Quiesce
  <2> QED BY <1>5, <2>1, <2>2 DEF Quiesce
<1>6. ASSUME NEW r \in Swaps,
             FoldLive(r) \/ MoveLive(r) \/ DropWal(r) \/ MoveDraft(r) \/ SwapOnDraft(r)
      PROVE  UNCHANGED <<conn, writer>>
  BY <1>6 DEF FoldLive, MoveLive, DropWal, MoveDraft, SwapOnDraft, FoldDraft, DropSidecar,
             EndAccept, StartAccept, Revert
<1>7. ASSUME NEW t \in Tokens, CompileStep(t) PROVE UNCHANGED <<conn, writer>>
  BY <1>7, CompileStepFiles
<1>8. ASSUME Idle PROVE UNCHANGED <<conn, writer>>
  BY <1>8, IdleFiles
<1> QED BY <1>1, <1>2, <1>3, <1>4, <1>5, <1>6, <1>7, <1>8, StepCases DEF FoldsLive

LEMMA FilesTypeInductive ==
    ASSUME CompileTypeOK, OnlyCompleted, [CompileNext]_cvars
    PROVE  FilesTypeOK'
<1> USE CompileTypeParts
<1>1. ASSUME NEW w \in Writers, Open(w) \/ Commit(w) PROVE FilesTypeOK'
  BY <1>1, OpenFiles, CommitFiles
<1>2. ASSUME NEW r \in Swaps, MoveLive(r) \/ DropWal(r) PROVE FilesTypeOK'
  BY <1>2, MoveLiveFiles, DropWalFiles
<1>3. ASSUME NEW r \in Swaps, MoveDraft(r) PROVE FilesTypeOK'
  <2>1. swap[r].token \in Tokens
    BY <1>3, SwapHasToken DEF Swapping, InThread, MoveDraft
  <2> QED BY <1>3, <2>1, MoveDraftFiles
<1> QED BY <1>1, <1>2, <1>3, LiveCases DEF Aside, LiveFold

LEMMA SwapTypeInductive ==
    ASSUME CompileTypeOK, OnlyCompleted, [CompileNext]_cvars
    PROVE  SwapTypeOK'
<1> USE CompileTypeParts
<1>1. ASSUME swap' = swap PROVE SwapTypeOK'
  BY <1>1 DEF SwapTypeOK
<1>2. ASSUME NEW r \in Swaps, SwapOnDraft(r) PROVE SwapTypeOK'
  BY <1>2, CompileAssumption, FoldDraftEffect, DropSidecarEffect, EndAcceptEffect,
     StartEffect, RevertEffect DEF SwapOnDraft
<1>3. ASSUME NEW r \in Swaps, MoveLive(r) \/ DropWal(r) \/ MoveDraft(r) PROVE SwapTypeOK'
  BY <1>3, CompileAssumption, MoveLiveEffect, DropWalEffect, MoveDraftEffect
<1>4. ASSUME NEW r \in Swaps, Quiesce(r) \/ FoldLive(r) PROVE SwapTypeOK'
  BY <1>4, QuiesceEffect, FoldLiveEffect
<1>5. ASSUME NEW w \in Writers, Open(w) \/ Commit(w) \/ Close(w) PROVE swap' = swap
  BY <1>5 DEF Open, Commit, Close
<1>6. ASSUME NEW t \in Tokens, CompileStep(t) PROVE swap' = swap
  BY <1>6, CompileStepFiles
<1>7. ASSUME Idle PROVE swap' = swap
  BY <1>7, IdleFiles
<1> QED BY <1>1, <1>2, <1>3, <1>4, <1>5, <1>6, <1>7, StepCases DEF FoldsLive

Upsets == {"twoSwaps", "gapOpened", "sweptDraft", "sweptCopy", "tornCopy", "notFolded"}

RestTypeOK ==
    /\ metas \subseteq Tokens
    /\ stage \in [Tokens -> Stages]
    /\ running \in BOOLEAN
    /\ settled \subseteq Writers
    /\ upset \subseteq Upsets

LEMMA RestTypeInductive ==
    ASSUME CompileTypeOK, OnlyCompleted, [CompileNext]_cvars
    PROVE  RestTypeOK'
<1> USE CompileTypeParts
<1>0. RestTypeOK
  BY DEF CompileTypeOK, RestTypeOK, Upsets
<1>1. metas' \subseteq Tokens /\ stage' \in [Tokens -> Stages]
  <2>1. ASSUME NEW t \in Tokens, CompileStep(t)
        PROVE  metas' \subseteq Tokens /\ stage' \in [Tokens -> Stages]
    <3>1. metas' \subseteq metas \cup {t}
      BY <2>1 DEF CompileStep, StartCompile, CopyMain, CopyWal, EditDraft, FinishCompile,
                 FailCompile, AbandonCompile, Discard
    <3>2. \E st \in Stages : stage' = [stage EXCEPT ![t] = st] \/ stage' = stage
      <4>1. {"started", "copied", "open", "edited", "complete", "failed"} \subseteq Stages
        BY DEF Stages, Compiling
      <4> QED BY <2>1, <4>1 DEF CompileStep, StartCompile, CopyMain, CopyWal, EditDraft,
                   FinishCompile, FailCompile, AbandonCompile
    <3> QED BY <1>0, <3>1, <3>2 DEF RestTypeOK
  <2> QED BY <1>0, <2>1, DraftCases, SwapDraftSets DEF RestTypeOK
<1>2. running' \in BOOLEAN
  <2>1. ASSUME Idle PROVE running' \in BOOLEAN
    BY <1>0, <2>1 DEF Idle, StartRecording, StopRecording, cvars, RestTypeOK
  <2>2. ASSUME NEW t \in Tokens, CompileStep(t) PROVE running' = running
    BY <2>2, CompileStepFiles
  <2>3. ASSUME NEW r \in Swaps, SwapOnDraft(r) PROVE running' = running
    BY <2>3 DEF SwapOnDraft, FoldDraft, DropSidecar, EndAccept, StartAccept, Revert
  <2>4. ASSUME NEW r \in Swaps, MoveLive(r) \/ DropWal(r) \/ MoveDraft(r) PROVE running' = running
    BY <2>4 DEF MoveLive, DropWal, MoveDraft
  <2>5. ASSUME NEW w \in Writers, Open(w) \/ Commit(w) PROVE running' = running
    BY <2>5 DEF Open, Commit
  <2> QED BY <1>0, <2>1, <2>2, <2>3, <2>4, <2>5, FoldsLiveEffect, StepCases DEF RestTypeOK
<1>3. settled' \subseteq Writers
  <2>1. ASSUME NEW w \in Writers, Open(w) \/ Commit(w) PROVE settled' \subseteq settled \cup {w}
    BY <2>1, CommitSettles DEF Open
  <2>2. ASSUME NEW r \in Swaps, MoveLive(r) \/ DropWal(r) \/ MoveDraft(r) PROVE settled' = settled
    BY <2>2 DEF MoveLive, DropWal, MoveDraft
  <2> QED BY <1>0, <2>1, <2>2, LiveCases DEF RestTypeOK, Aside, LiveFold
<1>4. upset' \subseteq Upsets
  <2>1. ASSUME NEW t \in Tokens, CompileStep(t)
        PROVE  upset' \subseteq upset \cup {"sweptDraft", "sweptCopy", "tornCopy"}
    <3>1. CASE StartCompile(t)
      BY <3>1, StartCompileFiles
    <3>2. CASE CopyWal(t)
      BY <3>2, CopyWalFiles, CompileAssumption
    <3> QED BY <2>1, <3>1, <3>2 DEF CompileStep, CopyMain, EditDraft, FinishCompile,
                 FailCompile, AbandonCompile
  <2>2. ASSUME NEW r \in Swaps, SwapOnDraft(r)
        PROVE  upset' \subseteq upset \cup {"twoSwaps", "notFolded"}
    <3>1. CASE FoldDraft(r)
      <4>1. swap[r].token \in Tokens /\ Checkpoint(Draft(swap[r].token))
        BY <3>1, SwapHasToken DEF FoldDraft, Swapping, InThread
      <4> QED BY <4>1, CheckpointFiles, PathFacts
    <3> QED BY <2>2, <3>1 DEF SwapOnDraft, DropSidecar, EndAccept, StartAccept, Revert
  <2>3. ASSUME NEW r \in Swaps, MoveLive(r) \/ DropWal(r) \/ MoveDraft(r)
        PROVE  upset' \subseteq upset \cup {"twoSwaps"}
    BY <2>3 DEF MoveLive, DropWal, MoveDraft
  <2>4. ASSUME NEW w \in Writers, Open(w) \/ Commit(w) PROVE upset' \subseteq upset \cup {"gapOpened"}
    BY <2>4 DEF Open, Commit
  <2>5. ASSUME FoldsLive PROVE upset' \subseteq upset \cup {"notFolded"}
    <3>1. ASSUME NEW r \in Swaps, FoldLive(r) PROVE upset' \subseteq upset \cup {"notFolded"}
      BY <3>1, CheckpointFiles, PathFacts DEF FoldLive
    <3> QED BY <2>5, <3>1 DEF FoldsLive, Close, Quiesce
  <2>6. ASSUME Idle PROVE upset' = upset
    BY <2>6, IdleFiles
  <2> QED BY <1>0, <2>1, <2>2, <2>3, <2>4, <2>5, <2>6, StepCases DEF RestTypeOK, Upsets
<1> QED BY <1>1, <1>2, <1>3, <1>4 DEF RestTypeOK

LEMMA CompileTypeInductive ==
    ASSUME CompileTypeOK, OnlyCompleted, [CompileNext]_cvars
    PROVE  CompileTypeOK'
<1>1. FilesTypeOK' BY FilesTypeInductive
<1>2. SwapTypeOK' BY SwapTypeInductive
<1>3. WritersTypeOK' BY WritersTypeInductive
<1>4. RestTypeOK' BY RestTypeInductive
<1>5. FilesTypeOK' /\ SwapTypeOK' /\ WritersTypeOK' /\ RestTypeOK' => CompileTypeOK'
  BY DEF FilesTypeOK, SwapTypeOK, WritersTypeOK, RestTypeOK, Upsets, CompileTypeOK
<1> QED BY <1>1, <1>2, <1>3, <1>4, <1>5

-----------------------------------------------------------------------------
(* Theorems *)

\* At start there is the live database and nothing else (CompileInit).
THEOREM CompileInvInit ==
    CompileInit => CompileInv
<1> SUFFICES ASSUME CompileInit PROVE CompileInv
  OBVIOUS
<1> DEFINE f == [of |-> Original, marks |-> {}]
<1>1. f \in File /\ f # NoFile /\ f.of = Original
  BY NoFileAssumption DEF File, Databases
<1>2. /\ files = [p \in Paths |-> IF p = live THEN f ELSE NoFile]
      /\ wals = [p \in Paths |-> NoFile]
  BY DEF CompileInit
<1> HIDE DEF f
<1>3. /\ FilesTypeOK
      /\ files[live] = f
      /\ \A p \in Paths : wals[p] = NoFile /\ (p # live => files[p] = NoFile)
  BY <1>1, <1>2, PathFacts DEF FilesTypeOK
<1>4. /\ metas = {} /\ settled = {} /\ upset = {}
      /\ \A t \in Tokens : stage[t] = "new"
      /\ \A r \in Swaps : swap[r].at = "new"
  BY DEF CompileInit
<1>5. \A t \in Tokens : files[Draft(t)] = NoFile /\ wals[Draft(t)] = NoFile
  BY <1>3, PathFacts
<1>6. CompileTypeOK
  <2>1. SwapTypeOK
    BY CompileAssumption DEF CompileInit, SwapTypeOK, SwapSteps, Stamps
  <2>2. WritersTypeOK
    BY DEF CompileInit, WritersTypeOK
  <2>3. RestTypeOK
    BY DEF CompileInit, RestTypeOK, Stages
  <2> QED BY <1>3, <2>1, <2>2, <2>3
          DEF FilesTypeOK, SwapTypeOK, WritersTypeOK, RestTypeOK, Upsets, CompileTypeOK
<1>7. DraftsOfTokens /\ CompilesOwnDrafts
  BY <1>4, <1>5 DEF DraftsOfTokens, CompilesOwnDrafts
<1>8. BackupsAreFolded
  BY <1>3, PathFacts DEF BackupsAreFolded
<1>9. OnlyCompleted /\ OneSwap /\ DraftIsThere
  BY <1>4 DEF OnlyCompleted, OneSwap, DraftIsThere, BeforeMove, Swapping, InThread
<1>10. LogWithoutFile /\ GapIsEmpty /\ SettledInFiles /\ SettledIsKept
  BY <1>3, <1>4, PathFacts DEF LogWithoutFile, GapIsEmpty, SettledInFiles, SettledIsKept
<1>11. LiveIsWhole
  BY <1>1, <1>3, <1>4, CompileAssumption DEF LiveIsWhole
<1>12. SwapLeavesSoundDatabase
  BY <1>1, <1>3 DEF SwapLeavesSoundDatabase
<1> QED BY <1>6, <1>7, <1>8, <1>9, <1>10, <1>11, <1>12 DEF CompileInv

\* Every step of a compile, a writer or a swap keeps the invariant.
THEOREM CompileInvInductive ==
    CompileInv /\ [CompileNext]_cvars => CompileInv'
<1> SUFFICES ASSUME CompileInv, [CompileNext]_cvars PROVE CompileInv'
  OBVIOUS
<1>1. CompileTypeOK'
  BY CompileTypeInductive DEF CompileInv
<1>2. DraftsOfTokens' /\ BackupsAreFolded' /\ CompilesOwnDrafts'
  BY DraftsOfTokensInductive, BackupsAreFoldedInductive, CompilesOwnDraftsInductive
<1>3. OnlyCompleted' /\ OneSwap' /\ DraftIsThere'
  BY OnlyCompletedInductive, OneSwapInductive, DraftIsThereInductive
<1>4. LogWithoutFile' /\ GapIsEmpty' /\ SettledInFiles'
  BY LogWithoutFileInductive, GapIsEmptyInductive, SettledInFilesInductive
<1>5. LiveIsWhole' /\ SettledIsKept' /\ SwapLeavesSoundDatabase'
  BY LiveIsWholeInductive, SettledIsKeptInductive, SoundInductive
<1> QED BY <1>1, <1>2, <1>3, <1>4, <1>5 DEF CompileInv

\* The invariant holds in every state of compiles, edits, recording and swaps.
THEOREM CompileInvariance == CompileSpec => []CompileInv
BY CompileInvInit, CompileInvInductive, PTL DEF CompileSpec

\* Files, swaps, compiles and connections have their types, and only a writer that
\* has not closed its handle has a database open.
THEOREM CompileTypeCorrect == CompileSpec => []CompileTypeOK
<1>1. CompileInv => CompileTypeOK BY DEF CompileInv
<1> QED BY <1>1, CompileInvariance, PTL

\* A live database that came from a draft is that of a completed compile with its
\* markup, and every draft with metadata is a complete one that is there or is being
\* discarded by the swap that moved it, as long as no sweep has taken away the copy of
\* a compile that ran (compile, accept, _discard_draft, _sweep_stale_drafts).
THEOREM OnlyWholeDraftsGoLive == CompileSpec => []LiveIsWhole
<1>1. CompileInv => LiveIsWhole BY DEF CompileInv
<1> QED BY <1>1, CompileInvariance, PTL

\* What was committed to the live file while no swap moved files is never lost,
\* unless two swaps ran at once or took the same backup, or a checkpoint left a log
\* unfolded (_swap_in_draft, _checkpoint_sqlite).
THEOREM SettledTransactionsKept == CompileSpec => []SettledIsKept
<1>1. CompileInv => SettledIsKept BY DEF CompileInv
<1> QED BY <1>1, CompileInvariance, PTL

\* A live database is there between swaps, and no database is paired with the log of
\* another one, unless one of the events the property names has come between
\* (_swap_in_draft, _copy_live_database).
THEOREM SwapsLeaveSoundDatabase == CompileSpec => []SwapLeavesSoundDatabase
<1>1. CompileInv => SwapLeavesSoundDatabase BY DEF CompileInv
<1> QED BY <1>1, CompileInvariance, PTL
=============================================================================
