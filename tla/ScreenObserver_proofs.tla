------------------------ MODULE ScreenObserver_proofs ------------------------
(***************************************************************************)
(* Proofs about the screen observer, for any numbers of captures, workers, *)
(* retries and faults and any limit of the update queue: type correctness, *)
(* and that a queued capture can be found on disk until it is settled.     *)
(***************************************************************************)
EXTENDS ScreenObserver, FiniteSetTheorems, SequenceTheorems, TLAPS

-----------------------------------------------------------------------------
(* The inductive invariant *)

Marked(c) == "jpg" \in files[c] => files[c] \cap {"meta", "torn", "json", "failed"} # {}

\* A capture that is on its way to a transcription worker or in its hands.
Claimed(c) ==
    \/ frame[c] = "noted" \/ c \in ToSet(queue)
    \/ \E w \in Workers : worker[w].item = c \/ c \in worker[w].found

\* Such a capture has been saved, so nothing begins its files anew, and what is on
\* disk tells a later scan of it.
Written == \A c \in Captures : Claimed(c) => frame[c] \in {"noted", "done"} /\ Marked(c)

\* Before its metadata is written a capture has its picture at most.
FreshFiles == \A c \in Captures : frame[c] \in {"no", "noting", "alone"} => files[c] \subseteq {"jpg"}

\* The metadata is removed once the transcription is saved.
EmitsSaved == \A w \in Workers : worker[w].pc = "emitting" => "json" \in files[worker[w].item]

ScreenInv == ScreenTypeOK /\ Written /\ FreshFiles /\ EmitsSaved

-----------------------------------------------------------------------------
(* The elements of sequences *)

LEMMA ToSetFacts ==
    /\ \A s \in Seq(Captures) : \A c : c \in ToSet(s) <=> \E i \in 1..Len(s) : s[i] = c
    /\ \A s \in Seq(Captures), c \in Captures :
           Append(s, c) \in Seq(Captures) /\ ToSet(Append(s, c)) = ToSet(s) \cup {c}
    /\ \A s \in Seq(Captures) : s # <<>> =>
           /\ Tail(s) \in Seq(Captures) /\ Head(s) \in Captures
           /\ Head(s) \in ToSet(s) /\ ToSet(Tail(s)) \subseteq ToSet(s)
           /\ Len(Tail(s)) = Len(s) - 1
    /\ ToSet(<<>>) = {} /\ <<>> \in Seq(Captures)
<1>1. \A s \in Seq(Captures) : \A c : c \in ToSet(s) <=> \E i \in 1..Len(s) : s[i] = c
  BY DEF ToSet
<1>2. ASSUME NEW s \in Seq(Captures), NEW c \in Captures
      PROVE  Append(s, c) \in Seq(Captures) /\ ToSet(Append(s, c)) = ToSet(s) \cup {c}
  <2>1. /\ Append(s, c) \in Seq(Captures) /\ Len(s) \in Nat
        /\ Len(Append(s, c)) = Len(s) + 1
        /\ \A i \in 1..Len(s) : Append(s, c)[i] = s[i]
        /\ Append(s, c)[Len(s) + 1] = c
    BY AppendProperties, LenProperties
  <2>2. \A d : d \in ToSet(Append(s, c)) <=> d \in ToSet(s) \cup {c}
    <3>1. 1..Len(Append(s, c)) = 1..Len(s) \cup {Len(s) + 1}
      BY <2>1
    <3>2. \A d : d \in ToSet(Append(s, c)) <=> \E i \in 1..Len(s) \cup {Len(s) + 1} : Append(s, c)[i] = d
      BY <1>1, <2>1, <3>1
    <3>3. \A d : d \in ToSet(s) <=> \E i \in 1..Len(s) : s[i] = d
      BY <1>1
    <3> QED BY <2>1, <3>2, <3>3
  <2> QED BY <2>1, <2>2
<1>3. ASSUME NEW s \in Seq(Captures), s # <<>>
      PROVE  /\ Tail(s) \in Seq(Captures) /\ Head(s) \in Captures
             /\ Head(s) \in ToSet(s) /\ ToSet(Tail(s)) \subseteq ToSet(s)
             /\ Len(Tail(s)) = Len(s) - 1
  <2>1. /\ Tail(s) \in Seq(Captures) /\ Len(s) \in Nat /\ Len(s) > 0
        /\ Len(Tail(s)) = Len(s) - 1 /\ Head(s) = s[1]
        /\ \A i \in 1..(Len(s) - 1) : Tail(s)[i] = s[i + 1]
    BY <1>3, HeadTailProperties, EmptySeq, LenProperties
  <2>2. Head(s) \in Captures /\ Head(s) \in ToSet(s)
    BY <1>1, <2>1
  <2>3. ToSet(Tail(s)) \subseteq ToSet(s)
    <3>1. ASSUME NEW d \in ToSet(Tail(s)) PROVE d \in ToSet(s)
      <4>0. \E i \in 1..Len(Tail(s)) : Tail(s)[i] = d
        BY <1>1, <2>1, <3>1
      <4>1. PICK i \in 1..(Len(s) - 1) : s[i + 1] = d
        BY <2>1, <4>0
      <4>2. i + 1 \in 1..Len(s)
        BY <2>1
      <4> QED BY <1>1, <4>1, <4>2
    <3> QED BY <3>1
  <2> QED BY <2>1, <2>2, <2>3
<1>4. ToSet(<<>>) = {} /\ <<>> \in Seq(Captures)
  BY DEF ToSet
<1> QED BY <1>1, <1>2, <1>3, <1>4

LEMMA AddedInOrder ==
    ASSUME NEW q \in Seq(Captures), NEW S \in SUBSET Captures, NEW s \in [1..Cardinality(S) -> S]
    PROVE  q \o s \in Seq(Captures) /\ ToSet(q \o s) \subseteq ToSet(q) \cup S
<1>1. Cardinality(S) \in Nat
  <2>1. IsFiniteSet(1..MaxCaptures)
    BY FS_Interval, ScreenAssumption
  <2>2. IsFiniteSet(S)
    BY <2>1, FS_Subset DEF Captures
  <2> QED BY <2>2, FS_CardinalityType
<1>2. s \in Seq(S) /\ s \in Seq(Captures) /\ Len(s) = Cardinality(S)
  <2>1. s \in [1..Cardinality(S) -> Captures]
    OBVIOUS
  <2> QED BY <1>1, <2>1
<1>3. /\ q \o s \in Seq(Captures)
      /\ Len(q) \in Nat /\ Len(s) \in Nat
      /\ Len(q \o s) = Len(q) + Len(s)
      /\ \A i \in 1..(Len(q) + Len(s)) :
            (q \o s)[i] = IF i <= Len(q) THEN q[i] ELSE s[i - Len(q)]
  BY <1>2, ConcatProperties, LenProperties
<1>4. /\ \A i \in 1..Len(q) : (q \o s)[i] = q[i]
      /\ \A i \in (Len(q) + 1)..(Len(q) + Len(s)) : (q \o s)[i] = s[i - Len(q)]
  BY <1>3
<1>5. ASSUME NEW d \in ToSet(q \o s) PROVE d \in ToSet(q) \cup S
  <2>1. PICK i \in 1..(Len(q) + Len(s)) : (q \o s)[i] = d
    <3>1. \E i \in 1..Len(q \o s) : (q \o s)[i] = d
      BY <1>3, <1>5, ToSetFacts
    <3> QED BY <1>3, <3>1
  <2>2. CASE i \in 1..Len(q)
    BY <1>4, <2>1, <2>2, ToSetFacts
  <2>3. CASE i \in (Len(q) + 1)..(Len(q) + Len(s))
    <3>1. i - Len(q) \in 1..Len(s)
      BY <1>3, <2>3
    <3> QED BY <1>2, <1>4, <2>1, <2>3, <3>1
  <2> QED BY <1>3, <2>1, <2>2, <2>3
<1> QED BY <1>3, <1>5

-----------------------------------------------------------------------------
(* The transcription tasks *)

WorkerRec == [pc : {"new", "scan", "found", "wait"} \cup Busy \cup Over,
              item : Captures \cup {None}, found : SUBSET Captures]

WorkersOK ==
    /\ worker \in [Workers -> WorkerRec]
    /\ \A w \in Workers : (worker[w].item # None) = (worker[w].pc \in Busy)

LEMMA NoneIsNoCapture == None \notin Captures
BY ScreenAssumption DEF None, Captures

LEMMA IdleRec ==
    \A pc \in {"new", "scan", "found", "wait"} \cup Over :
        /\ Idle(pc) \in WorkerRec
        /\ Idle(pc).pc = pc /\ Idle(pc).item = None /\ Idle(pc).found = {}
        /\ pc \notin Busy
BY DEF Idle, WorkerRec, Busy, Over

LEMMA LoopedRec ==
    /\ Looped \in WorkerRec
    /\ Looped.pc \notin Busy /\ Looped.item = None /\ Looped.found = {}
BY IdleRec DEF Looped, Over

\* A worker is set to m and the others go on.
Becomes(w, m) ==
    /\ worker'[w] = m
    /\ \A v \in Workers : v # w => worker'[v] = worker[v]

LEMMA WorkerSet ==
    ASSUME WorkersOK, NEW w \in Workers, NEW m \in WorkerRec,
           m.item # None <=> m.pc \in Busy,
           worker' = [worker EXCEPT ![w] = m]
    PROVE  WorkersOK' /\ Becomes(w, m)
BY DEF WorkersOK, Becomes

LEMMA WorkerFree ==
    ASSUME WorkersOK, NEW w \in Workers, NEW m \in WorkerRec,
           m.item = None, m.pc \notin Busy,
           worker' = [worker EXCEPT ![w] = m]
    PROVE  WorkersOK' /\ Becomes(w, m)
BY WorkerSet

\* A busy worker goes on with the capture it has.
LEMMA WorkerBusy ==
    ASSUME WorkersOK, NEW w \in Workers, worker[w].pc \in Busy, NEW pc \in Busy,
           worker' = [worker EXCEPT ![w].pc = pc]
    PROVE  /\ WorkersOK'
           /\ \A v \in Workers : /\ worker'[v].item = worker[v].item
                                 /\ worker'[v].found = worker[v].found
                                 /\ v # w => worker'[v] = worker[v]
           /\ worker'[w].pc = pc
<1> DEFINE m == [worker[w] EXCEPT !.pc = pc]
<1>1. worker[w] \in WorkerRec BY DEF WorkersOK
<1>2. m \in WorkerRec /\ m.pc = pc /\ m.item = worker[w].item /\ m.found = worker[w].found
  BY <1>1 DEF WorkerRec
<1>3. worker' = [worker EXCEPT ![w] = m]
  OBVIOUS
<1> HIDE DEF m
<1>4. worker[w].item # None BY DEF WorkersOK
<1>5. WorkersOK' /\ Becomes(w, m)
  BY <1>2, <1>3, <1>4, WorkerSet
<1> QED BY <1>2, <1>5 DEF Becomes

-----------------------------------------------------------------------------
(* The parts of the type invariant *)

DiskOK ==
    /\ files \in [Captures -> SUBSET File]
    /\ frame \in [Captures -> {"no", "noting", "noted", "alone", "done"}]
    /\ queue \in Seq(Captures)

RestOK ==
    /\ updates \in Seq(Captures) /\ Len(updates) <= UpdateLimit
    /\ running \in BOOLEAN /\ scanned \in BOOLEAN
    /\ capture \in {"off", "start", "top", "mid", "crashed"}
    /\ txn \in Workers \cup {None}
    /\ tries \in [Captures -> 0..MaxRetries + 1]
    /\ phase \in {"on", "frames", "txn", "off"}
    /\ left \in 0..MaxFaults
    /\ heard \subseteq Captures /\ cut \in BOOLEAN

LEMMA TypeParts == ScreenTypeOK <=> DiskOK /\ WorkersOK /\ RestOK
BY DEF ScreenTypeOK, DiskOK, WorkersOK, RestOK, WorkerRec

DiskInv == DiskOK /\ WorkersOK /\ Written /\ FreshFiles /\ EmitsSaved

-----------------------------------------------------------------------------
(* What keeps the captures on disk *)

\* The captures claimed after a step were claimed before it.
NoNewClaims == \A c \in Captures : Claimed(c)' => Claimed(c)

\* Only marks are added to the files of a capture, and nothing is taken away.
Grows(c) ==
    /\ files[c] \subseteq files'[c]
    /\ files'[c] \subseteq files[c] \cup {"meta", "torn", "json", "failed"}

LEMMA GrowsKeepsMark ==
    \A c : Grows(c) /\ Marked(c) => Marked(c)'
BY DEF Grows, Marked

\* A step that leaves disk and queue and gives no worker a capture.
LEMMA WorkerStepKeepsDisk ==
    ASSUME DiskInv, WorkersOK', UNCHANGED <<files, frame, queue>>,
           NEW w \in Workers, \A v \in Workers : v # w => worker'[v] = worker[v],
           worker'[w].item \in {worker[w].item, None},
           worker'[w].found \subseteq worker[w].found,
           worker'[w].pc # "emitting"
    PROVE  DiskInv'
<1>1. DiskOK' /\ FreshFiles'
  BY DEF DiskInv, DiskOK, FreshFiles
<1>2. NoNewClaims
  BY NoneIsNoCapture DEF NoNewClaims, Claimed
<1>3. Written'
  BY <1>2 DEF DiskInv, NoNewClaims, Written, Marked
<1>4. EmitsSaved'
  BY DEF DiskInv, EmitsSaved
<1> QED BY <1>1, <1>3, <1>4 DEF DiskInv

LEMMA NothingOnDisk ==
    ASSUME DiskInv, UNCHANGED <<files, frame, queue, worker>>
    PROVE  DiskInv'
BY DEF DiskInv, DiskOK, WorkersOK, FreshFiles, EmitsSaved, Written, Claimed, Marked

\* A worker in hand of a capture keeps it on disk.
LEMMA HeldIsClaimed ==
    ASSUME DiskInv, NEW w \in Workers, worker[w].pc \in Busy
    PROVE  /\ worker[w].item \in Captures /\ Claimed(worker[w].item)
           /\ frame[worker[w].item] \in {"noted", "done"}
<1>1. worker[w].item \in Captures
  BY DEF DiskInv, WorkersOK, WorkerRec
<1>2. Claimed(worker[w].item)
  BY DEF Claimed
<1> QED BY <1>1, <1>2 DEF DiskInv, Written

LEMMA EmitsStillSaved ==
    ASSUME DiskInv, worker' = worker,
           \A d \in Captures : Claimed(d) /\ "json" \in files[d] => "json" \in files'[d]
    PROVE  EmitsSaved'
<1>1. ASSUME NEW w \in Workers, worker'[w].pc = "emitting"
      PROVE  "json" \in files'[worker'[w].item]
  <2>1. worker[w].pc \in Busy
    BY <1>1 DEF Busy
  <2> QED BY <1>1, <2>1, HeldIsClaimed DEF DiskInv, EmitsSaved
<1> QED BY <1>1 DEF EmitsSaved

\* The files of one capture that is saved grow, and the queue gets none but claimed ones.
LEMMA FilesStep ==
    ASSUME DiskInv, DiskOK', WorkersOK', frame' = frame, NoNewClaims,
           NEW c \in Captures, frame[c] \in {"noted", "done"},
           Marked(c) => Marked(c)',
           \A d \in Captures : d # c => files'[d] = files[d],
           EmitsSaved'
    PROVE  DiskInv'
<1>1. FreshFiles'
  BY DEF DiskInv, FreshFiles
<1>2. ASSUME NEW d \in Captures, Claimed(d)'
      PROVE  frame'[d] \in {"noted", "done"} /\ Marked(d)'
  <2>1. Claimed(d) /\ Marked(d) /\ frame[d] \in {"noted", "done"}
    BY <1>2 DEF NoNewClaims, DiskInv, Written
  <2>2. CASE d = c
    BY <2>1, <2>2
  <2>3. CASE d # c
    BY <2>1, <2>3 DEF Marked
  <2> QED BY <2>1, <2>2, <2>3
<1>3. Written'
  BY <1>2 DEF Written
<1> QED BY <1>1, <1>3 DEF DiskInv

-----------------------------------------------------------------------------
(* Saving a capture *)

LEMMA TakeCaptureDisk ==
    ASSUME DiskInv, NEW c \in Captures, TakeCapture(c)
    PROVE  DiskInv'
<1>1. /\ frame[c] = "no" /\ queue' = queue /\ worker' = worker
      /\ frame' = [frame EXCEPT ![c] = "noting"] /\ files' = [files EXCEPT ![c] = {"jpg"}]
  BY DEF TakeCapture, others
<1>2. DiskOK' /\ WorkersOK'
  BY <1>1 DEF DiskInv, DiskOK, WorkersOK, File
<1>3. ~Claimed(c)
  BY <1>1 DEF DiskInv, Written
<1>4. \A d \in Captures : d # c => frame'[d] = frame[d] /\ files'[d] = files[d]
  BY <1>1 DEF DiskInv, DiskOK
<1>5. frame'[c] = "noting" /\ files'[c] = {"jpg"}
  BY <1>1 DEF DiskInv, DiskOK
<1>6. NoNewClaims
  BY <1>1, <1>4, <1>5 DEF NoNewClaims, Claimed
<1>7. Written'
  BY <1>3, <1>4, <1>6 DEF Written, NoNewClaims, DiskInv, Marked
<1>8. FreshFiles'
  BY <1>4, <1>5 DEF FreshFiles, DiskInv
<1>9. EmitsSaved'
  BY <1>1, <1>3, <1>4, EmitsStillSaved
<1> QED BY <1>2, <1>7, <1>8, <1>9 DEF DiskInv

LEMMA FilterCaptureDisk ==
    ASSUME DiskInv, NEW c \in Captures, FilterCapture(c)
    PROVE  DiskInv'
<1>1. /\ frame[c] = "noting" /\ queue' = queue /\ worker' = worker
      /\ frame' = [frame EXCEPT ![c] = "done"] /\ files' = [files EXCEPT ![c] = {}]
  BY DEF FilterCapture, others
<1>2. DiskOK' /\ WorkersOK'
  BY <1>1 DEF DiskInv, DiskOK, WorkersOK, File
<1>3. ~Claimed(c)
  BY <1>1 DEF DiskInv, Written
<1>4. \A d \in Captures : d # c => frame'[d] = frame[d] /\ files'[d] = files[d]
  BY <1>1 DEF DiskInv, DiskOK
<1>5. frame'[c] = "done" /\ files'[c] = {}
  BY <1>1 DEF DiskInv, DiskOK
<1>6. NoNewClaims
  BY <1>1, <1>4, <1>5 DEF NoNewClaims, Claimed
<1>7. Written'
  BY <1>3, <1>4, <1>6 DEF Written, NoNewClaims, DiskInv, Marked
<1>8. FreshFiles'
  BY <1>4, <1>5 DEF FreshFiles, DiskInv
<1>9. EmitsSaved'
  BY <1>1, <1>3, <1>4, EmitsStillSaved
<1> QED BY <1>2, <1>7, <1>8, <1>9 DEF DiskInv

\* A capture is claimed for the first time when its metadata is written.
LEMMA WriteMetaDisk ==
    ASSUME DiskInv, NEW c \in Captures, WriteMeta(c)
    PROVE  DiskInv'
<1>1. /\ frame[c] \in {"noting", "alone"} /\ queue' = queue /\ worker' = worker
      /\ frame' = [frame EXCEPT ![c] = IF frame[c] = "noting" THEN "noted" ELSE "done"]
      /\ files' = [files EXCEPT ![c] = files[c] \cup {"meta"}]
  BY DEF WriteMeta, others
<1>2. DiskOK' /\ WorkersOK'
  BY <1>1 DEF DiskInv, DiskOK, WorkersOK, File
<1>3. \A d \in Captures : d # c => frame'[d] = frame[d] /\ files'[d] = files[d]
  BY <1>1 DEF DiskInv, DiskOK
<1>4. frame'[c] \in {"noted", "done"} /\ files'[c] = files[c] \cup {"meta"}
  BY <1>1 DEF DiskInv, DiskOK
<1>5. \A d \in Captures : Claimed(d)' => d = c \/ Claimed(d)
  BY <1>1, <1>3 DEF Claimed
<1>6. Marked(c)'
  BY <1>4 DEF Marked
<1>7. Written'
  <2>1. ASSUME NEW d \in Captures, d # c, Claimed(d)'
        PROVE  frame'[d] \in {"noted", "done"} /\ Marked(d)'
    BY <1>3, <1>5, <2>1 DEF DiskInv, Written, Marked
  <2> QED BY <1>4, <1>6, <2>1 DEF Written
<1>8. FreshFiles'
  BY <1>3, <1>4 DEF FreshFiles, DiskInv
<1>9. EmitsSaved'
  BY <1>1, <1>3, <1>4, EmitsStillSaved
<1> QED BY <1>2, <1>7, <1>8, <1>9 DEF DiskInv

LEMMA QueueCaptureDisk ==
    ASSUME DiskInv, NEW c \in Captures, QueueCapture(c)
    PROVE  DiskInv'
<1>1. /\ frame[c] = "noted" /\ queue' = Append(queue, c) /\ worker' = worker
      /\ frame' = [frame EXCEPT ![c] = "done"] /\ files' = files
  BY DEF QueueCapture, others
<1>2. /\ queue' \in Seq(Captures) /\ ToSet(queue') = ToSet(queue) \cup {c}
  BY <1>1, ToSetFacts DEF DiskInv, DiskOK
<1>3. DiskOK' /\ WorkersOK'
  BY <1>1, <1>2 DEF DiskInv, DiskOK, WorkersOK
<1>4. \A d \in Captures : frame'[d] = IF d = c THEN "done" ELSE frame[d]
  BY <1>1 DEF DiskInv, DiskOK
<1>5. \A d \in Captures : Claimed(d)' => Claimed(d)
  <2>1. Claimed(c)
    BY <1>1 DEF Claimed
  <2>2. \A d \in Captures : d # c /\ Claimed(d)' => Claimed(d)
    BY <1>1, <1>2, <1>4 DEF Claimed
  <2> QED BY <2>1, <2>2
<1>6. Written'
  BY <1>1, <1>4, <1>5 DEF DiskInv, Written, Marked
<1> QED BY <1>1, <1>3, <1>4, <1>6 DEF DiskInv, FreshFiles, EmitsSaved

LEMMA RemoveJpegDisk ==
    ASSUME DiskInv, NEW c \in Captures, RemoveJpeg(c)
    PROVE  DiskInv'
<1>1. /\ frame[c] = "done" /\ queue' = queue /\ worker' = worker /\ frame' = frame
      /\ files' = [files EXCEPT ![c] = files[c] \ {"jpg"}]
  BY DEF RemoveJpeg, others
<1>2. /\ \A d \in Captures : d # c => files'[d] = files[d]
      /\ files'[c] = files[c] \ {"jpg"}
      /\ DiskOK' /\ WorkersOK'
  BY <1>1 DEF DiskInv, DiskOK, WorkersOK
<1>3. NoNewClaims
  BY <1>1 DEF NoNewClaims, Claimed
<1>4. Marked(c)'
  BY <1>2 DEF Marked
<1>5. EmitsSaved'
  BY <1>1, <1>2, EmitsStillSaved
<1> QED BY <1>1, <1>2, <1>3, <1>4, <1>5, FilesStep

-----------------------------------------------------------------------------
(* The transcription worker *)

LEMMA BeginWorkerDisk ==
    ASSUME DiskInv, NEW w \in Workers, BeginWorker(w)
    PROVE  DiskInv'
<1>1. PICK m \in {Looped, Idle("scan")} : worker' = [worker EXCEPT ![w] = m]
  BY DEF BeginWorker
<1>2. /\ m \in WorkerRec /\ m.pc \notin Busy /\ m.item = None /\ m.found = {}
      /\ "emitting" \in Busy
  BY <1>1, LoopedRec, IdleRec DEF Busy
<1>3. WorkersOK' /\ Becomes(w, m)
  BY <1>1, <1>2, WorkerFree DEF DiskInv
<1>4. UNCHANGED <<files, frame, queue>>
  BY DEF BeginWorker, outside
<1> QED BY <1>2, <1>3, <1>4, WorkerStepKeepsDisk DEF Becomes

\* A worker that ends, by itself or by an exception, lets go of what it has.
LEMMA LeavesDisk ==
    ASSUME DiskInv, NEW w \in Workers, WaitTimesOut(w) \/ WorkerCrashes(w)
    PROVE  DiskInv'
<1>1. PICK m \in {Idle("ended"), Idle("crashed")} : worker' = [worker EXCEPT ![w] = m]
  BY DEF WaitTimesOut, WorkerCrashes
<1>2. /\ m \in WorkerRec /\ m.pc \notin Busy /\ m.item = None /\ m.found = {}
      /\ "emitting" \in Busy
  BY <1>1, IdleRec DEF Busy, Over
<1>3. WorkersOK' /\ Becomes(w, m)
  BY <1>1, <1>2, WorkerFree DEF DiskInv
<1>4. UNCHANGED <<files, frame, queue>>
  BY DEF WaitTimesOut, WorkerCrashes, outside
<1> QED BY <1>2, <1>3, <1>4, WorkerStepKeepsDisk DEF Becomes

\* The scan claims what it finds: captures with their metadata.
LEMMA ScanDisk ==
    ASSUME DiskInv, NEW w \in Workers, Scan(w)
    PROVE  DiskInv'
<1> DEFINE m == [pc |-> "found", item |-> None, found |-> Orphaned]
<1>1. worker' = [worker EXCEPT ![w] = m] /\ UNCHANGED <<files, frame, queue>>
  BY DEF Scan, outside
<1>2. /\ m \in WorkerRec /\ m.pc = "found" /\ m.pc \notin Busy
      /\ m.item = None /\ m.found = Orphaned
  BY DEF WorkerRec, Orphaned, Busy, Over
<1> HIDE DEF m
<1>3. WorkersOK' /\ Becomes(w, m)
  BY <1>1, <1>2, WorkerFree DEF DiskInv
<1>4. DiskOK' /\ FreshFiles'
  BY <1>1 DEF DiskInv, DiskOK, FreshFiles
<1>5. ASSUME NEW c \in Captures, Claimed(c)'
      PROVE  frame'[c] \in {"noted", "done"} /\ Marked(c)'
  <2>1. CASE Claimed(c)
    BY <1>1, <2>1 DEF DiskInv, Written, Marked
  <2>2. CASE ~Claimed(c)
    <3>1. c \in Orphaned
      BY <1>1, <1>2, <1>3, <1>5, <2>2, NoneIsNoCapture DEF Claimed, Becomes
    <3>2. frame[c] \in {"noted", "done"}
      BY <3>1 DEF Orphaned, DiskInv, FreshFiles, DiskOK
    <3> QED BY <1>1, <3>1, <3>2 DEF Orphaned, Marked
  <2> QED BY <2>1, <2>2
<1>6. Written'
  BY <1>5 DEF Written
<1>7. EmitsSaved'
  BY <1>1, <1>2, <1>3 DEF Becomes, DiskInv, EmitsSaved
<1> QED BY <1>3, <1>4, <1>6, <1>7 DEF DiskInv

LEMMA QueueOrphansDisk ==
    ASSUME DiskInv, NEW w \in Workers, QueueOrphans(w)
    PROVE  DiskInv'
<1>1. PICK s \in [1..Cardinality(worker[w].found) -> worker[w].found] : queue' = queue \o s
  BY DEF QueueOrphans
<1>2. worker' = [worker EXCEPT ![w] = Looped] /\ UNCHANGED <<files, frame>>
  BY DEF QueueOrphans, outside
<1>3. WorkersOK' /\ Becomes(w, Looped)
  BY <1>2, LoopedRec, WorkerFree DEF DiskInv
<1>4. worker[w].found \in SUBSET Captures
  BY DEF DiskInv, WorkersOK, WorkerRec
<1>5. queue' \in Seq(Captures) /\ ToSet(queue') \subseteq ToSet(queue) \cup worker[w].found
  BY <1>1, <1>4, AddedInOrder DEF DiskInv, DiskOK
<1>6. DiskOK' /\ FreshFiles'
  BY <1>2, <1>5 DEF DiskInv, DiskOK, FreshFiles
<1>7. NoNewClaims
  BY <1>2, <1>3, <1>5, LoopedRec, NoneIsNoCapture DEF NoNewClaims, Claimed, Becomes
<1>8. Written'
  BY <1>2, <1>7 DEF DiskInv, NoNewClaims, Written, Marked
<1>9. EmitsSaved'
  <2>1. Looped.pc # "emitting"
    BY LoopedRec DEF Busy
  <2> QED BY <1>2, <1>3, <2>1 DEF Becomes, DiskInv, EmitsSaved
<1> QED BY <1>3, <1>6, <1>8, <1>9 DEF DiskInv

LEMMA ReceiveDisk ==
    ASSUME DiskInv, NEW w \in Workers, Receive(w)
    PROVE  DiskInv'
<1>0. queue # <<>> /\ Head(queue) \in Captures /\ Head(queue) \in ToSet(queue)
      /\ Tail(queue) \in Seq(Captures) /\ ToSet(Tail(queue)) \subseteq ToSet(queue)
  BY ToSetFacts DEF Receive, DiskInv, DiskOK
<1> PICK c \in Captures : c = Head(queue)
  BY <1>0
<1> DEFINE usable == "meta" \in files[c] /\ "jpg" \in files[c]
           held == [pc |-> "calling", item |-> c, found |-> {}]
           m == IF usable THEN held ELSE Looped
<1>1. /\ queue' = Tail(queue) /\ frame' = frame
      /\ worker' = [worker EXCEPT ![w] = m]
      /\ files' = [files EXCEPT ![c] = IF usable \/ "meta" \notin files[c] THEN files[c]
                                       ELSE files[c] \ {"meta"}]
  <2>1. held = [Idle("calling") EXCEPT !.item = c]
    BY DEF Idle
  <2> HIDE DEF held
  <2> QED BY <2>1 DEF Receive, outside
<1>2. Claimed(c) /\ frame[c] \in {"noted", "done"}
  BY <1>0 DEF Claimed, DiskInv, Written
<1>3. /\ m \in WorkerRec /\ (m.item # None <=> m.pc \in Busy)
      /\ m.item \in {c, None} /\ m.found = {} /\ m.pc # "emitting"
  <2>1. held \in WorkerRec /\ held.pc = "calling" /\ held.item = c /\ held.found = {}
    BY DEF WorkerRec, Busy
  <2>2. "calling" \in Busy /\ c # None /\ Looped.pc # "emitting"
    BY NoneIsNoCapture, LoopedRec DEF Busy
  <2> HIDE DEF held
  <2> QED BY <2>1, <2>2, LoopedRec
<1> HIDE DEF m
<1>5. WorkersOK' /\ Becomes(w, m)
  BY <1>1, <1>3, WorkerSet DEF DiskInv
<1>6. /\ \A d \in Captures : d # c => files'[d] = files[d]
      /\ files'[c] = files[c] \/ ("jpg" \notin files[c] /\ files'[c] = files[c] \ {"meta"})
      /\ DiskOK'
  BY <1>0, <1>1 DEF DiskInv, DiskOK
<1>7. NoNewClaims
  BY <1>0, <1>1, <1>2, <1>3, <1>5, NoneIsNoCapture DEF NoNewClaims, Claimed, Becomes
<1>8. Marked(c) => Marked(c)'
  BY <1>6 DEF Marked
<1>9. EmitsSaved'
  <2>1. ASSUME NEW v \in Workers, worker'[v].pc = "emitting"
        PROVE  "json" \in files'[worker'[v].item]
    <3>1. v # w /\ worker'[v] = worker[v]
      BY <1>3, <1>5, <2>1 DEF Becomes
    <3>2. worker[v].item \in Captures /\ "json" \in files[worker[v].item]
      BY <2>1, <3>1, HeldIsClaimed DEF Busy, DiskInv, EmitsSaved
    <3> QED BY <1>6, <3>1, <3>2
  <2> QED BY <2>1 DEF EmitsSaved
<1> QED BY <1>1, <1>2, <1>5, <1>6, <1>7, <1>8, <1>9, FilesStep

\* A busy worker goes on with its capture, whose files have only grown.
LEMMA BusyGoesOn ==
    ASSUME DiskInv, DiskOK', NEW w \in Workers, worker[w].pc \in Busy, NEW pc \in Busy,
           worker' = [worker EXCEPT ![w].pc = pc], UNCHANGED <<frame, queue>>,
           NEW c \in Captures, c = worker[w].item, Grows(c),
           \A d \in Captures : d # c => files'[d] = files[d],
           pc = "emitting" => "json" \in files'[c]
    PROVE  DiskInv'
<1>1. /\ WorkersOK'
      /\ \A v \in Workers : /\ worker'[v].item = worker[v].item
                            /\ worker'[v].found = worker[v].found
                            /\ v # w => worker'[v] = worker[v]
      /\ worker'[w].pc = pc
  BY WorkerBusy DEF DiskInv
<1>2. NoNewClaims
  BY <1>1 DEF NoNewClaims, Claimed
<1>3. frame[c] \in {"noted", "done"}
  BY HeldIsClaimed
<1>4. EmitsSaved'
  <2>1. ASSUME NEW v \in Workers, worker'[v].pc = "emitting"
        PROVE  "json" \in files'[worker'[v].item]
    <3>1. CASE v = w
      BY <1>1, <2>1, <3>1
    <3>2. CASE v # w
      <4>1. worker'[v] = worker[v] /\ worker[v].pc = "emitting"
        BY <1>1, <2>1, <3>2
      <4>2. worker[v].item \in Captures /\ "json" \in files[worker[v].item]
        BY <4>1, HeldIsClaimed DEF Busy, DiskInv, EmitsSaved
      <4> QED BY <4>1, <4>2 DEF Grows
    <3> QED BY <3>1, <3>2
  <2> QED BY <2>1 DEF EmitsSaved
<1>5. Marked(c) => Marked(c)'
  BY GrowsKeepsMark
<1> QED BY <1>1, <1>2, <1>3, <1>4, <1>5, FilesStep

\* Files are added to those of the capture in hand.
LEMMA FilesAdded ==
    ASSUME DiskInv, NEW c \in Captures, NEW new \in SUBSET {"json", "failed"},
           files' = [files EXCEPT ![c] = files[c] \cup new], UNCHANGED <<frame, queue>>
    PROVE  /\ DiskOK' /\ Grows(c) /\ files'[c] = files[c] \cup new
           /\ \A d \in Captures : d # c => files'[d] = files[d]
BY DEF DiskInv, DiskOK, Grows, File

LEMMA SaveTranscriptionDisk ==
    ASSUME DiskInv, NEW w \in Workers, SaveTranscription(w)
    PROVE  DiskInv'
<1>1. worker[w].pc \in Busy /\ "emitting" \in Busy
  BY DEF SaveTranscription, Busy
<1> PICK c \in Captures : c = worker[w].item
  BY <1>1, HeldIsClaimed
<1>2. /\ files' = [files EXCEPT ![c] = files[c] \cup {"json"}]
      /\ worker' = [worker EXCEPT ![w].pc = "emitting"] /\ UNCHANGED <<frame, queue>>
  BY DEF SaveTranscription, outside
<1>3. /\ DiskOK' /\ Grows(c) /\ files'[c] = files[c] \cup {"json"}
      /\ \A d \in Captures : d # c => files'[d] = files[d]
  <2>1. {"json"} \in SUBSET {"json", "failed"}
    OBVIOUS
  <2> QED BY <1>2, <2>1, FilesAdded
<1> QED BY <1>1, <1>2, <1>3, BusyGoesOn

LEMMA TransientErrorDisk ==
    ASSUME DiskInv, NEW w \in Workers, TransientError(w)
    PROVE  DiskInv'
<1>1. worker[w].pc \in Busy /\ "retry" \in Busy
  BY DEF TransientError, Busy
<1> PICK c \in Captures : c = worker[w].item
  BY <1>1, HeldIsClaimed
<1>2. worker' = [worker EXCEPT ![w].pc = "retry"] /\ UNCHANGED <<files, frame, queue>>
  BY DEF TransientError, outside
<1>3. DiskOK' /\ Grows(c) /\ \A d \in Captures : d # c => files'[d] = files[d]
  BY <1>2 DEF DiskInv, DiskOK, Grows
<1> QED BY <1>1, <1>2, <1>3, BusyGoesOn

LEMMA PermanentErrorDisk ==
    ASSUME DiskInv, NEW w \in Workers, PermanentError(w)
    PROVE  DiskInv'
<1>1. worker[w].pc \in Busy
  BY DEF PermanentError, Busy
<1> PICK c \in Captures : c = worker[w].item
  BY <1>1, HeldIsClaimed
<1>2. PICK new \in {{}, {"json"}} : files' = [files EXCEPT ![c] = files[c] \cup new]
  BY DEF PermanentError
<1>3. UNCHANGED <<frame, queue>>
  BY DEF PermanentError, outside
<1>4. PICK pc \in {"marking", "retry"} : worker' = [worker EXCEPT ![w].pc = pc]
  <2>1. worker' = [worker EXCEPT ![w].pc = IF tries'[c] > MaxRetries THEN "marking" ELSE "retry"]
    BY DEF PermanentError
  <2>2. CASE tries'[c] > MaxRetries
    BY <2>1, <2>2
  <2>3. CASE ~(tries'[c] > MaxRetries)
    BY <2>1, <2>3
  <2> QED BY <2>2, <2>3
<1>5. pc \in Busy /\ pc # "emitting" /\ new \in SUBSET {"json", "failed"}
  BY DEF Busy
<1>6. DiskOK' /\ Grows(c) /\ \A d \in Captures : d # c => files'[d] = files[d]
  BY <1>2, <1>3, <1>5, FilesAdded
<1> QED BY <1>1, <1>3, <1>4, <1>5, <1>6, BusyGoesOn

\* A worker lets go of its capture, which may be queued again; its files have kept a
\* mark and nothing of them is gone that a worker needs.
LEMMA LetsGo ==
    ASSUME DiskInv, DiskOK', NEW w \in Workers, NEW m \in WorkerRec,
           m.item = None, m.pc \notin Busy, m.found = {},
           worker' = [worker EXCEPT ![w] = m], frame' = frame,
           NEW c \in Captures, Claimed(c), ToSet(queue') \subseteq ToSet(queue) \cup {c},
           \A d \in Captures : d # c => files'[d] = files[d],
           files[c] \ {"meta"} \subseteq files'[c],
           Marked(c) => Marked(c)'
    PROVE  DiskInv'
<1>1. WorkersOK' /\ Becomes(w, m)
  BY WorkerFree DEF DiskInv
<1>2. NoNewClaims
  BY <1>1, NoneIsNoCapture DEF NoNewClaims, Claimed, Becomes
<1>3. frame[c] \in {"noted", "done"}
  BY DEF DiskInv, Written
<1>4. EmitsSaved'
  <2>1. ASSUME NEW v \in Workers, worker'[v].pc = "emitting"
        PROVE  "json" \in files'[worker'[v].item]
    <3>1. v # w /\ worker'[v] = worker[v]
      BY <1>1, <2>1 DEF Becomes, Busy
    <3>2. worker[v].item \in Captures /\ "json" \in files[worker[v].item]
      BY <2>1, <3>1, HeldIsClaimed DEF Busy, DiskInv, EmitsSaved
    <3> QED BY <3>1, <3>2
  <2> QED BY <2>1 DEF EmitsSaved
<1> QED BY <1>1, <1>2, <1>3, <1>4, FilesStep

LEMMA EmitDisk ==
    ASSUME DiskInv, NEW w \in Workers, Emit(w)
    PROVE  DiskInv'
<1>1. worker[w].pc \in Busy /\ worker[w].pc = "emitting"
  BY DEF Emit, Busy
<1> PICK c \in Captures : c = worker[w].item
  BY <1>1, HeldIsClaimed
<1>2. /\ files' = [files EXCEPT ![c] = files[c] \ {"meta"}]
      /\ worker' = [worker EXCEPT ![w] = Looped] /\ UNCHANGED <<frame, queue>>
  BY DEF Emit, outside
<1>3. /\ DiskOK' /\ files'[c] = files[c] \ {"meta"}
      /\ \A d \in Captures : d # c => files'[d] = files[d]
  BY <1>2 DEF DiskInv, DiskOK
<1>4. "json" \in files[c]
  BY <1>1 DEF DiskInv, EmitsSaved
<1>5. Claimed(c) /\ Marked(c)'
  BY <1>1, <1>3, <1>4, HeldIsClaimed DEF Marked
<1> QED BY <1>2, <1>3, <1>5, LoopedRec, LetsGo

LEMMA RetryDisk ==
    ASSUME DiskInv, NEW w \in Workers, Retry(w)
    PROVE  DiskInv'
<1>1. worker[w].pc \in Busy
  BY DEF Retry, Busy
<1> PICK c \in Captures : c = worker[w].item
  BY <1>1, HeldIsClaimed
<1>2. /\ queue' = Append(queue, c)
      /\ worker' = [worker EXCEPT ![w] = Looped] /\ UNCHANGED <<files, frame>>
  BY DEF Retry, outside
<1>3. /\ DiskOK' /\ ToSet(queue') \subseteq ToSet(queue) \cup {c}
      /\ \A d \in Captures : d # c => files'[d] = files[d]
      /\ files[c] \ {"meta"} \subseteq files'[c]
  BY <1>2, ToSetFacts DEF DiskInv, DiskOK
<1>4. Claimed(c) /\ (Marked(c) => Marked(c)')
  BY <1>1, <1>2, HeldIsClaimed DEF Marked
<1> QED BY <1>2, <1>3, <1>4, LoopedRec, LetsGo

LEMMA MarkFailedDisk ==
    ASSUME DiskInv, NEW w \in Workers, MarkFailed(w)
    PROVE  DiskInv'
<1>1. worker[w].pc \in Busy
  BY DEF MarkFailed, Busy
<1> PICK c \in Captures : c = worker[w].item
  BY <1>1, HeldIsClaimed
<1>2. /\ files' = [files EXCEPT ![c] = files[c] \cup {"failed"}]
      /\ worker' = [worker EXCEPT ![w] = Looped] /\ UNCHANGED <<frame, queue>>
  BY DEF MarkFailed, outside
<1>3. /\ DiskOK' /\ Grows(c)
      /\ \A d \in Captures : d # c => files'[d] = files[d]
  <2>1. {"failed"} \in SUBSET {"json", "failed"}
    OBVIOUS
  <2> QED BY <1>2, <2>1, FilesAdded
<1>4. Claimed(c) /\ (Marked(c) => Marked(c)') /\ files[c] \ {"meta"} \subseteq files'[c]
  BY <1>1, <1>3, HeldIsClaimed, GrowsKeepsMark DEF Grows
<1> QED BY <1>2, <1>3, <1>4, LoopedRec, LetsGo

\* Of a cancelled worker the capture in hand is queued again.
LEMMA CancelledDisk ==
    ASSUME DiskInv, NEW w \in Workers, Cancelled(w), frame' = frame
    PROVE  DiskInv'
<1>1. worker' = [worker EXCEPT ![w] = Idle("ended")]
  BY DEF Cancelled
<1>2. /\ Idle("ended") \in WorkerRec /\ Idle("ended").item = None
      /\ Idle("ended").pc \notin Busy /\ Idle("ended").found = {}
  BY IdleRec DEF Over
<1>3. CASE worker[w].item = None
  <2>1. UNCHANGED <<files, frame, queue>>
    BY <1>3 DEF Cancelled
  <2>2. WorkersOK' /\ Becomes(w, Idle("ended"))
    BY <1>1, <1>2, WorkerFree DEF DiskInv
  <2> QED BY <1>2, <2>1, <2>2, WorkerStepKeepsDisk DEF Becomes, Busy
<1>4. CASE worker[w].item # None
  <2>1. worker[w].pc \in Busy
    BY <1>4 DEF DiskInv, WorkersOK
  <2> PICK c \in Captures : c = worker[w].item
    BY <2>1, HeldIsClaimed
  <2>2. queue' = Append(queue, c)
    BY <1>4 DEF Cancelled
  <2>3. PICK new \in {{}, {"json"}, {"failed"}} : files' = [files EXCEPT ![c] = files[c] \cup new]
    <3>1. CASE worker[w].pc = "calling"
      BY <1>4, <3>1 DEF Cancelled
    <3>2. CASE worker[w].pc = "marking"
      BY <1>4, <3>2 DEF Cancelled
    <3>3. CASE worker[w].pc \notin {"calling", "marking"}
      BY <1>4, <3>3 DEF Cancelled
    <3> QED BY <3>1, <3>2, <3>3
  <2>4. /\ queue' \in Seq(Captures) /\ ToSet(queue') = ToSet(queue) \cup {c}
    BY <2>2, ToSetFacts DEF DiskInv, DiskOK
  <2>5. DiskOK' /\ Grows(c) /\ \A d \in Captures : d # c => files'[d] = files[d]
    BY <2>3, <2>4 DEF DiskInv, DiskOK, Grows, File
  <2>6. Claimed(c) /\ (Marked(c) => Marked(c)') /\ files[c] \ {"meta"} \subseteq files'[c]
    BY <2>1, <2>5, HeldIsClaimed, GrowsKeepsMark DEF Grows
  <2> QED BY <1>1, <1>2, <2>4, <2>5, <2>6, LetsGo
<1> QED BY <1>3, <1>4

-----------------------------------------------------------------------------
(* The capture worker, the pause and the restart of the process *)

LEMMA NewWorkerDisk ==
    ASSUME DiskInv, NewWorker, UNCHANGED <<files, frame, queue>>
    PROVE  DiskInv' /\ txn' \in Workers
<1>1. PICK w \in Workers : worker' = [worker EXCEPT ![w] = Idle("new")] /\ txn' = w
  BY DEF NewWorker
<1>2. /\ Idle("new") \in WorkerRec /\ Idle("new").item = None
      /\ Idle("new").pc \notin Busy /\ Idle("new").found = {}
  BY IdleRec
<1>3. WorkersOK' /\ Becomes(w, Idle("new"))
  BY <1>1, <1>2, WorkerFree DEF DiskInv
<1> QED BY <1>1, <1>2, <1>3, WorkerStepKeepsDisk DEF Becomes, Busy

LEMMA StopBeginsDisk ==
    ASSUME DiskInv, StopBegins
    PROVE  DiskInv'
<1>1. /\ UNCHANGED <<files, queue, worker>>
      /\ frame' = [c \in Captures |-> CASE frame[c] = "noting" -> "alone"
                                        [] frame[c] = "noted" -> "done"
                                        [] OTHER -> frame[c]]
  BY DEF StopBegins
<1>2. ASSUME NEW c \in Captures
      PROVE  /\ frame'[c] \in {"no", "noting", "noted", "alone", "done"} /\ frame'[c] # "noted"
             /\ frame[c] \in {"noted", "done"} => frame'[c] = "done"
             /\ frame'[c] \in {"no", "noting", "alone"} => frame[c] \in {"no", "noting", "alone"}
  BY <1>1 DEF DiskInv, DiskOK
<1>3. frame' \in [Captures -> {"no", "noting", "noted", "alone", "done"}]
  BY <1>1, <1>2
<1>4. DiskOK' /\ WorkersOK'
  BY <1>1, <1>3 DEF DiskInv, DiskOK, WorkersOK
<1>5. \A c \in Captures : Claimed(c)' => Claimed(c)
  BY <1>1, <1>2 DEF Claimed
<1>6. Written'
  BY <1>1, <1>2, <1>5 DEF DiskInv, Written, Marked
<1>7. FreshFiles' /\ EmitsSaved'
  BY <1>1, <1>2 DEF DiskInv, FreshFiles, EmitsSaved
<1> QED BY <1>4, <1>6, <1>7 DEF DiskInv

LEMMA DieDisk ==
    ASSUME DiskInv, Die
    PROVE  DiskInv'
<1>1. PICK torn \in SUBSET {c \in Captures : frame[c] \in {"noting", "alone"}} :
          files' = [c \in Captures |-> files[c] \cup IF c \in torn THEN {"torn"} ELSE {}]
  BY DEF Die
<1>2. /\ frame' = [c \in Captures |-> IF frame[c] = "no" THEN "no" ELSE "done"]
      /\ queue' = <<>> /\ worker' = [w \in Workers |-> Idle("ended")]
  BY DEF Die
<1>3. /\ Idle("ended") \in WorkerRec /\ Idle("ended").item = None
      /\ Idle("ended").pc \notin Busy /\ Idle("ended").found = {}
  BY IdleRec DEF Over
<1>4. WorkersOK'
  BY <1>2, <1>3 DEF WorkersOK
<1>5. DiskOK'
  BY <1>1, <1>2, ToSetFacts DEF DiskInv, DiskOK, File
<1>6. \A c \in Captures : ~Claimed(c)'
  BY <1>2, <1>3, ToSetFacts, NoneIsNoCapture DEF Claimed
<1>7. Written'
  BY <1>6 DEF Written
<1>8. FreshFiles'
  BY <1>1, <1>2 DEF DiskInv, FreshFiles, DiskOK
<1>9. EmitsSaved'
  BY <1>2, <1>3 DEF EmitsSaved, Busy
<1> QED BY <1>4, <1>5, <1>7, <1>8, <1>9 DEF DiskInv

-----------------------------------------------------------------------------
(* The types of what is not on disk *)

LEMMA FaultSpent == left \in 0..MaxFaults /\ Fault => left' \in 0..MaxFaults
BY ScreenAssumption DEF Fault

LEMMA CaptureStepRest ==
    ASSUME RestOK, NEW c \in Captures,
           TakeCapture(c) \/ FilterCapture(c) \/ WriteMeta(c) \/ QueueCapture(c) \/ RemoveJpeg(c)
    PROVE  RestOK'
<1>1. UNCHANGED others
  BY DEF TakeCapture, FilterCapture, WriteMeta, QueueCapture, RemoveJpeg
<1>2. left' \in 0..MaxFaults
  <2>1. left \in 0..MaxFaults
    BY DEF RestOK
  <2> QED BY <2>1, FaultSpent
        DEF TakeCapture, FilterCapture, WriteMeta, QueueCapture, RemoveJpeg
<1> QED BY <1>1, <1>2 DEF RestOK, others

\* The steps of a worker that leave the updates and the counts of its captures.
LEMMA WorkerQuietRest ==
    ASSUME RestOK, NEW w \in Workers,
           \/ BeginWorker(w) \/ Scan(w) \/ QueueOrphans(w) \/ Receive(w) \/ WaitTimesOut(w)
           \/ Retry(w) \/ SaveTranscription(w) \/ TransientError(w) \/ WorkerCrashes(w)
    PROVE  RestOK'
<1>1. UNCHANGED <<updates, tries, heard, outside>>
  BY DEF BeginWorker, Scan, QueueOrphans, Receive, WaitTimesOut, Retry, SaveTranscription,
         TransientError, WorkerCrashes
<1>2. left' \in 0..MaxFaults
  <2>1. left \in 0..MaxFaults
    BY DEF RestOK
  <2> QED BY <2>1, FaultSpent
        DEF BeginWorker, Scan, QueueOrphans, Receive, WaitTimesOut, Retry, SaveTranscription,
            TransientError, WorkerCrashes
<1>3. scanned' \in BOOLEAN
  <2>1. scanned \in BOOLEAN
    BY DEF RestOK
  <2> QED BY <2>1
        DEF BeginWorker, Scan, QueueOrphans, Receive, WaitTimesOut, Retry, SaveTranscription,
            TransientError, WorkerCrashes
<1> QED BY <1>1, <1>2, <1>3 DEF RestOK, outside

LEMMA EmitRest ==
    ASSUME RestOK, DiskInv, NEW w \in Workers, Emit(w)
    PROVE  RestOK'
<1>1. worker[w].pc \in Busy
  BY DEF Emit, Busy
<1> PICK c \in Captures : c = worker[w].item
  BY <1>1, HeldIsClaimed
<1>2. UNCHANGED <<scanned, left, outside>> /\ tries' = [tries EXCEPT ![c] = 0]
  BY DEF Emit
<1>3. updates' \in Seq(Captures) /\ Len(updates') <= UpdateLimit /\ heard' \subseteq Captures
  <2>1. updates \in Seq(Captures) /\ Len(updates) <= UpdateLimit /\ heard \subseteq Captures
    BY DEF RestOK
  <2>2. CASE Len(updates) < UpdateLimit /\ updates' = Append(updates, c) /\ heard' = heard
    <3>1. updates' \in Seq(Captures) /\ Len(updates') = Len(updates) + 1 /\ Len(updates) \in Nat
      BY <2>1, <2>2, AppendProperties, LenProperties
    <3> QED BY <2>1, <2>2, <3>1, ScreenAssumption
  <2>3. CASE updates' = updates /\ heard' = heard \cup {c}
    BY <2>1, <2>3
  <2> QED BY <2>2, <2>3 DEF Emit
<1>4. tries' \in [Captures -> 0..MaxRetries + 1]
  BY <1>2, ScreenAssumption DEF RestOK
<1> QED BY <1>2, <1>3, <1>4 DEF RestOK, outside

LEMMA PermanentErrorRest ==
    ASSUME RestOK, DiskInv, NEW w \in Workers, PermanentError(w)
    PROVE  RestOK'
<1>1. worker[w].pc \in Busy
  BY DEF PermanentError, Busy
<1> PICK c \in Captures : c = worker[w].item
  BY <1>1, HeldIsClaimed
<1>2. /\ UNCHANGED <<updates, scanned, left, heard, outside>>
      /\ tries' = [tries EXCEPT ![c] = IF tries[c] > MaxRetries THEN tries[c] ELSE tries[c] + 1]
  <2>1. UNCHANGED <<updates, scanned, left, heard, outside>>
    BY DEF PermanentError
  <2>2. tries' = [tries EXCEPT ![c] = IF tries[c] > MaxRetries THEN tries[c] ELSE tries[c] + 1]
    BY DEF PermanentError
  <2> QED BY <2>1, <2>2
<1>3. tries' \in [Captures -> 0..MaxRetries + 1]
  <2>1. tries[c] \in 0..MaxRetries + 1 /\ MaxRetries \in Nat
    BY ScreenAssumption DEF RestOK
  <2>2. (IF tries[c] > MaxRetries THEN tries[c] ELSE tries[c] + 1) \in 0..MaxRetries + 1
    BY <2>1
  <2> QED BY <1>2, <2>2 DEF RestOK
<1> QED BY <1>2, <1>3 DEF RestOK, outside

LEMMA MarkFailedRest ==
    ASSUME RestOK, DiskInv, NEW w \in Workers, MarkFailed(w)
    PROVE  RestOK'
<1>0. worker[w].pc \in Busy
  BY DEF MarkFailed, Busy
<1> PICK c \in Captures : c = worker[w].item
  BY <1>0, HeldIsClaimed
<1>1. UNCHANGED <<updates, scanned, left, heard, outside>> /\ tries' = [tries EXCEPT ![c] = 0]
  BY DEF MarkFailed
<1>2. tries' \in [Captures -> 0..MaxRetries + 1]
  BY <1>1, ScreenAssumption DEF RestOK
<1> QED BY <1>1, <1>2 DEF RestOK, outside

\* The steps of the capture worker.
LEMMA WatchRest ==
    ASSUME RestOK,
           NewWorker \/ txn' = txn,
           scanned' \in BOOLEAN, running' \in BOOLEAN,
           capture' \in {"off", "start", "top", "mid", "crashed"}, cut' \in BOOLEAN,
           phase' \in {"on", "frames", "txn", "off"},
           left' = left \/ Fault, UNCHANGED <<updates, tries, heard>>
    PROVE  RestOK'
<1>1. txn' \in Workers \cup {None}
  BY DEF NewWorker, RestOK
<1>2. left' \in 0..MaxFaults
  BY FaultSpent DEF RestOK
<1> QED BY <1>1, <1>2 DEF RestOK

LEMMA CaptureWorkerRest ==
    ASSUME RestOK,
           \/ CaptureBegins \/ CaptureLoops \/ WatchWorker \/ CancelStuck \/ SkipPass
           \/ CaptureCrashes \/ CaptureRestarts \/ CaptureEnds \/ StopBegins \/ RestartDead \/ Resume
    PROVE  RestOK'
<1>0. running \in BOOLEAN /\ scanned \in BOOLEAN /\ cut \in BOOLEAN
      /\ phase \in {"on", "frames", "txn", "off"}
      /\ capture \in {"off", "start", "top", "mid", "crashed"}
  BY DEF RestOK
<1>1. CASE CaptureBegins BY <1>0, <1>1, WatchRest DEF CaptureBegins
<1>2. CASE CaptureLoops BY <1>0, <1>2, WatchRest DEF CaptureLoops
<1>3. CASE WatchWorker BY <1>0, <1>3, WatchRest DEF WatchWorker
<1>4. CASE CancelStuck BY <1>0, <1>4, WatchRest DEF CancelStuck
<1>5. CASE SkipPass BY <1>0, <1>5, WatchRest DEF SkipPass
<1>6. CASE CaptureCrashes BY <1>0, <1>6, WatchRest DEF CaptureCrashes
<1>7. CASE CaptureRestarts BY <1>0, <1>7, WatchRest DEF CaptureRestarts
<1>8. CASE CaptureEnds BY <1>0, <1>8, WatchRest DEF CaptureEnds
<1>9. CASE StopBegins BY <1>0, <1>9, WatchRest DEF StopBegins
<1>10. CASE RestartDead BY <1>0, <1>10, WatchRest DEF RestartDead, Restarted
<1>11. CASE Resume BY <1>0, <1>11, WatchRest DEF Resume, Restarted
<1> QED BY <1>1, <1>2, <1>3, <1>4, <1>5, <1>6, <1>7, <1>8, <1>9, <1>10, <1>11

LEMMA ConsumeRest ==
    ASSUME RestOK, Consume
    PROVE  RestOK'
<1>1. /\ updates # <<>> /\ updates' = Tail(updates) /\ heard' = heard \cup {Head(updates)}
      /\ UNCHANGED <<running, capture, txn, scanned, tries, phase, left, cut>>
  BY DEF Consume
<1>2. /\ Tail(updates) \in Seq(Captures) /\ Head(updates) \in Captures
      /\ Len(Tail(updates)) = Len(updates) - 1 /\ Len(updates) \in Nat
  BY <1>1, ToSetFacts, LenProperties DEF RestOK
<1>3. Len(updates') <= UpdateLimit
  BY <1>1, <1>2, ScreenAssumption DEF RestOK
<1> QED BY <1>1, <1>2, <1>3 DEF RestOK

LEMMA ReleasedRest ==
    ASSUME RestOK, Released, txn' \in Workers \cup {None},
           UNCHANGED <<scanned, tries, left, heard, cut>>
    PROVE  RestOK'
<1>1. updates' \in Seq(Captures) /\ Len(updates') <= UpdateLimit
  BY ToSetFacts, ScreenAssumption DEF Released
<1> QED BY <1>1 DEF RestOK, Released

LEMMA StopWorkerRest ==
    ASSUME RestOK, StopWorker
    PROVE  RestOK'
<1>0. UNCHANGED <<scanned, tries, left, heard, cut>>
  BY DEF StopWorker
<1>1. CASE Released /\ txn' = None
  BY <1>0, <1>1, ReleasedRest
<1>2. CASE phase' \in {"off", "txn"} /\ UNCHANGED <<txn, capture, running, updates>>
  BY <1>0, <1>2 DEF RestOK
<1> QED
  <2>1. CASE txn = None \/ worker[txn].pc = "ended"
    BY <1>1, <2>1 DEF StopWorker
  <2>2. CASE txn # None /\ worker[txn].pc # "ended"
    <3>1. CASE worker[txn].pc = "crashed"
      BY <1>2, <2>2, <3>1 DEF StopWorker
    <3>2. CASE worker[txn].pc # "crashed"
      BY <1>2, <2>2, <3>2 DEF StopWorker
    <3> QED BY <3>1, <3>2
  <2> QED BY <2>1, <2>2

LEMMA StopEndsRest ==
    ASSUME RestOK, StopEnds
    PROVE  RestOK'
BY ReleasedRest DEF StopEnds

LEMMA DieRest ==
    ASSUME RestOK, Die
    PROVE  RestOK'
<1>1. updates' \in Seq(Captures) /\ Len(updates') <= UpdateLimit
  BY ToSetFacts, ScreenAssumption DEF Die
<1>2. left' \in 0..MaxFaults
  BY FaultSpent DEF Die, RestOK
<1>3. tries' \in [Captures -> 0..MaxRetries + 1]
  BY ScreenAssumption DEF Die
<1> QED BY <1>1, <1>2, <1>3 DEF Die, RestOK

-----------------------------------------------------------------------------
(* The invariant is kept *)

LEMMA InvParts == ScreenInv <=> DiskInv /\ RestOK
BY TypeParts DEF ScreenInv, DiskInv

LEMMA InvPartsNext == DiskInv' /\ RestOK' => ScreenInv'
BY DEF ScreenInv, DiskInv, DiskOK, WorkersOK, RestOK, ScreenTypeOK, WorkerRec

\* The observer starts with an empty directory and idle workers.
THEOREM ScreenInvInit == ScreenInit => ScreenInv
<1> SUFFICES ASSUME ScreenInit PROVE DiskInv /\ RestOK
  BY InvParts
<1>1. /\ files = [c \in Captures |-> {}] /\ frame = [c \in Captures |-> "no"] /\ queue = <<>>
      /\ worker = [w \in Workers |-> Idle("ended")]
  BY DEF ScreenInit
<1>2. /\ Idle("ended") \in WorkerRec /\ Idle("ended").item = None
      /\ Idle("ended").pc \notin Busy /\ Idle("ended").found = {}
  BY IdleRec DEF Over
<1>3. DiskOK /\ WorkersOK
  BY <1>1, <1>2, ToSetFacts DEF DiskOK, WorkersOK
<1>4. \A c \in Captures : ~Claimed(c)
  BY <1>1, <1>2, ToSetFacts, NoneIsNoCapture DEF Claimed
<1>5. Written /\ FreshFiles /\ EmitsSaved
  BY <1>1, <1>2, <1>4 DEF Written, FreshFiles, EmitsSaved, Busy
<1>6. RestOK
  <2>1. updates = <<>> /\ <<>> \in Seq(Captures) /\ Len(<<>>) <= UpdateLimit
    BY ToSetFacts, ScreenAssumption DEF ScreenInit
  <2>2. tries \in [Captures -> 0..MaxRetries + 1] /\ left \in 0..MaxFaults
    BY ScreenAssumption DEF ScreenInit
  <2> QED BY <2>1, <2>2 DEF ScreenInit, RestOK
<1> QED BY <1>3, <1>5, <1>6 DEF DiskInv

LEMMA CaptureStepKeeps ==
    ASSUME ScreenInv, NEW c \in Captures,
           TakeCapture(c) \/ FilterCapture(c) \/ WriteMeta(c) \/ QueueCapture(c) \/ RemoveJpeg(c)
    PROVE  ScreenInv'
<1>1. DiskInv'
  BY InvParts, TakeCaptureDisk, FilterCaptureDisk, WriteMetaDisk, QueueCaptureDisk, RemoveJpegDisk
<1>2. RestOK'
  BY InvParts, CaptureStepRest
<1> QED BY <1>1, <1>2, InvParts, InvPartsNext

LEMMA WorkerStepKeeps ==
    ASSUME ScreenInv, NEW w \in Workers,
           \/ WorkerStep(w) \/ SaveTranscription(w) \/ TransientError(w)
           \/ PermanentError(w) \/ WorkerCrashes(w)
    PROVE  ScreenInv'
<1> DiskInv /\ RestOK
  BY InvParts, InvPartsNext
<1>1. DiskInv'
  BY BeginWorkerDisk, ScanDisk, QueueOrphansDisk, ReceiveDisk, LeavesDisk, EmitDisk, RetryDisk,
     MarkFailedDisk, SaveTranscriptionDisk, TransientErrorDisk, PermanentErrorDisk
     DEF WorkerStep
<1>2. RestOK'
  BY WorkerQuietRest, EmitRest, PermanentErrorRest, MarkFailedRest DEF WorkerStep
<1> QED BY <1>1, <1>2, InvParts, InvPartsNext

LEMMA OtherStepKeeps ==
    ASSUME ScreenInv,
           \/ CaptureBegins \/ CaptureLoops \/ WatchWorker \/ CancelStuck \/ SkipPass
           \/ CaptureCrashes \/ CaptureRestarts \/ CaptureEnds
           \/ Consume \/ RestartDead \/ StopBegins \/ StopWorker \/ StopEnds \/ Resume \/ Die
    PROVE  ScreenInv'
<1> DiskInv /\ RestOK
  BY InvParts, InvPartsNext
<1>1. RestOK'
  BY CaptureWorkerRest, ConsumeRest, StopWorkerRest, StopEndsRest, DieRest
<1>2. CASE CaptureBegins
  <2>1. UNCHANGED <<files, frame, queue>> /\ (NewWorker \/ worker' = worker)
    BY <1>2 DEF CaptureBegins
  <2> QED BY <1>1, <2>1, NewWorkerDisk, NothingOnDisk, InvParts, InvPartsNext
<1>3. CASE WatchWorker
  <2>1. UNCHANGED <<files, frame, queue>> /\ (NewWorker \/ worker' = worker)
    BY <1>3 DEF WatchWorker
  <2> QED BY <1>1, <2>1, NewWorkerDisk, NothingOnDisk, InvParts, InvPartsNext
<1>4. CASE CancelStuck
  <2>1. Cancelled(txn) /\ frame' = frame /\ txn # None
    BY <1>4 DEF CancelStuck, IsOver
  <2>2. txn \in Workers
    BY <2>1 DEF RestOK
  <2> QED BY <1>1, <2>1, <2>2, CancelledDisk, InvParts, InvPartsNext
<1>5. CASE StopWorker
  <2>0. frame' = frame
    BY <1>5 DEF StopWorker
  <2>1. CASE UNCHANGED <<worker, queue, files>>
    BY <1>1, <2>0, <2>1, NothingOnDisk, InvParts, InvPartsNext
  <2>2. CASE txn \in Workers /\ Cancelled(txn)
    BY <1>1, <2>0, <2>2, CancelledDisk, InvParts, InvPartsNext
  <2>3. UNCHANGED <<worker, queue, files>> \/ (txn # None /\ Cancelled(txn))
    <3>1. CASE txn = None \/ worker[txn].pc = "ended"
      BY <1>5, <3>1 DEF StopWorker
    <3>2. CASE txn # None /\ worker[txn].pc = "crashed"
      BY <1>5, <3>2 DEF StopWorker
    <3>3. CASE txn # None /\ worker[txn].pc \notin {"ended", "crashed"}
      BY <1>5, <3>3 DEF StopWorker
    <3> QED BY <3>1, <3>2, <3>3
  <2> QED BY <2>1, <2>2, <2>3 DEF RestOK
<1>6. CASE StopBegins
  BY <1>1, <1>6, StopBeginsDisk, InvParts, InvPartsNext
<1>7. CASE Die
  BY <1>1, <1>7, DieDisk, InvParts, InvPartsNext
<1>8. ASSUME CaptureLoops \/ SkipPass \/ CaptureCrashes \/ CaptureRestarts \/ CaptureEnds
             \/ Consume \/ RestartDead \/ StopEnds \/ Resume
      PROVE  ScreenInv'
  <2>1. UNCHANGED <<files, frame, queue, worker>>
    BY <1>8 DEF CaptureLoops, SkipPass, CaptureCrashes, CaptureRestarts, CaptureEnds, Consume,
                RestartDead, StopEnds, Resume
  <2> QED BY <1>1, <2>1, NothingOnDisk, InvParts, InvPartsNext
<1> QED BY <1>2, <1>3, <1>4, <1>5, <1>6, <1>7, <1>8

\* ScreenInv is inductive: every step of the screen observer keeps it.
THEOREM ScreenInvInductive == ScreenInv /\ [ScreenNext]_svars => ScreenInv'
<1> SUFFICES ASSUME ScreenInv, [ScreenNext]_svars PROVE ScreenInv'
  OBVIOUS
<1>1. ASSUME NEW c \in Captures,
             TakeCapture(c) \/ FilterCapture(c) \/ WriteMeta(c) \/ QueueCapture(c) \/ RemoveJpeg(c)
      PROVE  ScreenInv'
  BY <1>1, CaptureStepKeeps
<1>2. ASSUME NEW w \in Workers,
             \/ WorkerStep(w) \/ SaveTranscription(w) \/ TransientError(w)
             \/ PermanentError(w) \/ WorkerCrashes(w)
      PROVE  ScreenInv'
  BY <1>2, WorkerStepKeeps
<1>3. CASE UNCHANGED svars
  <2>1. DiskInv' /\ RestOK'
    BY <1>3, InvParts, NothingOnDisk DEF svars, RestOK
  <2> QED BY <2>1, InvParts, InvPartsNext
<1> QED BY <1>1, <1>2, <1>3, OtherStepKeeps DEF ScreenNext

\* The inductive invariant holds in every state the screen observer reaches.
THEOREM ScreenInvariance == ScreenSpec => []ScreenInv
<1> QED BY ScreenInvInit, ScreenInvInductive, PTL DEF ScreenSpec

\* Every variable keeps its type: an update queue never beyond its limit, a worker that
\* has a capture exactly while it transcribes, saves, retries or gives it up.
THEOREM ScreenTypeCorrect == ScreenSpec => []ScreenTypeOK
<1>1. ScreenInv => ScreenTypeOK
  BY DEF ScreenInv
<1> QED BY <1>1, ScreenInvariance, PTL

\* For any numbers of captures, transcription tasks, retries and faults, a capture that
\* is queued or in hand, and whose picture is there, has on disk what a later start
\* finds it by, or its outcome (_transcription_worker, stop).
THEOREM QueuedCapturesAreOnDisk == ScreenSpec => []KeptUntilSettled
<1>1. ASSUME ScreenInv PROVE KeptUntilSettled
  BY <1>1 DEF ScreenInv, Written, Claimed, Marked, KeptUntilSettled
<1> QED BY <1>1, ScreenInvariance, PTL
=============================================================================
