--------------------------- MODULE IndexingProofs ---------------------------
(***************************************************************************)
(* Proofs about Indexing, for every value of its constants.                *)
(***************************************************************************)
EXTENDS Indexing, FiniteSetTheorems, TLAPS

\* The number of files of a folder, and of any selection of files, is a number.
LEMMA FileCounts ==
  ASSUME NEW S \in SUBSET Files
  PROVE  Cardinality(S) \in Nat
BY FinitenessAssumption, FS_Subset, FS_CardinalityType

\* A candidate for the next faiss_id is a positive number, above every id in use.
LEMMA NextFaissIdAbove ==
  ASSUME TypeOK, NEW n \in NextFaissIds
  PROVE  /\ n \in Nat \ {0}
         /\ \A e \in Events : \A r \in faceRows[e] : r.id < n
<1>1. \A i \in AllIds : i \in Nat
  BY DEF TypeOK, AllIds, IdsOf, Face
<1>2. n \in Nat \ {0}
  <2>1. n = 1 \/ \E i \in AllIds : n = i + 1
    BY DEF NextFaissIds
  <2> QED BY <1>1, <2>1
<1>3. ASSUME NEW e \in Events, NEW r \in faceRows[e]
      PROVE  r.id < n
  BY r.id \in AllIds DEF NextFaissIds, AllIds, IdsOf
<1> QED BY <1>2, <1>3

\* What a worker takes for the index is a set of faces.
LEMMA IndexOfType ==
  ASSUME TypeOK, NEW w \in Workers, pc[w] # "idle"
  PROVE  IndexOf(w) \in SUBSET Face
BY DEF TypeOK, IndexOf, Task

\* The initial task record is one.
LEMMA NoTaskType == NoTask \in Task
BY BoundsAssumption DEF NoTask, Task, RowSource, NoMedia

\* New faces are faces, with the ids from nextId on.
LEMMA NewFacesType ==
  ASSUME NEW t \in Task, t.cur \in Media,
         NEW d, d.count \in Nat, d.ver \in Versions
  PROVE  /\ NewFaces(t, d) \in SUBSET Face
         /\ \A x \in NewFaces(t, d) : t.nextId <= x.id /\ x.id < t.nextId + d.count
BY DEF NewFaces, Task, Face, Media

\* A detection finds a number of faces in a version of the file.
LEMMA DetectionsType ==
  ASSUME TypeOK, NEW m \in Media, NEW d \in Detections(m)
  PROVE  /\ d.count \in Nat
         /\ d.ver \in Versions
         /\ d.src \in RowSource
BY FacesAssumption DEF TypeOK, Detections, Media, FetchSource, RowSource

\* A message more or a message less leaves a queue of messages.
LEMMA QueueTyped ==
  ASSUME NEW S, NEW q \in [Events -> [S -> Nat]], NEW e \in Events, NEW r \in S
  PROVE  /\ [q EXCEPT ![e][r] = @ + 1] \in [Events -> [S -> Nat]]
         /\ q[e][r] > 0 => [q EXCEPT ![e][r] = @ - 1] \in [Events -> [S -> Nat]]
<1>1. q[e][r] + 1 \in Nat /\ (q[e][r] > 0 => q[e][r] - 1 \in Nat)
  OBVIOUS
<1> QED BY <1>1

\* A new status leaves a table of events.
LEMMA StatusTyped ==
  ASSUME TypeOK, NEW e \in Events, NEW s \in Status
  PROVE  [eventRow EXCEPT ![e].status = s] \in [Events -> EventRow]
BY DEF TypeOK, EventRow

\* The part of TypeOK that is about the tasks.
TasksTyped ==
  /\ pc \in [Workers -> PC]
  /\ task \in [Workers -> Task]
  /\ \A w \in Workers : pc[w] # "idle" => task[w].event \in Events
  /\ \A w \in Workers : pc[w] \in {"detect", "commit"} => task[w].cur \in Media

\* A worker that goes on with a task record is still a typed worker.
LEMMA ContinueTyped ==
  ASSUME TypeOK, NEW w \in Workers, NEW at \in PC, NEW t \in Task,
         at # "idle" => t.event \in Events,
         at \in {"detect", "commit"} => t.cur \in Media,
         Continue(w, at, t)
  PROVE  TasksTyped'
BY DEF TypeOK, Continue, TasksTyped

LEMMA EndTaskTyped ==
  ASSUME TypeOK, NEW w \in Workers, EndTask(w)
  PROVE  TasksTyped'
BY ContinueTyped, NoTaskType DEF EndTask, PC

\* A save, also one that fails, leaves sets of faces on the disk.
LEMMA SaveTyped ==
  ASSUME TypeOK, NEW e \in Events, NEW index \in SUBSET Face, Save(e, index)
  PROVE  /\ disk' \in [Events -> SUBSET Face]
         /\ torn' \in SUBSET Events
         /\ saveFailures' \in Nat
BY DEF TypeOK, Save

LEMMA SaveRaisesTyped ==
  ASSUME TypeOK, NEW e \in Events, SaveRaises(e)
  PROVE  /\ disk' \in [Events -> SUBSET Face]
         /\ torn' \in SUBSET Events
         /\ saveFailures' \in Nat
BY DEF TypeOK, SaveRaises, indexVars

\* The initial state is well typed, and every step keeps it so.
LEMMA TypeInit == Init => TypeOK
<1> SUFFICES ASSUME Init PROVE TypeOK
  OBVIOUS
<1>1. task \in [Workers -> Task]
  BY NoTaskType DEF Init
<1> QED
  BY <1>1, BoundsAssumption
  DEF Init, TypeOK, EventRow, Status, FileRow, NoRow, RowSource, Versions, PC

LEMMA TypeStep == TypeOK /\ [Next]_vars => TypeOK'
<1> SUFFICES ASSUME TypeOK, [Next]_vars PROVE TypeOK'
  OBVIOUS
<1> USE DEF dbVars, indexVars, apiVars
<1>api. ASSUME NEW e \in Events, ApiStep(e) PROVE TypeOK'
  <2> DEFINE S == 0..MaxRetries
  <2>q. queue \in [Events -> [S -> Nat]] /\ 0 \in S
    BY BoundsAssumption DEF TypeOK
  <2> HIDE DEF S
  <2>0. Enqueue(e) => queue' \in [Events -> [S -> Nat]]
    BY <2>q, QueueTyped DEF Enqueue
  <2>1. CASE CreateEvent(e)
    <3>1. eventRow' \in [Events -> EventRow]
      BY <2>1, StatusTyped DEF CreateEvent, Status
    <3> QED BY <2>0, <2>1, <2>q, <3>1 DEF CreateEvent, TypeOK, S
  <2>2. CASE Reindex(e)
    BY <2>0, <2>2 DEF Reindex, TypeOK, S
  <2>3. CASE DeleteRows(e)
    BY <2>3, BoundsAssumption
    DEF DeleteRows, TypeOK, EventRow, Status, FileRow, NoRow, RowSource
  <2>4. CASE RemoveIndexFile(e)
    BY <2>4 DEF RemoveIndexFile, TypeOK
  <2> QED BY <1>api, <2>1, <2>2, <2>3, <2>4 DEF ApiStep
<1>start. ASSUME NEW w \in Workers, StartTask(w) PROVE TypeOK'
  <2> PICK e \in Events, r \in 0..MaxRetries :
        /\ pc[w] = "idle" /\ queue[e][r] > 0
        /\ queue' = [queue EXCEPT ![e][r] = @ - 1]
        /\ \/ UNCHANGED <<eventRow, pc, task>>
           \/ /\ eventRow' = [eventRow EXCEPT ![e].status = "indexing"]
              /\ Continue(w, "list", [task[w] EXCEPT !.event = e, !.retry = r])
    BY <1>start DEF StartTask
  <2> DEFINE S == 0..MaxRetries
  <2>q. queue \in [Events -> [S -> Nat]] /\ r \in S
    BY DEF TypeOK
  <2>1. queue' \in [Events -> [S -> Nat]]
    <3> HIDE DEF S
    <3> QED BY <2>q, QueueTyped
  <2>2. eventRow' \in [Events -> EventRow]
    <3>1. eventRow \in [Events -> EventRow]
      BY DEF TypeOK
    <3>2. [eventRow EXCEPT ![e].status = "indexing"] \in [Events -> EventRow]
      BY StatusTyped DEF Status
    <3> HIDE DEF S
    <3> QED BY <3>1, <3>2
  <2>3. TasksTyped'
    <3>1. CASE UNCHANGED <<pc, task>>
      BY <3>1 DEF TypeOK, TasksTyped
    <3>2. CASE Continue(w, "list", [task[w] EXCEPT !.event = e, !.retry = r])
      <4> DEFINE t == [task[w] EXCEPT !.event = e, !.retry = r]
      <4>1. task[w] \in Task
        BY DEF TypeOK
      <4>2. t \in Task /\ t.event \in Events
        BY <4>1 DEF Task
      <4> QED BY <3>2, <4>2, ContinueTyped DEF PC
    <3> QED BY <3>1, <3>2
  <2> QED BY <1>start, <2>1, <2>2, <2>3 DEF StartTask, TypeOK, TasksTyped
<1>list. ASSUME NEW w \in Workers, ListFiles(w) PROVE TypeOK'
  <2> DEFINE e == task[w].event
  <2> PICK n \in NextFaissIds :
        Continue(w, "plan",
          [task[w] EXCEPT !.nextId = n,
                          !.listing = [f \in Files |->
                                         IF f \in Folder[e] THEN drive[f] ELSE 0]])
    BY <1>list DEF ListFiles
  <2> DEFINE t == [task[w] EXCEPT !.nextId = n,
                          !.listing = [f \in Files |->
                                         IF f \in Folder[e] THEN drive[f] ELSE 0]]
  <2>1. e \in Events /\ Folder[e] \in SUBSET Files
    BY <1>list, FolderAssumption DEF ListFiles, TypeOK
  <2>2. eventRow' \in [Events -> EventRow]
    BY <1>list, <2>1, FileCounts DEF ListFiles, TypeOK, EventRow
  <2>a. [f \in Files |-> IF f \in Folder[e] THEN drive[f] ELSE 0]
          \in [Files -> 0..MaxVersion]
    BY BoundsAssumption DEF TypeOK, Versions
  <2>b. task[w] \in Task /\ n \in Nat
    BY NextFaissIdAbove DEF TypeOK
  <2>3. t \in Task /\ t.event \in Events
    <3> HIDE DEF e
    <3>1. task[w].event = e
      BY DEF e
    <3> QED BY <2>1, <2>a, <2>b, <3>1 DEF Task
  <2>4. TasksTyped'
    BY <2>3, ContinueTyped DEF PC
  <2> QED BY <1>list, <2>2, <2>4 DEF ListFiles, TypeOK, TasksTyped
<1>fails. ASSUME NEW w \in Workers, ListingFails(w) PROVE TypeOK'
  <2>1. task[w].event \in Events /\ task[w].retry \in 0..MaxRetries
    BY <1>fails DEF ListingFails, TypeOK, Task
  <2> DEFINE S == 0..MaxRetries
  <2>q. queue \in [Events -> [S -> Nat]]
        /\ (task[w].retry < MaxRetries => task[w].retry + 1 \in S)
    BY <2>1, BoundsAssumption DEF TypeOK
  <2>2. queue' \in [Events -> [S -> Nat]]
    <3> HIDE DEF S
    <3> QED BY <1>fails, <2>1, <2>q, QueueTyped DEF ListingFails
  <2>3. eventRow' \in [Events -> EventRow]
    BY <1>fails, <2>1, StatusTyped DEF ListingFails, Status
  <2>4. TasksTyped'
    BY <1>fails, EndTaskTyped DEF ListingFails
  <2> QED BY <1>fails, <2>2, <2>3, <2>4 DEF ListingFails, TypeOK, TasksTyped
<1>plan. ASSUME NEW w \in Workers, PlanFiles(w) PROVE TypeOK'
  <2> DEFINE work == {f \in Listed(w) : ~Unsupported(f) /\
                         ~ShouldSkip(task[w].event, f, task[w].listing[f])}
             new == {f \in Listed(w) : driveFile[f] = NoRow}
             t == [task[w] EXCEPT !.todo = work, !.fresh = new,
                                  !.counted = Cardinality(Listed(w) \ work)]
  <2>1. work \in SUBSET Files /\ new \in SUBSET Files
        /\ Listed(w) \ work \in SUBSET Files
    BY DEF Listed
  <2>2. Cardinality(Listed(w) \ work) \in Nat
    BY <2>1, FileCounts
  <2>t. task[w] \in Task /\ task[w].event \in Events
    BY <1>plan DEF PlanFiles, TypeOK
  <2>3. t \in Task /\ t.event \in Events
    <3> HIDE DEF work, new
    <3> QED BY <2>1, <2>2, <2>t DEF Task
  <2>4. Continue(w, "upsert", t)
    BY <1>plan DEF PlanFiles
  <2>5. TasksTyped'
    <3> HIDE DEF t
    <3> QED BY <2>3, <2>4, ContinueTyped DEF PC
  <2> QED BY <1>plan, <2>5 DEF PlanFiles, TypeOK, TasksTyped
<1>upsert. ASSUME NEW w \in Workers, UpsertFiles(w) PROVE TypeOK'
  <2> DEFINE e == task[w].event
             t == [task[w] EXCEPT !.listing = NoTask.listing, !.fresh = {}]
  <2>1. e \in Events /\ task[w].counted \in Nat
        /\ task[w].listing \in [Files -> 0..MaxVersion]
    BY <1>upsert DEF UpsertFiles, TypeOK, Task
  <2>2. ASSUME NEW f \in Files, NEW md5 \in 0..MaxVersion
        PROVE  Upserted(driveFile[f], e, f, md5) \in FileRow
    <3>1. driveFile[f] \in FileRow
      BY DEF TypeOK
    <3>2. Refreshed(driveFile[f], e, md5) \in FileRow
      BY <2>1, <3>1 DEF Refreshed, FileRow
    <3>3. ASSUME NEW row \in FileRow
          PROVE  [row EXCEPT !.count = 0, !.src = "skipped"] \in FileRow
      BY DEF FileRow, RowSource
    <3> QED BY <3>2, <3>3 DEF Upserted
  <2>3. driveFile' \in [Files -> FileRow]
    BY <1>upsert, <2>1, <2>2 DEF UpsertFiles, TypeOK
  <2>4. eventRow' \in [Events -> EventRow]
    BY <1>upsert, <2>1 DEF UpsertFiles, TypeOK, EventRow
  <2>5. t \in Task /\ t.event \in Events
    <3>1. task[w] \in Task /\ NoTask.listing \in [Files -> 0..MaxVersion]
      BY BoundsAssumption DEF TypeOK, NoTask
    <3> QED BY <2>1, <3>1 DEF Task
  <2>6. TasksTyped'
    BY <1>upsert, <2>5, ContinueTyped DEF PC, UpsertFiles
  <2> QED BY <1>upsert, <2>3, <2>4, <2>6 DEF UpsertFiles, TypeOK, TasksTyped
<1>fetch. ASSUME NEW w \in Workers, FetchBatch(w) PROVE TypeOK'
  <2> PICK b \in NextBatches(task[w].todo) : \E got \in [b -> FetchSource] :
        Continue(w, "pass2",
          [task[w] EXCEPT
             !.todo = @ \ b,
             !.batch = {[file |-> f, src |-> got[f], ver |-> drive[f]] : f \in b}])
    BY <1>fetch DEF FetchBatch
  <2> PICK got \in [b -> FetchSource] :
        Continue(w, "pass2",
          [task[w] EXCEPT
             !.todo = @ \ b,
             !.batch = {[file |-> f, src |-> got[f], ver |-> drive[f]] : f \in b}])
    OBVIOUS
  <2> DEFINE got_b == {[file |-> f, src |-> got[f], ver |-> drive[f]] : f \in b}
             t == [task[w] EXCEPT !.todo = @ \ b, !.batch = got_b]
  <2>1. task[w] \in Task /\ task[w].event \in Events
    BY <1>fetch DEF FetchBatch, TypeOK
  <2>2. b \in SUBSET Files
    BY <2>1 DEF NextBatches, Task
  <2>3. got_b \in SUBSET Media
    BY <2>2 DEF TypeOK, Media
  <2>4. t \in Task /\ t.event \in Events
    <3> HIDE DEF got_b
    <3> QED BY <2>1, <2>3 DEF Task
  <2>5. TasksTyped'
    BY <2>4, ContinueTyped DEF PC
  <2> QED BY <1>fetch, <2>5 DEF FetchBatch, TypeOK, TasksTyped
<1>remove. ASSUME NEW w \in Workers, NEW m \in task[w].batch,
                  RemoveOldEmbeddings(w, m)
           PROVE  TypeOK'
  <2> DEFINE e == task[w].event
             kept == Without(IndexOf(w), IdsOf(RowsOf(e, m.file)))
             t == Taken(task[w], m)
  <2>1. e \in Events /\ m \in Media /\ task[w] \in Task
    BY <1>remove DEF RemoveOldEmbeddings, TypeOK, Task
  <2>2. kept \in SUBSET Face
    BY <1>remove, IndexOfType DEF Without, RemoveOldEmbeddings
  <2>3. t \in Task /\ t.event = e /\ t.cur = m
    BY <2>1 DEF Taken, Task
  <2> HIDE DEF t, kept
  <2>4. Cached(t, kept) \in Task /\ Cached(t, kept).event = e
        /\ Cached(t, kept).cur = m
    BY <2>2, <2>3 DEF Cached, Task
  <2>5. ASSUME NEW u \in Task, u.event = e, u.cur = m, FileRaises(w, u)
        PROVE  TasksTyped'
    <3> DEFINE v == [u EXCEPT !.count = 0, !.src = "error"]
    <3>1. v \in Task /\ v.event = e /\ v.cur = m
      BY <2>5 DEF Task, RowSource
    <3> QED BY <2>1, <2>5, <3>1, ContinueTyped DEF FileRaises, PC
  <2>6. ASSUME NEW u \in Task, u.event = e, u.cur = m, Continue(w, "detect", u)
        PROVE  TasksTyped'
    BY <2>1, <2>6, ContinueTyped DEF PC
  <2>7. /\ disk' \in [Events -> SUBSET Face]
        /\ torn' \in SUBSET Events
        /\ saveFailures' \in Nat
        /\ TasksTyped'
    <3>1. CASE FileRaises(w, t) /\ UNCHANGED <<indexVars, saveFailures>>
      BY <2>3, <2>5, <3>1 DEF TypeOK
    <3>2. CASE Continue(w, "detect", t) /\ UNCHANGED <<indexVars, saveFailures>>
      BY <2>3, <2>6, <3>2 DEF TypeOK
    <3>3. CASE Save(e, kept) /\ Continue(w, "detect", Cached(t, kept))
      BY <2>1, <2>2, <2>4, <2>6, <3>3, SaveTyped
    <3>4. CASE SaveRaises(e) /\ FileRaises(w, Cached(t, kept))
      BY <2>1, <2>4, <2>5, <3>4, SaveRaisesTyped
    <3> QED BY <1>remove, <3>1, <3>2, <3>3, <3>4 DEF RemoveOldEmbeddings, t, kept
  <2> QED BY <1>remove, <2>7 DEF RemoveOldEmbeddings, TypeOK, TasksTyped
<1>detect. ASSUME NEW w \in Workers, DetectAndAdd(w) PROVE TypeOK'
  <2> DEFINE e == task[w].event
             tk == task[w]
  <2>1. e \in Events /\ tk \in Task /\ tk.cur \in Media /\ pc[w] # "idle"
    BY <1>detect DEF DetectAndAdd, TypeOK
  <2> PICK d \in Detections(tk.cur) :
        LET new == NewFaces(tk, d)
            grown == IndexOf(w) \cup new
            t == [tk EXCEPT !.del = RowsOf(e, tk.cur.file), !.ins = new,
                            !.nextId = @ + d.count,
                            !.count = d.count, !.src = d.src]
        IN
        \/ /\ Continue(w, "commit", t) /\ UNCHANGED <<indexVars, saveFailures>>
        \/ /\ FileRaises(w, t) /\ UNCHANGED <<indexVars, saveFailures>>
        \/ Save(e, grown) /\ Continue(w, "commit", Cached(t, grown))
        \/ SaveRaises(e) /\ FileRaises(w, Cached(t, grown))
    BY <1>detect DEF DetectAndAdd
  <2> DEFINE new == NewFaces(tk, d)
             grown == IndexOf(w) \cup new
             t == [tk EXCEPT !.del = RowsOf(e, tk.cur.file), !.ins = new,
                             !.nextId = @ + d.count,
                             !.count = d.count, !.src = d.src]
  <2>2. d.count \in Nat /\ d.ver \in Versions /\ d.src \in RowSource
    BY <2>1, DetectionsType
  <2>3. new \in SUBSET Face /\ RowsOf(e, tk.cur.file) \in SUBSET Face
    <3>1. new \in SUBSET Face
      BY <2>1, <2>2, NewFacesType
    <3> QED BY <3>1, <2>1 DEF RowsOf, TypeOK
  <2>4. grown \in SUBSET Face
    BY <2>1, <2>3, IndexOfType
  <2> HIDE DEF new, grown
  <2>5. t \in Task /\ t.event = e /\ t.cur = tk.cur
    <3>1. tk.nextId + d.count \in Nat
      BY <2>1, <2>2 DEF Task
    <3> HIDE DEF tk
    <3>2. tk.event = e
      BY DEF tk
    <3> QED BY <2>1, <2>2, <2>3, <3>1, <3>2 DEF Task
  <2> HIDE DEF t
  <2>6. Cached(t, grown) \in Task /\ Cached(t, grown).event = e
        /\ Cached(t, grown).cur = tk.cur
    BY <2>4, <2>5 DEF Cached, Task
  <2>7. ASSUME NEW u \in Task, u.event = e, u.cur = tk.cur, FileRaises(w, u)
        PROVE  TasksTyped'
    <3> DEFINE v == [u EXCEPT !.count = 0, !.src = "error"]
    <3>1. v \in Task /\ v.event = e /\ v.cur = tk.cur
      BY <2>7 DEF Task, RowSource
    <3> QED BY <2>1, <2>7, <3>1, ContinueTyped DEF FileRaises, PC
  <2>8. ASSUME NEW u \in Task, u.event = e, u.cur = tk.cur, Continue(w, "commit", u)
        PROVE  TasksTyped'
    BY <2>1, <2>8, ContinueTyped DEF PC
  <2>9. /\ disk' \in [Events -> SUBSET Face]
        /\ torn' \in SUBSET Events
        /\ saveFailures' \in Nat
        /\ TasksTyped'
    <3>1. CASE Continue(w, "commit", t) /\ UNCHANGED <<indexVars, saveFailures>>
      BY <2>5, <2>8, <3>1 DEF TypeOK
    <3>2. CASE FileRaises(w, t) /\ UNCHANGED <<indexVars, saveFailures>>
      BY <2>5, <2>7, <3>2 DEF TypeOK
    <3>3. CASE Save(e, grown) /\ Continue(w, "commit", Cached(t, grown))
      BY <2>1, <2>4, <2>6, <2>8, <3>3, SaveTyped
    <3>4. CASE SaveRaises(e) /\ FileRaises(w, Cached(t, grown))
      BY <2>1, <2>6, <2>7, <3>4, SaveRaisesTyped
    <3> QED BY <3>1, <3>2, <3>3, <3>4 DEF new, grown, t
  <2> QED BY <1>detect, <2>9 DEF DetectAndAdd, TypeOK, TasksTyped
<1>commit. ASSUME NEW w \in Workers, CommitFile(w) PROVE TypeOK'
  <2> DEFINE e == task[w].event
             tk == task[w]
             t == [tk EXCEPT !.counted = @ + 1, !.cur = NoMedia, !.count = 0,
                             !.src = "none", !.del = {}, !.ins = {}]
  <2>1. e \in Events /\ tk \in Task /\ tk.cur \in Media
    BY <1>commit DEF CommitFile, TypeOK
  <2>2. tk.count \in Nat /\ tk.src \in RowSource /\ tk.counted \in Nat
        /\ tk.ins \in SUBSET Face /\ tk.cur.file \in Files
    BY <2>1 DEF Task, Media
  <2>3. t \in Task /\ t.event \in Events
    <3>1. tk.counted + 1 \in Nat
      BY <2>2
    <3> HIDE DEF tk
    <3>2. tk.event = e
      BY DEF tk
    <3> QED BY <2>1, <3>1, <3>2 DEF Task, RowSource
  <2> HIDE DEF t
  <2>4. TasksTyped'
    BY <1>commit, <2>3, ContinueTyped DEF CommitFile, PC, t
  <2>5. faceRows' \in [Events -> SUBSET Face]
    BY <1>commit, <2>1, <2>2 DEF CommitFile, TypeOK
  <2>6. driveFile' \in [Files -> FileRow]
    <3> DEFINE f == tk.cur.file
               row == [driveFile[f] EXCEPT !.count = tk.count, !.src = tk.src]
    <3>1. f \in Files /\ driveFile \in [Files -> FileRow]
      BY <2>2 DEF TypeOK
    <3>2. driveFile' = [driveFile EXCEPT ![f] = row]
      BY <1>commit, <3>1 DEF CommitFile
    <3>3. row \in FileRow
      <4> HIDE DEF f, tk
      <4>1. driveFile[f] \in FileRow
        BY <3>1
      <4> QED BY <2>2, <4>1 DEF FileRow
    <3> HIDE DEF f, row
    <3> QED BY <3>1, <3>2, <3>3
  <2>7. eventRow' \in [Events -> EventRow]
    <3>1. tk.counted + 1 \in Nat
      BY <2>2
    <3> QED BY <1>commit, <2>1, <3>1 DEF CommitFile, TypeOK, EventRow
  <2> QED BY <1>commit, <2>4, <2>5, <2>6, <2>7 DEF CommitFile, TypeOK, TasksTyped
<1>finish. ASSUME NEW w \in Workers, Finish(w) PROVE TypeOK'
  <2>1. eventRow' \in [Events -> EventRow]
    <3>1. task[w].event \in Events
      BY <1>finish DEF Finish, TypeOK
    <3> QED BY <1>finish, <3>1, StatusTyped DEF Finish, Status
  <2>2. TasksTyped'
    BY <1>finish, EndTaskTyped DEF Finish
  <2> QED BY <1>finish, <2>1, <2>2 DEF Finish, TypeOK, TasksTyped
<1>abandon. ASSUME NEW w \in Workers, Abandon(w) PROVE TypeOK'
  <2>1. TasksTyped'
    BY <1>abandon, EndTaskTyped DEF Abandon
  <2> QED BY <1>abandon, <2>1 DEF Abandon, TypeOK, TasksTyped
<1>crash. ASSUME NEW w \in Workers, CrashWorker(w) PROVE TypeOK'
  <2>1. TasksTyped'
    BY <1>crash, EndTaskTyped DEF CrashWorker
  <2> QED BY <1>crash, <2>1 DEF CrashWorker, TypeOK, TasksTyped
<1>crashApi. CASE CrashApi
  BY <1>crashApi DEF CrashApi, TypeOK
<1>content. ASSUME NEW f \in Files, ChangeContent(f) PROVE TypeOK'
  <2>1. drive' \in [Files -> Versions]
    BY <1>content, BoundsAssumption DEF ChangeContent, TypeOK, Versions
  <2> QED BY <1>content, <2>1 DEF ChangeContent, TypeOK
<1>stutter. CASE UNCHANGED vars
  BY <1>stutter DEF vars, TypeOK
<1> QED
  BY <1>api, <1>start, <1>list, <1>fails, <1>plan, <1>upsert, <1>fetch, <1>remove,
     <1>detect, <1>commit, <1>finish, <1>abandon, <1>crash, <1>crashApi,
     <1>content, <1>stutter
  DEF Next, WorkerStep, Rest

\* Whatever workers, crashes and failures there are, every variable keeps its
\* type, no running task is without an event, and no file is detected or
\* committed that was not fetched.
THEOREM TypeCorrect == Spec => []TypeOK
<1>1. Init => TypeOK
  BY TypeInit
<1>2. TypeOK /\ [Next]_vars => TypeOK'
  BY TypeStep
<1> QED BY <1>1, <1>2, PTL DEF Spec

-----------------------------------------------------------------------------
(* References: the inductive invariant adds to ReferencesHold that rows are    *)
(* owned by events, that deletion takes the rows before the file, and that a   *)
(* task only inserts faces of the file in hand, which its commit looks up.     *)

OwnersAreEvents ==
  \A f \in Files : driveFile[f] # NoRow => driveFile[f].owner \in Events

RowsGoFirst == \A e \in deleting : eventRow[e].status = "deleted"

InsertsAreOfFile ==
  \A w \in Workers : \A x \in task[w].ins :
    pc[w] = "commit" /\ x.file = task[w].cur.file

RefInv == ReferencesHold /\ OwnersAreEvents /\ RowsGoFirst /\ InsertsAreOfFile

\* It holds of the empty stores.
LEMMA RefInit == Init => RefInv
BY DEF Init, RefInv, ReferencesHold, OwnersAreEvents, RowsGoFirst, InsertsAreOfFile,
       EventExists, NoTask

\* Events stay or go with their rows: no step but a creation or a deletion
\* changes which events exist.
LEMMA RefUnchanged ==
  ASSUME TypeOK, RefInv, UNCHANGED <<driveFile, faceRows>>,
         \A e \in Events : /\ EventExists(e) => EventExists(e)'
                           /\ eventRow[e].status = "deleted" =>
                                eventRow'[e].status = "deleted",
         deleting' \subseteq deleting
  PROVE  OwnersAreEvents' /\ RowsGoFirst' /\ ReferencesHold'
<1>1. OwnersAreEvents'
  BY DEF RefInv, OwnersAreEvents, NoRow
<1>2. RowsGoFirst'
  <2>1. deleting \in SUBSET Events
    BY DEF TypeOK
  <2> QED BY <2>1 DEF RefInv, RowsGoFirst
<1>3. ReferencesHold'
  <2> USE DEF RefInv, ReferencesHold
  <2>1. \A e \in Events : ~EventExists(e)' => ~EventExists(e)
    OBVIOUS
  <2>2. ASSUME NEW e \in Events, ~EventExists(e)' PROVE faceRows'[e] = {}
    BY <2>1, <2>2
  <2>3. ASSUME NEW f \in Files, driveFile'[f] # NoRow
        PROVE  driveFile'[f] = driveFile[f] /\ EventExists(driveFile[f].owner)'
    <3>1. driveFile[f].owner \in Events
      BY <2>3 DEF OwnersAreEvents
    <3> QED BY <2>3, <3>1 DEF EventExists
  <2>4. \A e \in Events : \A r \in faceRows'[e] : driveFile'[r.file] # NoRow
    OBVIOUS
  <2> QED BY <2>2, <2>3, <2>4 DEF EventExists, NoRow
<1> QED BY <1>1, <1>2, <1>3

\* What becomes of the inserts where a worker goes on, and where its task ends.
LEMMA InsertsContinue ==
  ASSUME TypeOK, RefInv, NEW w \in Workers, NEW at, NEW t, Continue(w, at, t),
         \A x \in t.ins : at = "commit" /\ x.file = t.cur.file
  PROVE  InsertsAreOfFile'
BY DEF TypeOK, RefInv, InsertsAreOfFile, Continue

LEMMA InsertsEndTask ==
  ASSUME TypeOK, RefInv, NEW w \in Workers, EndTask(w)
  PROVE  InsertsAreOfFile'
<1>1. NoTask.ins = {}
  BY DEF NoTask
<1> QED BY <1>1, InsertsContinue DEF EndTask

\* A row of a file in hand is still one after its columns are written.
LEMMA RowStays ==
  ASSUME NEW row \in FileRow, row.owner # None
  PROVE  row # NoRow
BY DEF NoRow

\* Every step keeps it.  The steps that touch neither table of files and faces
\* share <1>still; the others are the deletion, the upsert and the commit.
LEMMA RefStep == TypeOK /\ RefInv /\ [Next]_vars => RefInv'
<1> SUFFICES ASSUME TypeOK, RefInv, [Next]_vars PROVE RefInv'
  OBVIOUS
<1> USE DEF dbVars, indexVars, apiVars
<1>create. ASSUME NEW e \in Events, CreateEvent(e) PROVE RefInv'
  <2>1. \A d \in Events : /\ EventExists(d) => EventExists(d)'
                          /\ eventRow[d].status = "deleted" =>
                               eventRow'[d].status = "deleted"
    BY <1>create DEF CreateEvent, TypeOK, EventExists, EventRow
  <2>2. InsertsAreOfFile'
    BY <1>create DEF CreateEvent, RefInv, InsertsAreOfFile
  <2> QED BY <1>create, <2>1, <2>2, RefUnchanged DEF CreateEvent, RefInv
<1>reindex. ASSUME NEW e \in Events, Reindex(e) PROVE RefInv'
  <2>1. InsertsAreOfFile'
    BY <1>reindex DEF Reindex, RefInv, InsertsAreOfFile
  <2> QED BY <1>reindex, <2>1, RefUnchanged DEF Reindex, RefInv, EventExists
<1>delete. ASSUME NEW e \in Events, DeleteRows(e) PROVE RefInv'
  <2>1. /\ \A d \in Events : d # e => /\ eventRow'[d] = eventRow[d]
                                      /\ faceRows'[d] = faceRows[d]
        /\ eventRow'[e].status = "deleted" /\ faceRows'[e] = {}
        /\ deleting' = deleting \cup {e} /\ UNCHANGED <<pc, task>>
        /\ \A f \in Files : driveFile'[f] = IF driveFile[f].owner = e
                                              THEN NoRow ELSE driveFile[f]
    BY <1>delete DEF DeleteRows, TypeOK
  <2>2. OwnersAreEvents' /\ RowsGoFirst' /\ InsertsAreOfFile'
    BY <2>1 DEF RefInv, OwnersAreEvents, RowsGoFirst, InsertsAreOfFile, TypeOK
  <2>3. \A d \in Events : ~EventExists(d)' => faceRows'[d] = {}
    BY <2>1 DEF RefInv, ReferencesHold, EventExists
  <2>4. \A f \in Files : driveFile'[f] # NoRow => EventExists(driveFile[f].owner)'
    BY <2>1 DEF RefInv, ReferencesHold, OwnersAreEvents, EventExists
  <2>5. ASSUME NEW d \in Events, NEW r \in faceRows'[d] PROVE driveFile'[r.file] # NoRow
    <3>1. d # e /\ r \in faceRows[d] /\ r.file \in Files
      BY <2>1, <2>5 DEF TypeOK, Face
    <3>2. driveFile[r.file].owner # e
      BY <1>delete, <3>1 DEF DeleteRows, ReferencedElsewhere, RowsOf
    <3> QED BY <2>1, <3>1, <3>2 DEF RefInv, ReferencesHold
  <2>6. \A f \in Files : driveFile'[f] # NoRow => driveFile'[f] = driveFile[f]
    BY <2>1
  <2> QED BY <2>2, <2>3, <2>4, <2>5, <2>6 DEF RefInv, ReferencesHold, EventExists
<1>file. ASSUME NEW e \in Events, RemoveIndexFile(e) PROVE RefInv'
  <2>1. InsertsAreOfFile'
    BY <1>file DEF RemoveIndexFile, RefInv, InsertsAreOfFile
  <2> QED BY <1>file, <2>1, RefUnchanged DEF RemoveIndexFile, RefInv, EventExists
<1>still. ASSUME NEW w \in Workers, UNCHANGED <<driveFile, faceRows, deleting>>,
                 \/ UNCHANGED eventRow
                 \/ \E e \in Events, s \in {"indexing", "error", "ready"} :
                      /\ EventExists(e)
                      /\ eventRow' = [eventRow EXCEPT ![e].status = s]
                 \/ \E e \in Events, m, n \in Nat :
                      eventRow' = [eventRow EXCEPT ![e].total = m, ![e].indexed = n],
                 InsertsAreOfFile'
          PROVE  RefInv'
  <2>1. \A d \in Events : /\ EventExists(d) => EventExists(d)'
                          /\ eventRow[d].status = "deleted" =>
                               eventRow'[d].status = "deleted"
    <3> SUFFICES ASSUME NEW d \in Events
                 PROVE  \/ eventRow'[d].status = eventRow[d].status
                        \/ EventExists(d) /\ eventRow'[d].status \notin {"none", "deleted"}
      BY DEF EventExists
    <3>1. eventRow \in [Events -> EventRow] /\ eventRow[d] \in EventRow
      BY DEF TypeOK
    <3>2. ASSUME NEW e \in Events, NEW s \in {"indexing", "error", "ready"},
                 EventExists(e), eventRow' = [eventRow EXCEPT ![e].status = s]
          PROVE  \/ eventRow'[d].status = eventRow[d].status
                 \/ EventExists(d) /\ eventRow'[d].status \notin {"none", "deleted"}
      <4>1. d = e => eventRow'[d].status = s
        BY <3>1, <3>2 DEF EventRow
      <4>2. d # e => eventRow'[d] = eventRow[d]
        BY <3>1, <3>2
      <4> QED BY <3>2, <4>1, <4>2
    <3>3. ASSUME NEW e \in Events, NEW m, NEW n,
                 eventRow' = [eventRow EXCEPT ![e].total = m, ![e].indexed = n]
          PROVE  eventRow'[d].status = eventRow[d].status
      BY <3>1, <3>3 DEF EventRow
    <3> QED BY <1>still, <3>2, <3>3
  <2> QED BY <1>still, <2>1, RefUnchanged DEF RefInv
<1>start. ASSUME NEW w \in Workers, StartTask(w) PROVE RefInv'
  <2>1. /\ UNCHANGED <<driveFile, faceRows, deleting>>
        /\ \E e \in Events, r \in 0..MaxRetries :
             \/ UNCHANGED <<eventRow, pc, task>>
             \/ /\ EventExists(e)
                /\ eventRow' = [eventRow EXCEPT ![e].status = "indexing"]
                /\ Continue(w, "list", [task[w] EXCEPT !.event = e, !.retry = r])
    BY <1>start DEF StartTask
  <2>2. pc[w] = "idle" /\ task[w] \in Task
    BY <1>start DEF StartTask, TypeOK
  <2>3. task[w].ins = {}
    BY <2>2 DEF RefInv, InsertsAreOfFile
  <2>4. CASE UNCHANGED <<eventRow, pc, task>>
    <3>1. InsertsAreOfFile'
      BY <2>4 DEF RefInv, InsertsAreOfFile
    <3> QED BY <1>still, <2>1, <2>4, <3>1
  <2>5. ASSUME NEW e \in Events, NEW r, EventExists(e),
               eventRow' = [eventRow EXCEPT ![e].status = "indexing"],
               Continue(w, "list", [task[w] EXCEPT !.event = e, !.retry = r])
        PROVE  RefInv'
    <3>1. [task[w] EXCEPT !.event = e, !.retry = r].ins = {}
      BY <2>2, <2>3 DEF Task
    <3>2. InsertsAreOfFile'
      BY <2>5, <3>1, InsertsContinue
    <3> QED BY <1>still, <2>1, <2>5, <3>2
  <2> QED BY <2>1, <2>4, <2>5
<1>list. ASSUME NEW w \in Workers, ListFiles(w) PROVE RefInv'
  <2> DEFINE e == task[w].event
  <2> PICK n \in NextFaissIds :
        Continue(w, "plan",
          [task[w] EXCEPT !.nextId = n,
                          !.listing = [f \in Files |->
                                         IF f \in Folder[e] THEN drive[f] ELSE 0]])
    BY <1>list DEF ListFiles
  <2>1. e \in Events /\ task[w] \in Task /\ pc[w] = "list"
    BY <1>list DEF ListFiles, TypeOK
  <2>2. Cardinality(Folder[e]) \in Nat
    BY <2>1, FolderAssumption, FileCounts
  <2>3. task[w].ins = {}
    BY <2>1 DEF RefInv, InsertsAreOfFile
  <2>4. InsertsAreOfFile'
    <3> DEFINE t == [task[w] EXCEPT !.nextId = n,
                       !.listing = [f \in Files |->
                                      IF f \in Folder[e] THEN drive[f] ELSE 0]]
    <3>1. t.ins = {}
      BY <2>1, <2>3 DEF Task
    <3> QED BY <3>1, InsertsContinue
  <2> QED BY <1>list, <1>still, <2>1, <2>2, <2>4 DEF ListFiles
<1>fails. ASSUME NEW w \in Workers, ListingFails(w) PROVE RefInv'
  <2>1. task[w].event \in Events /\ InsertsAreOfFile'
    BY <1>fails, InsertsEndTask DEF ListingFails, TypeOK
  <2> QED BY <1>fails, <1>still, <2>1 DEF ListingFails
<1>plan. ASSUME NEW w \in Workers, PlanFiles(w) PROVE RefInv'
  <2> DEFINE work == {f \in Listed(w) : ~Unsupported(f) /\
                         ~ShouldSkip(task[w].event, f, task[w].listing[f])}
             new == {f \in Listed(w) : driveFile[f] = NoRow}
             number == Cardinality(Listed(w) \ work)
             t == [task[w] EXCEPT !.todo = work, !.fresh = new, !.counted = number]
  <2>1. task[w] \in Task /\ pc[w] = "plan" /\ Continue(w, "upsert", t)
    BY <1>plan DEF PlanFiles, TypeOK
  <2> HIDE DEF work, new, number
  <2>2. t.ins = {}
    BY <2>1 DEF Task, RefInv, InsertsAreOfFile
  <2>3. InsertsAreOfFile'
    BY <2>1, <2>2, InsertsContinue
  <2> QED BY <1>plan, <1>still, <2>3 DEF PlanFiles
<1>upsert. ASSUME NEW w \in Workers, UpsertFiles(w) PROVE RefInv'
  <2> DEFINE e == task[w].event
             t == [task[w] EXCEPT !.listing = NoTask.listing, !.fresh = {}]
  <2>1. /\ e \in Events /\ task[w] \in Task /\ pc[w] = "upsert"
        /\ Continue(w, "pass2", t) /\ EventExists(e)
        /\ UNCHANGED <<faceRows, deleting>>
        /\ driveFile' = [f \in Files |->
                           IF f \in Listed(w)
                             THEN Upserted(driveFile[f], e, f, task[w].listing[f])
                             ELSE driveFile[f]]
    BY <1>upsert DEF UpsertFiles, TypeOK
  <2>2. t.ins = {}
    BY <2>1 DEF Task, RefInv, InsertsAreOfFile
  <2> HIDE DEF t
  <2>3. InsertsAreOfFile'
    BY <2>1, <2>2, InsertsContinue
  <2>4. \A d \in Events : eventRow'[d].status = eventRow[d].status
    BY <1>upsert, <2>1 DEF UpsertFiles, TypeOK, EventRow
  <2>5. ASSUME NEW f \in Files
        PROVE  driveFile'[f].owner = e \/ driveFile'[f] = driveFile[f]
    <3>1. driveFile[f] \in FileRow
      BY DEF TypeOK
    <3>2. Upserted(driveFile[f], e, f, task[w].listing[f]).owner = e
      BY <3>1 DEF Upserted, Refreshed, FileRow
    <3> QED BY <2>1, <3>2
  <2>6. OwnersAreEvents' /\ RowsGoFirst'
    <3>1. deleting \in SUBSET Events
      BY DEF TypeOK
    <3> QED BY <2>1, <2>4, <2>5, <3>1 DEF RefInv, OwnersAreEvents, RowsGoFirst, NoRow
  <2>7. ReferencesHold'
    <3>1. \A d \in Events : eventRow'[d].status \in {"none", "deleted"} => faceRows'[d] = {}
      BY <2>1, <2>4 DEF RefInv, ReferencesHold, EventExists
    <3>2. ASSUME NEW f \in Files, driveFile'[f] # NoRow
          PROVE  eventRow'[driveFile'[f].owner].status \notin {"none", "deleted"}
      <4>1. CASE driveFile'[f].owner = e
        BY <2>1, <2>4, <4>1 DEF EventExists
      <4>2. CASE driveFile'[f] = driveFile[f]
        <5>1. driveFile[f].owner \in Events /\ EventExists(driveFile[f].owner)
          BY <3>2, <4>2 DEF RefInv, ReferencesHold, OwnersAreEvents
        <5> QED BY <2>4, <4>2, <5>1 DEF EventExists
      <4> QED BY <2>5, <4>1, <4>2
    <3>3. ASSUME NEW d \in Events, NEW r \in faceRows'[d] PROVE driveFile'[r.file] # NoRow
      <4>1. r.file \in Files /\ driveFile[r.file] # NoRow
        BY <2>1, <3>3 DEF RefInv, ReferencesHold, TypeOK, Face
      <4> QED BY <2>1, <2>5, <4>1, NoneAssumption DEF NoRow
    <3> QED BY <3>1, <3>2, <3>3 DEF ReferencesHold, EventExists, NoRow
  <2> QED BY <2>3, <2>6, <2>7 DEF RefInv
<1>fetch. ASSUME NEW w \in Workers, FetchBatch(w) PROVE RefInv'
  <2>1. pc[w] = "pass2" /\ task[w] \in Task
    BY <1>fetch DEF FetchBatch, TypeOK
  <2>2. \E todo, batch :
          Continue(w, "pass2", [task[w] EXCEPT !.todo = todo, !.batch = batch])
    BY <1>fetch DEF FetchBatch
  <2>3. InsertsAreOfFile'
    <3> PICK todo, batch :
          Continue(w, "pass2", [task[w] EXCEPT !.todo = todo, !.batch = batch])
      BY <2>2
    <3>1. [task[w] EXCEPT !.todo = todo, !.batch = batch].ins = {}
      BY <2>1 DEF Task, RefInv, InsertsAreOfFile
    <3> QED BY <3>1, InsertsContinue
  <2> QED BY <1>fetch, <1>still, <2>3 DEF FetchBatch
<1>remove. ASSUME NEW w \in Workers, NEW m \in task[w].batch,
                  RemoveOldEmbeddings(w, m)
           PROVE  RefInv'
  <2> DEFINE kept == Without(IndexOf(w), IdsOf(RowsOf(task[w].event, m.file)))
             t == Taken(task[w], m)
  <2>1. pc[w] = "pass2" /\ task[w] \in Task
    BY <1>remove DEF RemoveOldEmbeddings, TypeOK
  <2>2. \E at \in {"detect", "commit"} : \E u \in {t, Cached(t, kept)} :
          \/ Continue(w, at, u)
          \/ Continue(w, at, [u EXCEPT !.count = 0, !.src = "error"])
    BY <1>remove DEF RemoveOldEmbeddings, FileRaises
  <2>3. ASSUME NEW u \in {t, Cached(t, kept)}
        PROVE  u.ins = {} /\ [u EXCEPT !.count = 0, !.src = "error"].ins = {}
    BY <2>1 DEF Task, Taken, Cached, RefInv, InsertsAreOfFile
  <2> HIDE DEF t, kept
  <2>4. InsertsAreOfFile'
    BY <2>2, <2>3, InsertsContinue
  <2> QED BY <1>remove, <1>still, <2>4 DEF RemoveOldEmbeddings
<1>detect. ASSUME NEW w \in Workers, DetectAndAdd(w) PROVE RefInv'
  <2> DEFINE e == task[w].event
             tk == task[w]
  <2>1. tk \in Task /\ tk.cur \in Media
    BY <1>detect DEF DetectAndAdd, TypeOK
  <2> PICK d \in Detections(tk.cur) :
        LET new == NewFaces(tk, d)
            grown == IndexOf(w) \cup new
            t == [tk EXCEPT !.del = RowsOf(e, tk.cur.file), !.ins = new,
                            !.nextId = @ + d.count,
                            !.count = d.count, !.src = d.src]
        IN \E u \in {t, Cached(t, grown)} :
             \/ Continue(w, "commit", u)
             \/ Continue(w, "commit", [u EXCEPT !.count = 0, !.src = "error"])
    BY <1>detect DEF DetectAndAdd, FileRaises
  <2> DEFINE new == NewFaces(tk, d)
             grown == IndexOf(w) \cup new
             n == tk.nextId + d.count
             old == RowsOf(e, tk.cur.file)
             t == [tk EXCEPT !.del = old, !.ins = new, !.nextId = n,
                             !.count = d.count, !.src = d.src]
  <2>2. \A x \in new : x.file = tk.cur.file
    BY DEF NewFaces
  <2>3. \E u \in {t, Cached(t, grown)} :
          \/ Continue(w, "commit", u)
          \/ Continue(w, "commit", [u EXCEPT !.count = 0, !.src = "error"])
    OBVIOUS
  <2> HIDE DEF new, grown, n, old
  <2>4. ASSUME NEW u \in {t, Cached(t, grown)}
        PROVE  /\ u.ins = new /\ u.cur = tk.cur
               /\ [u EXCEPT !.count = 0, !.src = "error"].ins = new
               /\ [u EXCEPT !.count = 0, !.src = "error"].cur = tk.cur
    <3>1. t.ins = new /\ t.cur = tk.cur
      BY <2>1 DEF Task
    <3>2. Cached(t, grown).ins = t.ins /\ Cached(t, grown).cur = t.cur
      BY <2>1 DEF Cached, Task
    <3> HIDE DEF t
    <3>3. u.ins = new /\ u.cur = tk.cur
      BY <3>1, <3>2
    <3> QED BY <2>1, <3>3 DEF Cached
  <2> HIDE DEF t
  <2>5. InsertsAreOfFile'
    BY <2>2, <2>3, <2>4, InsertsContinue
  <2> QED BY <1>detect, <1>still, <2>5 DEF DetectAndAdd
<1>commit. ASSUME NEW w \in Workers, CommitFile(w) PROVE RefInv'
  <2> DEFINE e == task[w].event
             tk == task[w]
             f == tk.cur.file
             n == tk.counted + 1
             t == [tk EXCEPT !.counted = n, !.cur = NoMedia, !.count = 0,
                             !.src = "none", !.del = {}, !.ins = {}]
  <2>1. /\ e \in Events /\ tk \in Task /\ f \in Files /\ pc[w] = "commit"
        /\ EventExists(e) /\ driveFile[f] # NoRow
        /\ Continue(w, "pass2", t) /\ UNCHANGED deleting
        /\ faceRows' = [faceRows EXCEPT ![e] = (@ \ tk.del) \cup tk.ins]
        /\ driveFile' = [driveFile EXCEPT ![f].count = tk.count, ![f].src = tk.src]
        /\ eventRow' = [eventRow EXCEPT ![e].indexed = n]
    BY <1>commit DEF CommitFile, TypeOK, Media
  <2> HIDE DEF n
  <2>2. t.ins = {}
    BY <2>1 DEF Task
  <2> HIDE DEF t
  <2>3. InsertsAreOfFile'
    BY <2>1, <2>2, InsertsContinue
  <2>4. \A d \in Events : eventRow'[d].status = eventRow[d].status
    BY <2>1 DEF TypeOK, EventRow
  <2>5. ASSUME NEW g \in Files
        PROVE  driveFile'[g].owner = driveFile[g].owner /\ (driveFile[g] = NoRow => driveFile'[g] = NoRow)
    <3>1. driveFile \in [Files -> FileRow] /\ driveFile[g] \in FileRow
      BY DEF TypeOK
    <3>2. CASE g = f
      BY <2>1, <3>1, <3>2 DEF FileRow
    <3>3. CASE g # f
      BY <2>1, <3>1, <3>3
    <3> QED BY <3>2, <3>3
  <2>6. \A g \in Files : driveFile[g] # NoRow => driveFile'[g] # NoRow
    BY <2>5, NoneAssumption DEF RefInv, OwnersAreEvents, NoRow
  <2>7. OwnersAreEvents' /\ RowsGoFirst'
    <3>1. deleting \in SUBSET Events
      BY DEF TypeOK
    <3>2. RowsGoFirst'
      BY <2>1, <2>4, <3>1 DEF RefInv, RowsGoFirst
    <3>3. ASSUME NEW g \in Files, driveFile'[g] # NoRow PROVE driveFile'[g].owner \in Events
      BY <2>5, <3>3 DEF RefInv, OwnersAreEvents
    <3> QED BY <3>2, <3>3 DEF OwnersAreEvents, NoRow
  <2>8. ReferencesHold'
    <3>1. \A d \in Events : eventRow'[d].status \in {"none", "deleted"} => faceRows'[d] = {}
      BY <2>1, <2>4 DEF RefInv, ReferencesHold, EventExists, TypeOK
    <3>2. ASSUME NEW g \in Files, driveFile'[g] # NoRow
          PROVE  eventRow'[driveFile'[g].owner].status \notin {"none", "deleted"}
      <4>1. driveFile[g].owner \in Events /\ EventExists(driveFile[g].owner)
        BY <2>5, <3>2 DEF RefInv, ReferencesHold, OwnersAreEvents
      <4> QED BY <2>4, <2>5, <4>1 DEF EventExists
    <3>3. ASSUME NEW d \in Events, NEW r \in faceRows'[d] PROVE driveFile'[r.file] # NoRow
      <4>1. r \in faceRows[d] \/ r \in tk.ins
        BY <2>1, <3>3 DEF TypeOK
      <4>2. r \in tk.ins => r.file = f
        BY DEF RefInv, InsertsAreOfFile
      <4>3. r \in faceRows[d] => r.file \in Files /\ driveFile[r.file] # NoRow
        BY DEF RefInv, ReferencesHold, TypeOK, Face
      <4> QED BY <2>1, <2>6, <4>1, <4>2, <4>3
    <3> QED BY <3>1, <3>2, <3>3 DEF ReferencesHold, EventExists, NoRow
  <2> QED BY <2>3, <2>7, <2>8 DEF RefInv
<1>finish. ASSUME NEW w \in Workers, Finish(w) PROVE RefInv'
  <2>1. task[w].event \in Events /\ InsertsAreOfFile'
    BY <1>finish, InsertsEndTask DEF Finish, TypeOK
  <2> QED BY <1>finish, <1>still, <2>1 DEF Finish
<1>abandon. ASSUME NEW w \in Workers, Abandon(w) \/ CrashWorker(w) PROVE RefInv'
  <2>1. InsertsAreOfFile'
    BY <1>abandon, InsertsEndTask DEF Abandon, CrashWorker
  <2> QED BY <1>abandon, <1>still, <2>1 DEF Abandon, CrashWorker
<1>crashApi. ASSUME CrashApi PROVE RefInv'
  <2>1. InsertsAreOfFile'
    BY <1>crashApi DEF CrashApi, RefInv, InsertsAreOfFile
  <2> QED BY <1>crashApi, <2>1, RefUnchanged DEF CrashApi, RefInv, EventExists
<1>same. ASSUME \/ UNCHANGED vars
                \/ \E f \in Files : ChangeContent(f)
         PROVE  RefInv'
  <2>1. InsertsAreOfFile'
    BY <1>same DEF ChangeContent, vars, RefInv, InsertsAreOfFile
  <2> QED BY <1>same, <2>1, RefUnchanged DEF ChangeContent, vars, RefInv, EventExists
<1> QED
  BY <1>create, <1>reindex, <1>delete, <1>file, <1>start, <1>list, <1>fails, <1>plan,
     <1>upsert, <1>fetch, <1>remove, <1>detect, <1>commit, <1>finish, <1>abandon,
     <1>crashApi, <1>same
  DEF Next, WorkerStep, ApiStep, Rest

\* The inductive invariant holds, with any number of workers, crashes and failures.
THEOREM RefInvCorrect == Spec => []RefInv
<1>1. TypeOK /\ RefInv /\ [Next]_vars => RefInv'
  BY RefStep
<1> QED BY <1>1, RefInit, TypeCorrect, PTL DEF Spec

\* However many workers race with deletions, and whatever crashes: no row of a
\* deleted event is left, and no face of a file that has no row.
THEOREM ReferencesAlwaysHold == Spec => []ReferencesHold
<1>1. RefInv => ReferencesHold
  BY DEF RefInv
<1> QED BY <1>1, RefInvCorrect, PTL

\* A step that is not the deletion of e nor a step of a task of e leaves the rows
\* and the index file of e alone.
LEMMA OthersStep ==
  ASSUME TypeOK, RefInv, [Next]_vars, NEW e \in Events,
         faceRows'[e] # faceRows[e] \/ disk'[e] # disk[e]
  PROVE  \/ eventRow'[e].status = "deleted"
         \/ \E w \in Workers : task[w].event = e /\ pc'[w] # pc[w]
<1> USE DEF dbVars, indexVars, apiVars
<1> DEFINE Goal == \/ eventRow'[e].status = "deleted"
                   \/ \E w \in Workers : task[w].event = e /\ pc'[w] # pc[w]
<1>1. ASSUME NEW d \in Events, DeleteRows(d) PROVE Goal
  BY <1>1 DEF DeleteRows, TypeOK
<1>2. ASSUME NEW d \in Events, RemoveIndexFile(d) PROVE Goal
  BY <1>2 DEF RemoveIndexFile, TypeOK, RefInv, RowsGoFirst
<1>3. ASSUME NEW w \in Workers, NEW m \in task[w].batch, RemoveOldEmbeddings(w, m)
      PROVE  Goal
  <2>1. pc'[w] # pc[w]
    BY <1>3 DEF RemoveOldEmbeddings, FileRaises, Continue, TypeOK
  <2>2. task[w].event = e
    BY <1>3 DEF RemoveOldEmbeddings, Save, SaveRaises, TypeOK
  <2> QED BY <2>1, <2>2
<1>4. ASSUME NEW w \in Workers, DetectAndAdd(w) PROVE Goal
  <2>1. pc'[w] # pc[w]
    BY <1>4 DEF DetectAndAdd, FileRaises, Continue, TypeOK
  <2>2. /\ UNCHANGED faceRows
        /\ \/ UNCHANGED disk
           \/ \E index : disk' = [disk EXCEPT ![task[w].event] = index]
    BY <1>4 DEF DetectAndAdd, Save, SaveRaises
  <2>3. task[w].event = e
    BY <2>2 DEF TypeOK
  <2> QED BY <2>1, <2>3
<1>5. ASSUME NEW w \in Workers, CommitFile(w) PROVE Goal
  <2>1. pc'[w] # pc[w]
    BY <1>5 DEF CommitFile, Continue, TypeOK
  <2>2. task[w].event = e
    BY <1>5 DEF CommitFile, TypeOK
  <2> QED BY <2>1, <2>2
<1>6. CASE UNCHANGED <<faceRows, disk>>
  BY <1>6
<1>7. ASSUME NEW w \in Workers,
             \/ StartTask(w) \/ ListFiles(w) \/ ListingFails(w) \/ PlanFiles(w)
             \/ UpsertFiles(w) \/ FetchBatch(w) \/ Finish(w) \/ Abandon(w)
             \/ CrashWorker(w)
      PROVE  UNCHANGED <<faceRows, disk>>
  BY <1>7 DEF StartTask, ListFiles, ListingFails, PlanFiles, UpsertFiles, FetchBatch,
              Finish, Abandon, CrashWorker
<1>8. ASSUME NEW d \in Events, CreateEvent(d) \/ Reindex(d)
      PROVE  UNCHANGED <<faceRows, disk>>
  BY <1>8 DEF CreateEvent, Reindex
<1>9. ASSUME \/ CrashApi \/ UNCHANGED vars
             \/ \E f \in Files : ChangeContent(f)
      PROVE  UNCHANGED <<faceRows, disk>>
  BY <1>9 DEF CrashApi, vars, ChangeContent
<1> QED BY <1>1, <1>2, <1>3, <1>4, <1>5, <1>6, <1>7, <1>8, <1>9
        DEF Next, WorkerStep, ApiStep, Rest

\* Events that share Drive files never touch each other's faces, whatever
\* workers, crashes, failures and deletions there are.
THEOREM OthersAlwaysKeepTheirFaces == Spec => OthersKeepTheirFaces
<1>1. TypeOK /\ RefInv /\ [Next]_vars =>
        [\A e \in Events :
           faceRows'[e] # faceRows[e] \/ disk'[e] # disk[e] =>
             \/ eventRow'[e].status = "deleted"
             \/ \E w \in Workers : task[w].event = e /\ pc'[w] # pc[w]]_vars
  BY OthersStep
<1> QED BY <1>1, TypeCorrect, RefInvCorrect, PTL DEF Spec, OthersKeepTheirFaces
=============================================================================
