------------------------------ MODULE Indexing ------------------------------
(***************************************************************************)
(* The indexing of event folders (backend/app/workers/indexing_task.py):   *)
(* the API creates, reindexes and deletes events, Celery workers run       *)
(* index_drive_folder tasks, and each task keeps two stores in step that   *)
(* no transaction spans: the database (events, drive_files,                *)
(* face_embeddings) and one vector index file per event, written whole by  *)
(* the FAISSIndexManager each task creates for itself.                     *)
(*                                                                         *)
(* One action is one span of the code between two commits, two index saves *)
(* or two Drive calls.  A face is a record of its faiss_id, its file and   *)
(* the version of the file's content it was found in: the same record is   *)
(* the row in face_embeddings and the vector in the index.                 *)
(*                                                                         *)
(* A definition named ...Bug is a faulty variant of the one after it: with *)
(* it in place, a property has to fail.                                    *)
(***************************************************************************)
EXTENDS Integers, FiniteSets

CONSTANTS
  Events,              \* event ids (uuid4, never used again after deletion)
  Files,               \* Drive file ids
  Workers,             \* processes that run tasks: Celery children, dev API
  None,                \* NULL
  Folder,              \* Folder[e]: the files of e's Drive folder
  Kind,                \* Kind[f]: what the mime type of f says
  Faces,               \* Faces[f][v]: faces found in version v at full size
  ThumbFaces,          \* ThumbFaces[f][v]: faces found in its thumbnail
  UseThumbnails,       \* settings.index_images_from_thumbnails
  BatchSize,           \* PROCESS_BATCH_SIZE
  MaxRetries,          \* max_retries of the Celery task (0: development mode)
  MaxVersion,          \* bound: contents a Drive file takes
  MaxRequests,         \* bound: create and reindex requests
  MaxCrashes,          \* bound: processes killed
  MaxSaveFailures      \* bound: writes of an index file that fail

Versions == 1..MaxVersion

ASSUME FinitenessAssumption == IsFiniteSet(Files)
ASSUME NoneAssumption == None \notin Events /\ None \notin Files
ASSUME FolderAssumption == Folder \in [Events -> SUBSET Files]
ASSUME KindAssumption == Kind \in [Files -> {"image", "video", "other"}]
ASSUME FacesAssumption == /\ Faces \in [Files -> [Versions -> Nat]]
                          /\ ThumbFaces \in [Files -> [Versions -> Nat]]
ASSUME SettingsAssumption == UseThumbnails \in BOOLEAN /\ BatchSize \in Nat \ {0}
ASSUME BoundsAssumption ==
  /\ MaxRetries \in Nat
  /\ MaxVersion \in Nat \ {0}
  /\ MaxRequests \in Nat
  /\ MaxCrashes \in Nat
  /\ MaxSaveFailures \in Nat

VARIABLES
  eventRow,      \* events: status, files_total, files_indexed
  driveFile,     \* drive_files: one row per file, whichever event indexed it
  faceRows,      \* face_embeddings, by event_id
  disk,          \* the vectors that loading an event's index file returns
  torn,          \* events whose index file is half written: loading raises
  deleting,      \* events whose rows are deleted and whose file is not yet
  queue,         \* the broker: number of messages, by event and retry count
  drive,         \* the version of each file's content on Google Drive
  requests, crashes, saveFailures,      \* what is used of the bounds
  pc,            \* where each worker is in _index_drive_folder
  task           \* each worker's local state: lost when it ends or dies

dbVars == <<eventRow, driveFile, faceRows>>
indexVars == <<disk, torn>>
apiVars == <<deleting, requests>>
vars == <<dbVars, indexVars, apiVars, queue, drive, crashes, saveFailures,
          pc, task>>

Face == [id : Nat, file : Files, ver : Versions]

Status == {"none", "pending", "indexing", "ready", "error", "deleted"}
EventRow == [status : Status, total : Nat, indexed : Nat]

\* src abstracts quality_flags: "full" is a source that starts with
\* full_download (with the current detector), "none" a NULL, which is also the
\* one case of a NULL indexed_at.
RowSource == {"none", "thumbnail", "full", "error", "skipped"}
FileRow == [owner : Events \cup {None}, md5 : 0..MaxVersion, count : Nat,
            src : RowSource]
NoRow == [owner |-> None, md5 |-> 0, count |-> 0, src |-> "none"]

\* What _fetch_media returned for a file: from where, or an exception.
FetchSource == {"thumbnail", "full", "failed"}
Media == [file : Files, src : FetchSource, ver : Versions]
NoMedia == [file |-> None, src |-> "none", ver |-> 0]

PC == {"idle", "list", "plan", "upsert", "pass2", "detect", "commit"}

Task ==
  [event : Events \cup {None}, retry : 0..MaxRetries,
   listing : [Files -> 0..MaxVersion],      \* md5Checksum by file, 0: not listed
   fresh : SUBSET Files,                    \* files pass 1 found no row for
   todo : SUBSET Files,                     \* to_process, not yet in a batch
   batch : SUBSET Media,                    \* fetched, not yet processed
   counted : Nat,                           \* the session's event.files_indexed
   nextId : Nat,                            \* next_faiss_id
   loaded : BOOLEAN, mem : SUBSET Face,     \* the task's copy of the index
   cur : Media \cup {NoMedia},              \* the file in hand and, of its
   count : Nat, src : RowSource,            \* open transaction, the columns,
   del : SUBSET Face, ins : SUBSET Face]    \* rows deleted and rows added

NoTask ==
  [event |-> None, retry |-> 0, listing |-> [f \in Files |-> 0], fresh |-> {},
   todo |-> {}, batch |-> {}, counted |-> 0, nextId |-> 0, loaded |-> FALSE,
   mem |-> {}, cur |-> NoMedia, count |-> 0, src |-> "none", del |-> {},
   ins |-> {}]

Init ==
  /\ eventRow = [e \in Events |-> [status |-> "none", total |-> 0, indexed |-> 0]]
  /\ driveFile = [f \in Files |-> NoRow]
  /\ faceRows = [e \in Events |-> {}]
  /\ disk = [e \in Events |-> {}]
  /\ torn = {}
  /\ deleting = {}
  /\ queue = [e \in Events |-> [r \in 0..MaxRetries |-> 0]]
  /\ drive = [f \in Files |-> 1]
  /\ requests = 0 /\ crashes = 0 /\ saveFailures = 0
  /\ pc = [w \in Workers |-> "idle"]
  /\ task = [w \in Workers |-> NoTask]

-----------------------------------------------------------------------------
(* Helpers *)

EventExists(e) == eventRow[e].status \notin {"none", "deleted"}

IdsOf(S) == {x.id : x \in S}

\* The embeddings THIS event has of a file.
RowsOf(e, f) == {r \in faceRows[e] : r.file = f}

\* _next_faiss_id: one more than the largest faiss_id of the whole table.
AllIds == UNION {IdsOf(faceRows[e]) : e \in Events}
LargestIdBug == {n \in {1} \cup AllIds : \A i \in AllIds : i <= n}
NextFaissIds ==
  {n \in {1} \cup {i + 1 : i \in AllIds} : \A i \in AllIds : i < n}

\* FAISSIndexManager.get_or_create_index: the copy in memory, else the file.
IndexOf(w) == IF task[w].loaded THEN task[w].mem ELSE disk[task[w].event]
Unreadable(w) == ~task[w].loaded /\ task[w].event \in torn

\* _save_index: the file is truncated and written in place, so a write that
\* fails leaves either the old file (it did not open) or half of the new one.
OneFileBug(e, index) ==
  /\ disk' = [d \in Events |-> index]
  /\ torn' = torn \ {e}
  /\ UNCHANGED saveFailures
Save(e, index) ==
  /\ disk' = [disk EXCEPT ![e] = index]
  /\ torn' = torn \ {e}
  /\ UNCHANGED saveFailures
SaveRaises(e) ==
  /\ saveFailures < MaxSaveFailures
  /\ saveFailures' = saveFailures + 1
  /\ \/ UNCHANGED indexVars
     \/ /\ disk' = [disk EXCEPT ![e] = {}]
        /\ torn' = torn \cup {e}

\* Worker w goes on at `at` with the local state t.
Continue(w, at, t) ==
  /\ pc' = [pc EXCEPT ![w] = at]
  /\ task' = [task EXCEPT ![w] = t]

\* The task returns or raises: its session and its manager go with it.
EndTask(w) == Continue(w, "idle", NoTask)

-----------------------------------------------------------------------------
(* The API: events *)

Enqueue(e) == queue' = [queue EXCEPT ![e][0] = @ + 1]

\* create_event, with the broker up or down.
CreateEvent(e) ==
  /\ eventRow[e].status = "none"
  /\ requests < MaxRequests
  /\ requests' = requests + 1
  /\ \/ /\ eventRow' = [eventRow EXCEPT ![e].status = "pending"]
        /\ Enqueue(e)
     \/ /\ eventRow' = [eventRow EXCEPT ![e].status = "error"]
        /\ UNCHANGED queue
  /\ UNCHANGED <<driveFile, faceRows, indexVars, deleting, drive, crashes,
                 saveFailures, pc, task>>

\* reindex_event asks nothing of the status: another task of e may be queued
\* or running.
Reindex(e) ==
  /\ EventExists(e)
  /\ requests < MaxRequests
  /\ requests' = requests + 1
  /\ Enqueue(e)
  /\ UNCHANGED <<dbVars, indexVars, deleting, drive, crashes, saveFailures, pc,
                 task>>

\* The foreign keys that would refuse the deletion: rows of another event for
\* a file whose drive_files row is e's.
NoForeignKeyBug(e) == FALSE
ReferencedElsewhere(e) ==
  \E f \in Files : /\ driveFile[f].owner = e
                   /\ \E d \in Events \ {e} : RowsOf(d, f) # {}

\* A task of e that has deleted rows and not committed holds their locks.
RowsLocked(e) ==
  \E w \in Workers : task[w].event = e /\ task[w].del # {}

\* delete_event up to its commit; when the database refuses, nothing changes.
DeleteRows(e) ==
  /\ EventExists(e)
  /\ ~ReferencedElsewhere(e)
  /\ ~RowsLocked(e)
  /\ eventRow' = [eventRow EXCEPT
                    ![e] = [status |-> "deleted", total |-> 0, indexed |-> 0]]
  /\ faceRows' = [faceRows EXCEPT ![e] = {}]
  /\ driveFile' = [f \in Files |->
                     IF driveFile[f].owner = e THEN NoRow ELSE driveFile[f]]
  /\ deleting' = deleting \cup {e}
  /\ UNCHANGED <<indexVars, requests, queue, drive, crashes, saveFailures, pc,
                 task>>

\* delete_event after its commit: a new manager's delete_index.
RemoveIndexFile(e) ==
  /\ e \in deleting
  /\ deleting' = deleting \ {e}
  /\ disk' = [disk EXCEPT ![e] = {}]
  /\ torn' = torn \ {e}
  /\ UNCHANGED <<dbVars, requests, queue, drive, crashes, saveFailures, pc, task>>

-----------------------------------------------------------------------------
(* A task: start and pass 1 *)

\* A worker takes a message.  The broker forgets it at once (no acks_late).
StartTask(w) ==
  /\ pc[w] = "idle"
  /\ \E e \in Events, r \in 0..MaxRetries :
       /\ queue[e][r] > 0
       /\ queue' = [queue EXCEPT ![e][r] = @ - 1]
       /\ \/ /\ ~EventExists(e)
             /\ UNCHANGED <<eventRow, pc, task>>
          \/ /\ EventExists(e)
             /\ eventRow' = [eventRow EXCEPT ![e].status = "indexing"]
             /\ Continue(w, "list", [task[w] EXCEPT !.event = e, !.retry = r])
  /\ UNCHANGED <<driveFile, faceRows, indexVars, apiVars, drive, crashes,
                 saveFailures>>

\* list_files answers: the totals are committed and the next id is read.
ListFiles(w) ==
  LET e == task[w].event IN
  /\ pc[w] = "list"
  /\ EventExists(e)
  /\ eventRow' = [eventRow EXCEPT ![e].total = Cardinality(Folder[e]),
                                  ![e].indexed = 0]
  /\ \E n \in NextFaissIds :
       Continue(w, "plan",
         [task[w] EXCEPT !.nextId = n,
                         !.listing = [f \in Files |->
                                        IF f \in Folder[e] THEN drive[f] ELSE 0]])
  /\ UNCHANGED <<driveFile, faceRows, indexVars, apiVars, queue, drive, crashes,
                 saveFailures>>

\* list_files raises: ERROR is committed and the task is retried, if it may be.
ListingFails(w) ==
  LET e == task[w].event
      r == task[w].retry IN
  /\ pc[w] = "list"
  /\ EventExists(e)
  /\ eventRow' = [eventRow EXCEPT ![e].status = "error"]
  /\ queue' = IF r < MaxRetries THEN [queue EXCEPT ![e][r + 1] = @ + 1] ELSE queue
  /\ EndTask(w)
  /\ UNCHANGED <<driveFile, faceRows, indexVars, apiVars, drive, crashes,
                 saveFailures>>

\* drive_file and existing are one object, so the checksum that should_skip
\* compares is the one the upsert has just written.
Refreshed(row, e, md5) == [row EXCEPT !.owner = e, !.md5 = md5]

ZeroFacesConfirmed(row) == row.count = 0 /\ row.src = "full"
AnyEventBug(row, e, f) == row.count > 0
HasEmbeddingsForEvent(row, e, f) == row.count > 0 /\ RowsOf(e, f) # {}

ShouldSkip(e, f, md5) ==
  LET existing == Refreshed(driveFile[f], e, md5) IN
  /\ driveFile[f] # NoRow
  /\ existing.md5 = md5
  /\ existing.src # "none"
  /\ \/ ZeroFacesConfirmed(existing)
     \/ HasEmbeddingsForEvent(existing, e, f) /\ existing.src = "full"

Listed(w) == {f \in Files : task[w].listing[f] # 0}
Unsupported(f) == Kind[f] = "other"

\* Pass 1 reads the rows of the listed files and decides what needs work.
PlanFiles(w) ==
  LET e == task[w].event
      listing == task[w].listing
      work == {f \in Listed(w) : ~Unsupported(f) /\ ~ShouldSkip(e, f, listing[f])}
  IN
  /\ pc[w] = "plan"
  /\ Continue(w, "upsert",
       [task[w] EXCEPT !.todo = work,
                       !.fresh = {f \in Listed(w) : driveFile[f] = NoRow},
                       !.counted = Cardinality(Listed(w) \ work)])
  /\ UNCHANGED <<dbVars, indexVars, apiVars, queue, drive, crashes, saveFailures>>

Upserted(row, e, f, md5) ==
  IF Unsupported(f)
    THEN [Refreshed(row, e, md5) EXCEPT !.count = 0, !.src = "skipped"]
    ELSE Refreshed(row, e, md5)

\* The commit of pass 1 inserts the new rows and gives every listed file to e.
UpsertFiles(w) ==
  LET e == task[w].event
      listing == task[w].listing IN
  /\ pc[w] = "upsert"
  /\ EventExists(e)
  /\ \A f \in Listed(w) : f \in task[w].fresh <=> driveFile[f] = NoRow
  /\ driveFile' = [f \in Files |-> IF f \in Listed(w)
                                     THEN Upserted(driveFile[f], e, f, listing[f])
                                     ELSE driveFile[f]]
  /\ eventRow' = [eventRow EXCEPT ![e].indexed = task[w].counted]
  /\ Continue(w, "pass2",
       [task[w] EXCEPT !.listing = NoTask.listing, !.fresh = {}])
  /\ UNCHANGED <<faceRows, indexVars, apiVars, queue, drive, crashes,
                 saveFailures>>

-----------------------------------------------------------------------------
(* A task: pass 2 *)

FetchResults(f) ==
  IF Kind[f] = "image" /\ UseThumbnails THEN FetchSource
                                        ELSE FetchSource \ {"thumbnail"}

NextBatches(S) ==
  {b \in SUBSET S : /\ b # {}
                    /\ \/ Cardinality(b) = BatchSize
                       \/ b = S /\ Cardinality(S) < BatchSize}

\* asyncio.gather over a batch: every file of it is fetched before any of them
\* is processed.
FetchBatch(w) ==
  /\ pc[w] = "pass2"
  /\ task[w].batch = {}
  /\ \E b \in NextBatches(task[w].todo) :
       \E got \in [b -> FetchSource] :
         /\ \A f \in b : got[f] \in FetchResults(f)
         /\ Continue(w, "pass2",
              [task[w] EXCEPT
                 !.todo = @ \ b,
                 !.batch = {[file |-> f, src |-> got[f], ver |-> drive[f]] : f \in b}])
  /\ UNCHANGED <<dbVars, indexVars, apiVars, queue, drive, crashes, saveFailures>>

\* The except clause of a file: flagged, counted as zero faces, and committed
\* with whatever the session already holds.
FlagKeptBug(w, t) == Continue(w, "commit", [t EXCEPT !.count = 0])
TriedAgainBug(w, t) ==
  Continue(w, "pass2", [t EXCEPT !.batch = @ \cup {t.cur}, !.cur = NoMedia])
FileRaises(w, t) ==
  Continue(w, "commit", [t EXCEPT !.count = 0, !.src = "error"])

NotInHandBug(t, m) == [t EXCEPT !.batch = @ \ {m}]
OneOfBatchBug(t, m) == [t EXCEPT !.batch = {}, !.cur = m]
Taken(t, m) == [t EXCEPT !.batch = @ \ {m}, !.cur = m]
StaleCopyBug(t, index) == [t EXCEPT !.loaded = TRUE]
Cached(t, index) == [t EXCEPT !.loaded = TRUE, !.mem = index]

NothingRemovedBug(index, ids) == index
Without(index, ids) == {v \in index : v.id \notin ids}

\* The file's old vectors leave the index, and the index file, before its old
\* rows leave the database.
RemoveOldEmbeddings(w, m) ==
  LET e == task[w].event
      old == IdsOf(RowsOf(e, m.file))
      kept == Without(IndexOf(w), old)
      t == Taken(task[w], m) IN
  /\ pc[w] = "pass2"
  /\ m \in task[w].batch
  /\ \/ /\ m.src = "failed" \/ (old # {} /\ Unreadable(w))
        /\ FileRaises(w, t)
        /\ UNCHANGED <<indexVars, saveFailures>>
     \/ /\ m.src # "failed" /\ old = {}
        /\ Continue(w, "detect", t)
        /\ UNCHANGED <<indexVars, saveFailures>>
     \/ /\ m.src # "failed" /\ old # {} /\ ~Unreadable(w)
        /\ \/ Save(e, kept) /\ Continue(w, "detect", Cached(t, kept))
           \/ SaveRaises(e) /\ FileRaises(w, Cached(t, kept))
  /\ UNCHANGED <<dbVars, apiVars, queue, drive, crashes>>

\* What the pipeline finds in the media in hand, or that it raises.  An image
\* whose thumbnail shows no face is downloaded once more at full size, and its
\* row only says so when that finds a face.
Detections(m) ==
  LET full(v) == [src |-> "full", ver |-> v, count |-> Faces[m.file][v]]
      thumb == [src |-> "thumbnail", ver |-> m.ver,
                count |-> ThumbFaces[m.file][m.ver]]
      again == full(drive[m.file])
      raised == [src |-> "error", ver |-> m.ver, count |-> 0]
      found == IF m.src # "thumbnail" THEN full(m.ver)
               ELSE IF thumb.count > 0 \/ again.count = 0 THEN thumb
               ELSE again
  IN {raised, found}

NewFaces(t, d) ==
  {[id |-> n, file |-> t.cur.file, ver |-> d.ver] :
     n \in t.nextId..(t.nextId + d.count - 1)}

\* The old rows are deleted (not committed), the faces are detected, their rows
\* are added to the session and their vectors to the index file.
DetectAndAdd(w) ==
  LET e == task[w].event IN
  /\ pc[w] = "detect"
  /\ \E d \in Detections(task[w].cur) :
       LET new == NewFaces(task[w], d)
           grown == IndexOf(w) \cup new
           t == [task[w] EXCEPT !.del = RowsOf(e, task[w].cur.file), !.ins = new,
                                !.nextId = @ + d.count,
                                !.count = d.count, !.src = d.src]
       IN
       \/ /\ d.count = 0
          /\ Continue(w, "commit", t)
          /\ UNCHANGED <<indexVars, saveFailures>>
       \/ /\ d.count > 0 /\ Unreadable(w)
          /\ FileRaises(w, t)
          /\ UNCHANGED <<indexVars, saveFailures>>
       \/ /\ d.count > 0 /\ ~Unreadable(w)
          /\ \/ Save(e, grown) /\ Continue(w, "commit", Cached(t, grown))
             \/ SaveRaises(e) /\ FileRaises(w, Cached(t, grown))
  /\ UNCHANGED <<dbVars, apiVars, queue, drive, crashes>>

\* The unique constraint on faiss_id, over the rows of every event.
IdsClash(w) ==
  \E e \in Events :
    \E r \in faceRows[e] \ (IF e = task[w].event THEN task[w].del ELSE {}) :
      r.id \in IdsOf(task[w].ins)

\* One transaction per file: its rows, its columns and the progress counter.
CommitFile(w) ==
  LET e == task[w].event
      t == task[w] IN
  /\ pc[w] = "commit"
  /\ EventExists(e)
  /\ driveFile[t.cur.file] # NoRow
  /\ ~IdsClash(w)
  /\ faceRows' = [faceRows EXCEPT ![e] = (@ \ t.del) \cup t.ins]
  /\ driveFile' = [driveFile EXCEPT ![t.cur.file].count = t.count,
                                    ![t.cur.file].src = t.src]
  /\ eventRow' = [eventRow EXCEPT ![e].indexed = t.counted + 1]
  /\ Continue(w, "pass2", [t EXCEPT !.counted = @ + 1, !.cur = NoMedia,
                                    !.count = 0, !.src = "none",
                                    !.del = {}, !.ins = {}])
  /\ UNCHANGED <<indexVars, apiVars, queue, drive, crashes, saveFailures>>

Finish(w) ==
  LET e == task[w].event IN
  /\ pc[w] = "pass2"
  /\ task[w].batch = {} /\ task[w].todo = {}
  /\ EventExists(e)
  /\ eventRow' = [eventRow EXCEPT ![e].status = "ready"]
  /\ EndTask(w)
  /\ UNCHANGED <<driveFile, faceRows, indexVars, apiVars, queue, drive, crashes,
                 saveFailures>>

-----------------------------------------------------------------------------
(* What ends a task early *)

\* The next flush of w's session fails: an UPDATE finds no row (the event or
\* the file was deleted) or an INSERT breaks a constraint.
FlushFails(w) ==
  LET e == task[w].event IN
  \/ pc[w] \in {"list", "upsert", "commit"} /\ ~EventExists(e)
  \/ /\ pc[w] = "pass2" /\ task[w].batch = {} /\ task[w].todo = {}
     /\ ~EventExists(e)
  \/ /\ pc[w] = "upsert"
     /\ \E f \in Listed(w) : f \in task[w].fresh <=> driveFile[f] # NoRow
  \/ /\ pc[w] = "commit"
     /\ driveFile[task[w].cur.file] = NoRow \/ IdsClash(w)

\* The outer except then commits a session that must first be rolled back: that
\* raises too, so neither ERROR nor a retry is ever recorded.
Abandon(w) ==
  /\ FlushFails(w)
  /\ EndTask(w)
  /\ UNCHANGED <<dbVars, indexVars, apiVars, queue, drive, crashes, saveFailures>>

\* A worker process is killed; the message was acknowledged when it was taken.
CrashWorker(w) ==
  /\ pc[w] # "idle"
  /\ crashes < MaxCrashes
  /\ crashes' = crashes + 1
  /\ EndTask(w)
  /\ UNCHANGED <<dbVars, indexVars, apiVars, queue, drive, saveFailures>>

\* The API process is killed between delete_event's commit and delete_index.
CrashApi ==
  /\ deleting # {}
  /\ crashes < MaxCrashes
  /\ crashes' = crashes + 1
  /\ deleting' = {}
  /\ UNCHANGED <<dbVars, indexVars, requests, queue, drive, saveFailures, pc,
                 task>>

\* The owner of the folder replaces the content of a file.
ChangeContent(f) ==
  /\ drive[f] < MaxVersion
  /\ drive' = [drive EXCEPT ![f] = @ + 1]
  /\ UNCHANGED <<dbVars, indexVars, apiVars, queue, crashes, saveFailures, pc,
                 task>>

-----------------------------------------------------------------------------
WorkerStep(w) ==
  \/ StartTask(w)
  \/ ListFiles(w)
  \/ ListingFails(w)
  \/ PlanFiles(w)
  \/ UpsertFiles(w)
  \/ FetchBatch(w)
  \/ \E m \in task[w].batch : RemoveOldEmbeddings(w, m)
  \/ DetectAndAdd(w)
  \/ CommitFile(w)
  \/ Finish(w)
  \/ Abandon(w)

ApiStep(e) ==
  \/ CreateEvent(e)
  \/ Reindex(e)
  \/ DeleteRows(e)
  \/ RemoveIndexFile(e)

Quiescent ==
  /\ \A w \in Workers : pc[w] = "idle"
  /\ \A e \in Events : \A r \in 0..MaxRetries : queue[e][r] = 0
  /\ deleting = {}

\* Nothing is left to do and no request comes: not a deadlock.
Rest == Quiescent /\ UNCHANGED vars

Next ==
  \/ \E w \in Workers : WorkerStep(w)
  \/ \E e \in Events : ApiStep(e)
  \/ \E w \in Workers : CrashWorker(w)
  \/ CrashApi
  \/ \E f \in Files : ChangeContent(f)
  \/ Rest

Spec == Init /\ [][Next]_vars

\* A live worker process goes on with its task and takes the next message; the
\* API finishes the request it is in.
FairSpec ==
  /\ Spec
  /\ \A w \in Workers : WF_vars(WorkerStep(w))
  /\ \A e \in Events : WF_vars(RemoveIndexFile(e))

-----------------------------------------------------------------------------
(* Properties *)

\* Every variable keeps its type, a worker that is not idle has an event, and it
\* has a file in hand from the removal of its old vectors to its commit.
TypeOK ==
  /\ eventRow \in [Events -> EventRow]
  /\ driveFile \in [Files -> FileRow]
  /\ faceRows \in [Events -> SUBSET Face]
  /\ disk \in [Events -> SUBSET Face]
  /\ torn \in SUBSET Events
  /\ deleting \in SUBSET Events
  /\ queue \in [Events -> [0..MaxRetries -> Nat]]
  /\ drive \in [Files -> Versions]
  /\ requests \in Nat /\ crashes \in Nat /\ saveFailures \in Nat
  /\ pc \in [Workers -> PC]
  /\ task \in [Workers -> Task]
  /\ \A w \in Workers : pc[w] # "idle" => task[w].event \in Events
  /\ \A w \in Workers : pc[w] \in {"detect", "commit"} => task[w].cur \in Media

WorkedOn(e) == \E w \in Workers : task[w].event = e

\* With one worker, no crash and no failed save: whenever no task works on an
\* event, its index file holds exactly the vectors of its rows.  This is the
\* FAISS_GAP_CHECK of scripts/diagnose_recall.py, and more: not only the
\* numbers agree.
StoresAgree ==
  \A e \in Events :
    eventRow[e].status # "deleted" /\ ~WorkedOn(e) => disk[e] = faceRows[e]

\* A match is looked up by its faiss_id (search/router.py).  An id that is in
\* the index file and in the rows of an event stands for the same face in both,
\* also in the middle of a task: a search never returns a photo of someone else.
NoCrossWiring ==
  \A e \in Events : \A v \in disk[e], r \in faceRows[e] : v.id = r.id => v = r

\* Why these two hold, one worker at a time: the inductive invariant of the
\* proofs.  An id stands for one row of an event; an event that is not there has
\* no rows; at rest the stores agree; and in a task
\*   - the copy of the index in memory is what the file holds,
\*   - the file lacks the old faces of the file in hand once they are removed,
\*     and holds its new ones once they are added, before the rows do,
\*   - the ids it gives out are above those of all rows,
\*   - the drive_files rows it will update are the event's, so that only the
\*     deletion of the event itself can make its commits fail.
RowIdsUnique ==
  \A e \in Events : \A r, s \in faceRows[e] : r.id = s.id => r = s

MissingHasNothing ==
  \A e \in Events : /\ ~EventExists(e) => faceRows[e] = {}
                    /\ eventRow[e].status = "none" => disk[e] = {}
                    /\ e \in deleting => eventRow[e].status = "deleted"

AgreeAtRest ==
  \A e \in Events : EventExists(e) /\ ~WorkedOn(e) => disk[e] = faceRows[e]

TaskAgrees(w) ==
  LET e == task[w].event
      t == task[w] IN
  EventExists(e) =>
    /\ t.loaded => t.mem = disk[e]
    /\ pc[w] \in {"list", "plan", "upsert", "pass2"} => disk[e] = faceRows[e]
    /\ pc[w] = "detect" => disk[e] = faceRows[e] \ RowsOf(e, t.cur.file)
    /\ pc[w] = "commit" => disk[e] = (faceRows[e] \ t.del) \cup t.ins

TaskIdsNew(w) ==
  LET t == task[w] IN
  /\ pc[w] # "commit" => t.del = {} /\ t.ins = {}
  /\ pc[w] \in {"plan", "upsert", "pass2", "detect", "commit"} =>
       \A e \in Events : \A r \in faceRows[e] : r.id < t.nextId
  /\ pc[w] = "commit" =>
       \A x \in t.ins : /\ x.id < t.nextId
                        /\ \A y \in t.ins : x.id = y.id => x = y
                        /\ \A e \in Events : \A r \in faceRows[e] : r.id < x.id

TaskOwnsFiles(w) ==
  LET e == task[w].event
      t == task[w]
      mine(f) == driveFile[f].owner = e IN
  /\ pc[w] \in {"list", "plan", "upsert"} => t.batch = {}
  /\ pc[w] = "upsert" => t.todo \subseteq Listed(w)
  /\ EventExists(e) /\ pc[w] \in {"pass2", "detect", "commit"} =>
       /\ \A f \in t.todo : mine(f)
       /\ \A m \in t.batch : mine(m.file)
       /\ pc[w] # "pass2" => mine(t.cur.file)

TaskInv(w) ==
  /\ pc[w] = "idle" => task[w] = NoTask
  /\ pc[w] # "idle" => /\ eventRow[task[w].event].status # "none"
                       /\ TaskAgrees(w)
                       /\ TaskIdsNew(w)
                       /\ TaskOwnsFiles(w)

SerialInv ==
  /\ torn = {}
  /\ RowIdsUnique
  /\ MissingHasNothing
  /\ AgreeAtRest
  /\ \A w \in Workers : TaskInv(w)

\* Why READY can be believed, one worker at a time, whatever is killed and whatever
\* fails: the inductive invariant of the proofs.  The files of a task's folder are
\* counted, or pending: still to fetch, fetched, or in hand.
InPass2(w) == pc[w] \in {"pass2", "detect", "commit"}
FilesOf(media) == {m.file : m \in media}
FileInHand(w) == IF pc[w] \in {"detect", "commit"} THEN {task[w].cur.file} ELSE {}
Pending(w) == task[w].todo \cup FilesOf(task[w].batch) \cup FileInHand(w)

\* The event of a task is INDEXING until the task writes another status or the
\* event is deleted, its columns are the counts of the session, and its files are
\* its own.
TaskIsOpen(w) ==
  LET e == task[w].event IN
  /\ eventRow[e].status \in {"indexing", "deleted"}
  /\ EventExists(e) =>
       /\ pc[w] # "list" => eventRow[e].total = Cardinality(Folder[e])
       /\ InPass2(w) => /\ eventRow[e].indexed = task[w].counted
                        /\ \A f \in Folder[e] : driveFile[f].owner = e

TaskCounts(w) ==
  LET e == task[w].event
      t == task[w] IN
  /\ IsFiniteSet(t.batch)
  /\ ~InPass2(w) => t.batch = {}
  /\ pc[w] \in {"plan", "upsert"} => Listed(w) = Folder[e]
  /\ pc[w] = "upsert" => t.counted + Cardinality(t.todo) = Cardinality(Folder[e])
  /\ InPass2(w) =>
       t.counted + Cardinality(t.todo) + Cardinality(t.batch)
         + Cardinality(FileInHand(w)) = Cardinality(Folder[e])

\* READY is only ever written over a complete count: the organizer's progress
\* (files_indexed of files_total) stands at its end.
ReadyIsComplete ==
  \A e \in Events :
    eventRow[e].status = "ready" => eventRow[e].indexed = eventRow[e].total

CountInv ==
  /\ ReadyIsComplete
  /\ \A w \in Workers :
       /\ pc[w] = "idle" => task[w] = NoTask
       /\ pc[w] # "idle" => TaskIsOpen(w) /\ TaskCounts(w)

\* A file whose embeddings stick is not pending, and no other file is left out.
Sticks(e, f) ==
  /\ driveFile[f].src = "full"
  /\ driveFile[f].count = 0 \/ RowsOf(e, f) # {}
TaskPlans(w) ==
  LET e == task[w].event
      t == task[w] IN
  /\ FileInHand(w) \cap (t.todo \cup FilesOf(t.batch)) = {}
  /\ t.todo \cap FilesOf(t.batch) = {}
  /\ \A m, n \in t.batch : m.file = n.file => m = n
  /\ pc[w] = "upsert" \/ InPass2(w) =>
       \A f \in Pending(w) : /\ f \in Folder[e] /\ ~Unsupported(f)
                             /\ RowsOf(e, f) # {} => driveFile[f].src # "full"
  /\ pc[w] = "upsert" =>
       \A f \in Folder[e] \ t.todo :
         \/ Unsupported(f)
         \/ /\ f \notin t.fresh
            /\ EventExists(e) /\ driveFile[f] # NoRow => Sticks(e, f)

\* S is what detecting one version of f at full size gives.
WholeOf(f, S) == \E v \in Versions : /\ Cardinality(S) = Faces[f][v]
                                     /\ \A r \in S : r.ver = v

\* The open transaction replaces all rows of the file by all faces of one version,
\* or says that it does not.
TaskReplaces(w) ==
  LET t == task[w]
      f == t.cur.file IN
  /\ \A m \in t.batch : m.src = "thumbnail" => UseThumbnails
  /\ pc[w] = "detect" => (t.cur.src = "thumbnail" => UseThumbnails)
  /\ pc[w] # "commit" => t.del = {} /\ t.ins = {}
  /\ pc[w] = "commit" =>
       /\ t.src \in {"full", "thumbnail", "error"}
       /\ \/ t.del = RowsOf(t.event, f)
          \/ t.del = {} /\ t.ins = {} /\ t.src = "error"
       /\ t.src = "full" => WholeOf(f, t.ins) /\ t.count = Cardinality(t.ins)
       /\ \/ t.ins = {} \/ WholeOf(f, t.ins)
          \/ UseThumbnails /\ t.src # "full"
       /\ \A x, y \in t.ins : x.id = y.id => x = y

\* A zero is a finding, and rows are whole unless they are flagged.  The flag is of
\* the file, not of the event: only where no two events share files, or none is
\* embedded from a thumbnail, does it speak of the event's own rows.
ZeroIsFound ==
  \A f \in Files : driveFile[f].src = "full" /\ driveFile[f].count = 0
                    => WholeOf(f, {})
RowsAreWhole ==
  \A e \in Events : \A f \in Files : RowsOf(e, f) # {} =>
    /\ f \in Folder[e] /\ ~Unsupported(f)
    /\ \/ WholeOf(f, RowsOf(e, f))
       \/ UseThumbnails /\ driveFile[f].src \in {"error", "thumbnail"}

FileAccountedFor(e, f) ==
  \/ Unsupported(f)
  \/ driveFile[f].src \in {"error", "thumbnail"}
  \/ WholeOf(f, RowsOf(e, f))
TaskAccounts(w) ==
  LET e == task[w].event IN
  InPass2(w) /\ EventExists(e) =>
    \A f \in Folder[e] \ Pending(w) : FileAccountedFor(e, f)

\* READY can be believed, one worker at a time, whatever is killed: the count of a
\* task adds up at every step, rows are whole or flagged, a zero was found, and what a
\* task is not to touch any more is accounted for.
ReadyInv ==
  /\ CountInv
  /\ ZeroIsFound /\ RowsAreWhole
  /\ \A w \in Workers :
       pc[w] # "idle" => TaskPlans(w) /\ TaskReplaces(w) /\ TaskAccounts(w)

\* Crashes and failed saves leave the two stores apart, but a later task that
\* ends in READY has mended what it does not flag: the vector of every row of
\* an unflagged file is in the index file, if that can be read at all.
SearchableUnlessFlagged ==
  \A e \in Events :
    eventRow[e].status = "ready" /\ ~WorkedOn(e) /\ e \notin torn =>
      \A r \in faceRows[e] : driveFile[r.file].src # "error" => r \in disk[e]

\* Why what is not flagged can be found again: the vectors of a row that sticks are
\* in the index file, if that can be read, and in the copy of the task that has
\* loaded it; so are those of the rows a task is done with, and of those it adds.
Kept(e, r) == e \in torn \/ r \in disk[e]
StickingIsKept ==
  \A e \in Events : \A r \in faceRows[e] :
    driveFile[r.file].src = "full" => Kept(e, r)
TaskKeeps(w) ==
  LET e == task[w].event
      t == task[w]
      done(r) == /\ InPass2(w) /\ r.file \notin Pending(w)
                 /\ driveFile[r.file].src # "error"
  IN
  /\ \A r \in faceRows[e] :
       driveFile[r.file].src = "full" \/ done(r) =>
         Kept(e, r) /\ (t.loaded => r \in t.mem)
  /\ pc[w] = "commit" /\ EventExists(e) /\ t.src # "error" =>
       \A x \in t.ins : Kept(e, x) /\ (t.loaded => x \in t.mem)
\* What is not flagged can be found, one worker at a time, in folders that share no
\* file: the skip rules never leave out a file whose vectors a crash or a failed save
\* took, and no removal by ids takes those of another file.
SearchInv ==
  /\ SearchableUnlessFlagged
  /\ RowIdsUnique
  /\ StickingIsKept
  /\ \A w \in Workers : pc[w] # "idle" => TaskKeeps(w)

\* When a task ends in READY, each photo and video of the folder is flagged as
\* failed or as thumbnail quality, or has one row for every face of one version
\* of it, whatever the skip rules left out and whatever other events did with
\* the same Drive file.
ReadyAccountsForEveryFile ==
  [][\A e \in Events :
       (\E w \in Workers : task[w].event = e /\ Finish(w)) =>
         \A f \in Folder[e] : FileAccountedFor(e, f)]_vars

\* The faces of an event, in the rows and in the index file, only ever change in
\* its own deletion or by a task of its own: events that share a Drive file keep
\* their own embeddings and vectors.
OthersKeepTheirFaces ==
  [][\A e \in Events :
       faceRows'[e] # faceRows[e] \/ disk'[e] # disk[e] =>
         \/ eventRow'[e].status = "deleted"
         \/ \E w \in Workers : task[w].event = e /\ pc'[w] # pc[w]]_vars

\* No row is left of a deleted event, and no face of a file without a row,
\* although deletions race with tasks that have loaded those rows.
ReferencesHold ==
  /\ \A e \in Events : ~EventExists(e) => faceRows[e] = {}
  /\ \A f \in Files : driveFile[f] # NoRow => EventExists(driveFile[f].owner)
  /\ \A e \in Events : \A r \in faceRows[e] : driveFile[r.file] # NoRow

\* An embedding is no older than the checksum its file is listed under: what
\* should_skip compares is the content that was indexed.
ChecksumDescribesRows ==
  \A e \in Events :
    eventRow[e].status = "ready" /\ ~WorkedOn(e) =>
      \A r \in faceRows[e] :
        driveFile[r.file].src # "error" => r.ver >= driveFile[r.file].md5

\* Every task ends: no worker is held for ever, whatever is deleted under it.
TasksEnd == \A w \in Workers : pc[w] # "idle" ~> pc[w] = "idle"

\* An event that waits for its indexing, or is in it, gets an answer: the
\* dashboard does not poll for ever.
IndexingEnds ==
  \A e \in Events : eventRow[e].status \in {"pending", "indexing"}
                      ~> eventRow[e].status \in {"ready", "error", "deleted"}

-----------------------------------------------------------------------------
(* The album this implements *)

\* One worker, no crash and no failed save: an event that is not ready is open,
\* and the file in hand is the one whose vectors have left the index or entered
\* it before the rows follow.
LifeOf(e) ==
  IF eventRow[e].status \in {"none", "ready", "deleted"} THEN eventRow[e].status
                                                         ELSE "open"

HandOf(e) ==
  LET inHand == {w \in Workers :
                   /\ task[w].event = e /\ EventExists(e)
                   /\ \/ pc[w] = "detect"
                      \/ pc[w] = "commit" /\ task[w].del \cup task[w].ins # {}}
  IN IF inHand = {} THEN None ELSE task[CHOOSE w \in inHand : TRUE].cur.file

Album == INSTANCE FaceAlbum WITH
  life <- [e \in Events |-> LifeOf(e)],
  owner <- [f \in Files |-> driveFile[f].owner],
  rows <- faceRows,
  index <- disk,
  hand <- [e \in Events |-> HandOf(e)]

\* The indexing task, one at a time and without crashes, implements the album:
\* whatever tasks, deletions and changes of content come, the two stores of a
\* live event differ by one file at most, and not at all while it is READY.
ImplementsAlbum == Album!Spec

=============================================================================
