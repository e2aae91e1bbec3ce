------------------------ MODULE IndexingSerialProofs ------------------------
(***************************************************************************)
(* One task at a time, and no crash or failed save: the two stores of an   *)
(* event agree whenever no task works on it, no id is cross-wired, and the *)
(* indexing task implements FaceAlbum, for every number of events, files,  *)
(* faces, requests and retries.                                            *)
(***************************************************************************)
EXTENDS IndexingProofs

\* The conditions under which the stores agree: one worker process, no process
\* killed, no write of an index file that fails.
Serial ==
  /\ \A v, w \in Workers : v = w
  /\ MaxCrashes = 0 /\ MaxSaveFailures = 0

\* The parts of the state that SerialInv speaks of.
invVars == <<eventRow, driveFile, faceRows, disk, torn, deleting, pc, task>>

\* A step that leaves them leaves the invariant.
LEMMA InvUnchanged == SerialInv /\ UNCHANGED invVars => SerialInv'
BY DEF SerialInv, invVars, RowIdsUnique, MissingHasNothing, AgreeAtRest, TaskInv,
       TaskAgrees, TaskIdsNew, TaskOwnsFiles, EventExists, WorkedOn, RowsOf, Listed

\* Where the only worker goes on, and which events are then worked on.
LEMMA OnlyWorkerContinues ==
  ASSUME TypeOK, Serial, NEW w \in Workers, NEW at, NEW t, Continue(w, at, t)
  PROVE  /\ pc'[w] = at /\ task'[w] = t
         /\ \A e \in Events : WorkedOn(e)' <=> t.event = e
BY DEF Continue, TypeOK, Serial, WorkedOn

\* An event is worked on exactly when it is the event of the only worker.
LEMMA OnlyWorkerWorks ==
  ASSUME Serial, NEW w \in Workers
  PROVE  /\ \A e \in Events : WorkedOn(e) <=> task[w].event = e
         /\ \A v \in Workers : v = w
BY DEF Serial, WorkedOn

\* Nothing fails under Serial.
LEMMA NothingRaises ==
  ASSUME TypeOK, Serial, SerialInv, NEW w \in Workers
  PROVE  /\ ~Unreadable(w)
         /\ \A e \in Events : ~SaveRaises(e)
         /\ ~CrashWorker(w) /\ ~CrashApi
BY DEF TypeOK, Serial, SerialInv, Unreadable, SaveRaises, CrashWorker, CrashApi

\* Statuses that change between "pending", "indexing", "ready" and "error" leave
\* events existing and missing events without anything.
LEMMA StatusChanges ==
  ASSUME TypeOK, NEW e \in Events, EventExists(e),
         NEW row, row.status \notin {"none", "deleted"},
         eventRow' = [eventRow EXCEPT ![e] = row]
  PROVE  /\ \A d \in Events : EventExists(d)' <=> EventExists(d)
         /\ \A d \in Events :
              eventRow[d].status \in {"none", "deleted"} \/ eventRow'[d].status \in {"none", "deleted"}
                => eventRow'[d].status = eventRow[d].status
BY DEF TypeOK, EventExists

\* The ids of the rows of a file are the ids of no other rows of the event.
LEMMA WithoutRemoves ==
  ASSUME RowIdsUnique, NEW e \in Events, NEW f
  PROVE  Without(faceRows[e], IdsOf(RowsOf(e, f))) = faceRows[e] \ RowsOf(e, f)
BY DEF RowIdsUnique, Without, IdsOf, RowsOf

\* A step of the only worker keeps the invariant if it keeps these parts.
LEMMA OnlyTaskMatters ==
  ASSUME Serial, NEW w \in Workers, torn' = {}, RowIdsUnique', MissingHasNothing',
         AgreeAtRest', TaskInv(w)'
  PROVE  SerialInv'
BY OnlyWorkerWorks DEF SerialInv

\* Nothing is stored at first.
LEMMA SerialInit == Init => SerialInv
<1> SUFFICES ASSUME Init PROVE SerialInv
  OBVIOUS
<1>1. torn = {} /\ RowIdsUnique /\ MissingHasNothing /\ AgreeAtRest
  BY DEF Init, RowIdsUnique, MissingHasNothing, AgreeAtRest, EventExists
<1>2. ASSUME NEW w \in Workers PROVE TaskInv(w)
  BY DEF Init, TaskInv
<1> QED BY <1>1, <1>2 DEF SerialInv

\* The API creates, reindexes and deletes, also in the middle of a task.
LEMMA ApiKeepsInv ==
  ASSUME TypeOK, Serial, SerialInv, NEW e \in Events, ApiStep(e)
  PROVE  SerialInv'
<1> USE DEF dbVars, indexVars, apiVars
<1>create. CASE CreateEvent(e)
  <2>1. \A w \in Workers : task[w].event # e
    BY <1>create, NoneAssumption
    DEF CreateEvent, SerialInv, TaskInv, NoTask
  <2>2. UNCHANGED <<driveFile, faceRows, disk, torn, deleting, pc, task>>
    BY <1>create DEF CreateEvent
  <2>3. /\ \A d \in Events : d # e => eventRow'[d] = eventRow[d]
        /\ eventRow[e].status = "none"
        /\ eventRow'[e].status \in {"pending", "error"}
    BY <1>create DEF CreateEvent, TypeOK, EventRow
  <2>4. RowIdsUnique' /\ torn' = {}
    BY <2>2 DEF SerialInv, RowIdsUnique
  <2>5. MissingHasNothing'
    BY <2>2, <2>3 DEF SerialInv, MissingHasNothing, EventExists
  <2>6. AgreeAtRest'
    <3>1. disk[e] = {} /\ faceRows[e] = {}
      BY <2>3 DEF SerialInv, MissingHasNothing, EventExists
    <3> QED BY <2>2, <2>3, <3>1 DEF SerialInv, AgreeAtRest, EventExists, WorkedOn
  <2>7. ASSUME NEW w \in Workers PROVE TaskInv(w)'
    <3>1. task'[w] = task[w] /\ pc'[w] = pc[w] /\ TaskInv(w)
      BY <2>2 DEF SerialInv
    <3>2. CASE pc[w] = "idle"
      BY <3>1, <3>2 DEF TaskInv
    <3>3. CASE pc[w] # "idle"
      <4>1. task[w].event \in Events /\ eventRow'[task[w].event] = eventRow[task[w].event]
        BY <2>1, <2>3, <3>3 DEF TypeOK
      <4>2. TaskAgrees(w)'
        BY <2>2, <3>1, <3>3, <4>1 DEF TaskInv, TaskAgrees, EventExists, RowsOf
      <4>3. TaskIdsNew(w)'
        BY <2>2, <3>1, <3>3 DEF TaskInv, TaskIdsNew
      <4>4. TaskOwnsFiles(w)'
        BY <2>2, <3>1, <3>3, <4>1 DEF TaskInv, TaskOwnsFiles, EventExists, Listed
      <4> QED BY <3>1, <3>3, <4>1, <4>2, <4>3, <4>4 DEF TaskInv
    <3> QED BY <3>2, <3>3
  <2> QED BY <2>4, <2>5, <2>6, <2>7 DEF SerialInv
<1>reindex. CASE Reindex(e)
  BY <1>reindex, InvUnchanged DEF Reindex, invVars
<1>delete. CASE DeleteRows(e)
  <2>1. /\ \A d \in Events : d # e => /\ eventRow'[d] = eventRow[d]
                                      /\ faceRows'[d] = faceRows[d]
        /\ eventRow'[e].status = "deleted" /\ faceRows'[e] = {}
        /\ EventExists(e)
    BY <1>delete DEF DeleteRows, TypeOK
  <2>2. /\ UNCHANGED <<disk, torn, pc, task>>
        /\ deleting' = deleting \cup {e}
    BY <1>delete DEF DeleteRows
  <2>3. \A f \in Files : driveFile[f].owner # e => driveFile'[f] = driveFile[f]
    BY <1>delete DEF DeleteRows
  <2>4. RowIdsUnique' /\ torn' = {}
    BY <2>1, <2>2 DEF SerialInv, RowIdsUnique
  <2>5. MissingHasNothing'
    BY <2>1, <2>2 DEF SerialInv, MissingHasNothing, EventExists
  <2>6. AgreeAtRest'
    BY <2>1, <2>2 DEF SerialInv, AgreeAtRest, EventExists, WorkedOn
  <2>7. ASSUME NEW w \in Workers PROVE TaskInv(w)'
    <3>1. task'[w] = task[w] /\ pc'[w] = pc[w] /\ TaskInv(w)
      BY <2>2 DEF SerialInv
    <3>2. CASE pc[w] = "idle"
      BY <3>1, <3>2 DEF TaskInv
    <3>3. CASE pc[w] # "idle"
      <4> DEFINE d == task[w].event
      <4>1. d \in Events /\ (d # e => eventRow'[d] = eventRow[d])
        BY <2>1, <3>3 DEF TypeOK
      <4>2. TaskAgrees(w)'
        BY <2>1, <2>2, <3>1, <3>3, <4>1 DEF TaskInv, TaskAgrees, EventExists, RowsOf
      <4>3. TaskIdsNew(w)'
        BY <2>1, <2>2, <3>1, <3>3 DEF TaskInv, TaskIdsNew
      <4>4. TaskOwnsFiles(w)'
        <5>1. task[w] \in Task
          BY DEF TypeOK
        <5>2. /\ task[w].todo \in SUBSET Files
              /\ \A m \in task[w].batch : m.file \in Files
              /\ pc[w] \in {"detect", "commit"} => task[w].cur.file \in Files
          BY <5>1 DEF Task, Media, TypeOK
        <5>3. d = e => ~EventExists(d)'
          BY <2>1, <3>1 DEF EventExists
        <5>4. d # e => (EventExists(d)' <=> EventExists(d))
          BY <3>1, <4>1 DEF EventExists
        <5> QED BY <2>3, <3>1, <3>3, <5>2, <5>3, <5>4 DEF TaskInv, TaskOwnsFiles, Listed
      <4> QED BY <2>1, <3>1, <3>3, <4>1, <4>2, <4>3, <4>4 DEF TaskInv
    <3> QED BY <3>2, <3>3
  <2> QED BY <2>4, <2>5, <2>6, <2>7 DEF SerialInv
<1>remove. CASE RemoveIndexFile(e)
  <2>1. /\ \A d \in Events : d # e => disk'[d] = disk[d]
        /\ disk'[e] = {} /\ eventRow[e].status = "deleted"
        /\ torn' = {} /\ deleting' \subseteq deleting
        /\ UNCHANGED <<eventRow, driveFile, faceRows, pc, task>>
    BY <1>remove DEF RemoveIndexFile, TypeOK, SerialInv, MissingHasNothing
  <2>2. RowIdsUnique' /\ MissingHasNothing' /\ AgreeAtRest'
    BY <2>1 DEF SerialInv, RowIdsUnique, MissingHasNothing, AgreeAtRest, EventExists, WorkedOn
  <2>3. ASSUME NEW w \in Workers PROVE TaskInv(w)'
    <3>1. task'[w] = task[w] /\ pc'[w] = pc[w] /\ TaskInv(w)
      BY <2>1 DEF SerialInv
    <3>2. CASE pc[w] = "idle"
      BY <3>1, <3>2 DEF TaskInv
    <3>3. CASE pc[w] # "idle"
      <4>0. task[w].event \in Events
        BY <3>3 DEF TypeOK
      <4>1. TaskAgrees(w)'
        BY <2>1, <3>1, <3>3, <4>0 DEF TaskInv, TaskAgrees, EventExists, RowsOf
      <4>2. TaskIdsNew(w)' /\ TaskOwnsFiles(w)'
        BY <2>1, <3>1, <3>3 DEF TaskInv, TaskIdsNew, TaskOwnsFiles, EventExists, Listed
      <4> QED BY <2>1, <3>1, <3>3, <4>1, <4>2 DEF TaskInv
    <3> QED BY <3>2, <3>3
  <2> QED BY <2>1, <2>2, <2>3 DEF SerialInv
<1> QED BY <1>create, <1>reindex, <1>delete, <1>remove DEF ApiStep

\* A task starts, ends its listing, or plans: the stores are not touched.
LEMMA StartKeepsInv ==
  ASSUME TypeOK, Serial, SerialInv, NEW w \in Workers, StartTask(w)
  PROVE  SerialInv'
<1> USE DEF dbVars, indexVars, apiVars
<1> PICK e \in Events, r \in 0..MaxRetries :
      \/ ~EventExists(e) /\ UNCHANGED <<eventRow, pc, task>>
      \/ /\ EventExists(e)
         /\ eventRow' = [eventRow EXCEPT ![e].status = "indexing"]
         /\ Continue(w, "list", [task[w] EXCEPT !.event = e, !.retry = r])
  BY DEF StartTask
<1>0. UNCHANGED <<driveFile, faceRows, disk, torn, deleting>> /\ pc[w] = "idle"
  BY DEF StartTask
<1>1. CASE UNCHANGED <<eventRow, pc, task>>
  BY <1>0, <1>1, InvUnchanged DEF invVars
<1>2. CASE /\ EventExists(e)
           /\ eventRow' = [eventRow EXCEPT ![e].status = "indexing"]
           /\ Continue(w, "list", [task[w] EXCEPT !.event = e, !.retry = r])
  <2> DEFINE t == [task[w] EXCEPT !.event = e, !.retry = r]
  <2>1. task[w] = NoTask
    BY <1>0 DEF SerialInv, TaskInv
  <2>2. /\ t.event = e /\ t.loaded = FALSE /\ t.del = {} /\ t.ins = {}
        /\ t.batch = {} /\ task[w].event \notin Events
    BY <2>1, NoneAssumption DEF NoTask
  <2> HIDE DEF t
  <2>3. pc'[w] = "list" /\ task'[w] = t /\ \A d \in Events : WorkedOn(d)' <=> t.event = d
    <3>1. Continue(w, "list", t)
      BY <1>2 DEF t
    <3> QED BY <3>1, OnlyWorkerContinues
  <2>4. /\ \A d \in Events : EventExists(d)' <=> EventExists(d)
        /\ \A d \in Events : \/ eventRow'[d].status = eventRow[d].status
                             \/ eventRow'[d].status = "indexing" /\ EventExists(d)
    <3>1. /\ \A d \in Events \ {e} : eventRow'[d] = eventRow[d]
          /\ eventRow'[e].status = "indexing"
      BY <1>2 DEF TypeOK, EventRow
    <3> QED BY <1>2, <3>1 DEF EventExists
  <2>5. RowIdsUnique' /\ torn' = {}
    BY <1>0 DEF SerialInv, RowIdsUnique
  <2>6. MissingHasNothing'
    BY <1>0, <2>4 DEF SerialInv, MissingHasNothing, EventExists
  <2>7. disk[e] = faceRows[e]
    BY <1>2, <2>2, OnlyWorkerWorks DEF SerialInv, AgreeAtRest
  <2>8. AgreeAtRest'
    <3>1. \A d \in Events : EventExists(d) /\ d # e => disk[d] = faceRows[d]
      BY <2>2, OnlyWorkerWorks DEF SerialInv, AgreeAtRest
    <3> QED BY <1>0, <2>2, <2>3, <2>4, <3>1 DEF AgreeAtRest
  <2>9. TaskInv(w)'
    <3>1. TaskAgrees(w)' /\ TaskIdsNew(w)' /\ TaskOwnsFiles(w)'
      BY <1>0, <2>2, <2>3, <2>7 DEF TaskAgrees, TaskIdsNew, TaskOwnsFiles
    <3>2. eventRow'[e].status # "none"
      BY <1>2, <2>4 DEF EventExists
    <3> QED BY <2>2, <2>3, <3>1, <3>2 DEF TaskInv
  <2> QED BY <2>5, <2>6, <2>8, <2>9, OnlyTaskMatters
<1> QED BY <1>1, <1>2

\* A task that ends, with nothing to commit or with its event gone, leaves the
\* stores as they agree.
LEMMA EndKeepsInv ==
  ASSUME TypeOK, Serial, SerialInv, NEW w \in Workers, pc[w] # "idle", EndTask(w),
         UNCHANGED <<driveFile, faceRows, disk, torn, deleting>>,
         EventExists(task[w].event) =>
           disk[task[w].event] = faceRows[task[w].event],
         \/ UNCHANGED eventRow
         \/ /\ EventExists(task[w].event)
            /\ \E s \in {"ready", "error"} :
                 eventRow' = [eventRow EXCEPT ![task[w].event].status = s]
  PROVE  SerialInv'
<1> DEFINE e == task[w].event
<1>0. e \in Events /\ NoTask.event = None
  BY DEF TypeOK, NoTask
<1>1. pc'[w] = "idle" /\ task'[w] = NoTask /\ \A d \in Events : ~WorkedOn(d)'
  BY <1>0, OnlyWorkerContinues, NoneAssumption DEF EndTask
<1>2. \A d \in Events : \/ eventRow'[d].status = eventRow[d].status
                        \/ /\ eventRow'[d].status \in {"ready", "error"}
                           /\ EventExists(d)
  <2>1. CASE UNCHANGED eventRow
    BY <2>1
  <2>2. ASSUME EventExists(e), NEW s \in {"ready", "error"},
               eventRow' = [eventRow EXCEPT ![e].status = s]
        PROVE  /\ eventRow'[e].status = s
               /\ \A d \in Events \ {e} : eventRow'[d] = eventRow[d]
    <3>1. eventRow \in [Events -> EventRow] /\ eventRow[e] \in EventRow
      BY <1>0 DEF TypeOK
    <3> QED BY <1>0, <2>2, <3>1 DEF EventRow
  <2> QED BY <1>0, <2>1, <2>2
<1>3. RowIdsUnique' /\ torn' = {}
  BY DEF SerialInv, RowIdsUnique
<1>4. MissingHasNothing'
  BY <1>2 DEF SerialInv, MissingHasNothing, EventExists
<1>5. AgreeAtRest'
  BY <1>0, <1>2, OnlyWorkerWorks DEF SerialInv, AgreeAtRest, EventExists
<1>6. TaskInv(w)'
  BY <1>1 DEF TaskInv
<1> QED BY <1>3, <1>4, <1>5, <1>6, OnlyTaskMatters

\* A task whose listing fails has not touched the stores.
LEMMA ListingFailsKeepsInv ==
  ASSUME TypeOK, Serial, SerialInv, NEW w \in Workers, ListingFails(w)
  PROVE  SerialInv'
<1>1. TaskAgrees(w) /\ pc[w] = "list" /\ EndTask(w)
  BY DEF ListingFails, SerialInv, TaskInv
<1>2. /\ UNCHANGED <<driveFile, faceRows, disk, torn, deleting>>
      /\ EventExists(task[w].event)
      /\ eventRow' = [eventRow EXCEPT ![task[w].event].status = "error"]
  BY DEF ListingFails, indexVars, apiVars
<1> QED BY <1>1, <1>2, EndKeepsInv DEF TaskAgrees

\* A task that finishes has committed all it added.
LEMMA FinishKeepsInv ==
  ASSUME TypeOK, Serial, SerialInv, NEW w \in Workers, Finish(w)
  PROVE  SerialInv'
<1>1. TaskAgrees(w) /\ pc[w] = "pass2" /\ EndTask(w)
  BY DEF Finish, SerialInv, TaskInv
<1>2. /\ UNCHANGED <<driveFile, faceRows, disk, torn, deleting>>
      /\ EventExists(task[w].event)
      /\ eventRow' = [eventRow EXCEPT ![task[w].event].status = "ready"]
  BY DEF Finish, indexVars, apiVars
<1> QED BY <1>1, <1>2, EndKeepsInv DEF TaskAgrees

\* A flush fails in a commit of a file only where the event is gone: the file is
\* the event's, and its new ids are in no row.
LEMMA AbandonKeepsInv ==
  ASSUME TypeOK, Serial, SerialInv, NEW w \in Workers, Abandon(w)
  PROVE  SerialInv'
<1> DEFINE e == task[w].event
<1>0. FlushFails(w) /\ EndTask(w) /\ pc[w] # "idle"
      /\ UNCHANGED <<eventRow, driveFile, faceRows, disk, torn, deleting>>
  BY DEF Abandon, FlushFails, dbVars, indexVars, apiVars
<1>1. e \in Events /\ TaskAgrees(w) /\ TaskIdsNew(w) /\ TaskOwnsFiles(w)
  BY <1>0 DEF SerialInv, TaskInv, TypeOK
<1>2. EventExists(e) /\ pc[w] = "commit" => driveFile[task[w].cur.file] # NoRow
  BY <1>1, NoneAssumption DEF TaskOwnsFiles, NoRow
<1>3. pc[w] = "commit" => ~IdsClash(w)
  <2> SUFFICES ASSUME pc[w] = "commit", NEW d \in Events, NEW r \in faceRows[d],
                      NEW x \in task[w].ins, r.id = x.id
               PROVE  FALSE
    BY DEF IdsClash, IdsOf
  <2>1. r.id < x.id
    BY <1>1 DEF TaskIdsNew
  <2>2. r.id \in Nat
    BY DEF TypeOK, Face
  <2> QED BY <2>1, <2>2
<1>4. EventExists(e) => pc[w] # "commit"
  BY <1>0, <1>2, <1>3 DEF FlushFails
<1>5. EventExists(e) => disk[e] = faceRows[e]
  BY <1>0, <1>1, <1>4 DEF TaskAgrees, FlushFails
<1> QED BY <1>0, <1>5, EndKeepsInv

\* The listing and pass 1: the stores are not touched, the next id is above
\* every id, and the files to process become the event's.
LEMMA ListKeepsInv ==
  ASSUME TypeOK, Serial, SerialInv, NEW w \in Workers, ListFiles(w)
  PROVE  SerialInv'
<1> USE DEF dbVars, indexVars, apiVars
<1> DEFINE e == task[w].event
<1> PICK n \in NextFaissIds :
      Continue(w, "plan",
        [task[w] EXCEPT !.nextId = n,
                        !.listing = [f \in Files |->
                                       IF f \in Folder[e] THEN drive[f] ELSE 0]])
  BY DEF ListFiles
<1> DEFINE t == [task[w] EXCEPT !.nextId = n,
                        !.listing = [f \in Files |->
                                       IF f \in Folder[e] THEN drive[f] ELSE 0]]
<1>1. /\ UNCHANGED <<driveFile, faceRows, disk, torn, deleting>>
      /\ pc[w] = "list" /\ EventExists(e) /\ Continue(w, "plan", t)
      /\ eventRow' = [eventRow EXCEPT ![e].total = Cardinality(Folder[e]),
                                      ![e].indexed = 0]
  BY DEF ListFiles
<1>2. /\ e \in Events /\ task[w] \in Task
      /\ TaskAgrees(w) /\ TaskIdsNew(w) /\ TaskOwnsFiles(w)
  BY <1>1 DEF SerialInv, TaskInv, TypeOK
<1>3. /\ t.event = e /\ t.loaded = task[w].loaded /\ t.mem = task[w].mem
      /\ t.del = task[w].del /\ t.ins = task[w].ins /\ t.batch = task[w].batch
      /\ t.nextId = n
  BY <1>2 DEF Task
<1> HIDE DEF t
<1>4. pc'[w] = "plan" /\ task'[w] = t /\ \A d \in Events : WorkedOn(d)' <=> t.event = d
  BY <1>1, OnlyWorkerContinues
<1>5. \A d \in Events : eventRow'[d].status = eventRow[d].status
  BY <1>1, <1>2 DEF TypeOK, EventRow
<1>6. RowIdsUnique' /\ torn' = {}
  BY <1>1 DEF SerialInv, RowIdsUnique
<1>7. MissingHasNothing' /\ AgreeAtRest'
  <2>1. MissingHasNothing'
    BY <1>1, <1>5 DEF SerialInv, MissingHasNothing, EventExists
  <2>2. ASSUME NEW d \in Events, EventExists(d)', ~WorkedOn(d)'
        PROVE  disk'[d] = faceRows'[d]
    <3>1. EventExists(d) /\ ~WorkedOn(d)
      BY <1>3, <1>4, <1>5, <2>2, OnlyWorkerWorks DEF EventExists
    <3> QED BY <1>1, <3>1 DEF SerialInv, AgreeAtRest
  <2> QED BY <2>1, <2>2 DEF AgreeAtRest
<1>8. TaskAgrees(w)'
  BY <1>1, <1>2, <1>3, <1>4, <1>5 DEF TaskAgrees, EventExists
<1>9. TaskIdsNew(w)'
  BY <1>1, <1>2, <1>3, <1>4, NextFaissIdAbove DEF TaskIdsNew
<1>10. TaskOwnsFiles(w)'
  BY <1>1, <1>2, <1>3, <1>4 DEF TaskOwnsFiles
<1>11. TaskInv(w)'
  BY <1>1, <1>2, <1>3, <1>4, <1>5, <1>8, <1>9, <1>10 DEF TaskInv, EventExists
<1> QED BY <1>6, <1>7, <1>11, OnlyTaskMatters

\* The files to process are among the listed ones.
LEMMA PlanKeepsInv ==
  ASSUME TypeOK, Serial, SerialInv, NEW w \in Workers, PlanFiles(w)
  PROVE  SerialInv'
<1> USE DEF dbVars, indexVars, apiVars
<1> DEFINE e == task[w].event
           work == {f \in Listed(w) : ~Unsupported(f) /\
                       ~ShouldSkip(task[w].event, f, task[w].listing[f])}
           new == {f \in Listed(w) : driveFile[f] = NoRow}
           number == Cardinality(Listed(w) \ work)
           t == [task[w] EXCEPT !.todo = work, !.fresh = new, !.counted = number]
<1>1. /\ UNCHANGED <<eventRow, driveFile, faceRows, disk, torn, deleting>>
      /\ pc[w] = "plan" /\ Continue(w, "upsert", t)
  BY DEF PlanFiles
<1>2. /\ e \in Events /\ task[w] \in Task /\ eventRow[e].status # "none"
      /\ TaskAgrees(w) /\ TaskIdsNew(w) /\ TaskOwnsFiles(w)
  BY <1>1 DEF SerialInv, TaskInv, TypeOK
<1>w. work \subseteq Listed(w)
  OBVIOUS
<1> HIDE DEF work, new, number
<1>3. /\ t.event = e /\ t.loaded = task[w].loaded /\ t.mem = task[w].mem
      /\ t.del = task[w].del /\ t.ins = task[w].ins /\ t.batch = task[w].batch
      /\ t.nextId = task[w].nextId /\ t.todo = work /\ t.listing = task[w].listing
  BY <1>2 DEF Task
<1> HIDE DEF t
<1>4. pc'[w] = "upsert" /\ task'[w] = t /\ \A d \in Events : WorkedOn(d)' <=> t.event = d
  BY <1>1, OnlyWorkerContinues
<1>6. RowIdsUnique' /\ torn' = {}
  BY <1>1 DEF SerialInv, RowIdsUnique
<1>7. MissingHasNothing' /\ AgreeAtRest'
  BY <1>1, <1>3, <1>4, OnlyWorkerWorks
  DEF SerialInv, MissingHasNothing, AgreeAtRest, EventExists
<1>8. TaskAgrees(w)'
  BY <1>1, <1>2, <1>3, <1>4 DEF TaskAgrees, EventExists
<1>9. TaskIdsNew(w)'
  BY <1>1, <1>2, <1>3, <1>4 DEF TaskIdsNew
<1>10. TaskOwnsFiles(w)'
  <2>1. Listed(w)' = Listed(w)
    BY <1>3, <1>4 DEF Listed
  <2> QED BY <1>1, <1>2, <1>3, <1>4, <1>w, <2>1 DEF TaskOwnsFiles
<1>11. TaskInv(w)'
  BY <1>1, <1>2, <1>3, <1>4, <1>8, <1>9, <1>10 DEF TaskInv
<1> QED BY <1>6, <1>7, <1>11, OnlyTaskMatters

\* Every listed file becomes the event's.
LEMMA UpsertKeepsInv ==
  ASSUME TypeOK, Serial, SerialInv, NEW w \in Workers, UpsertFiles(w)
  PROVE  SerialInv'
<1> USE DEF dbVars, indexVars, apiVars
<1> DEFINE e == task[w].event
           t == [task[w] EXCEPT !.listing = NoTask.listing, !.fresh = {}]
<1>1. /\ UNCHANGED <<faceRows, disk, torn, deleting>>
      /\ pc[w] = "upsert" /\ Continue(w, "pass2", t) /\ EventExists(e)
      /\ eventRow' = [eventRow EXCEPT ![e].indexed = task[w].counted]
      /\ driveFile' = [f \in Files |->
                         IF f \in Listed(w)
                           THEN Upserted(driveFile[f], e, f, task[w].listing[f])
                           ELSE driveFile[f]]
  BY DEF UpsertFiles
<1>2. /\ e \in Events /\ task[w] \in Task
      /\ TaskAgrees(w) /\ TaskIdsNew(w) /\ TaskOwnsFiles(w)
  BY <1>1 DEF SerialInv, TaskInv, TypeOK
<1>3. /\ t.event = e /\ t.loaded = task[w].loaded /\ t.mem = task[w].mem
      /\ t.del = task[w].del /\ t.ins = task[w].ins /\ t.batch = task[w].batch
      /\ t.nextId = task[w].nextId /\ t.todo = task[w].todo
  BY <1>2 DEF Task
<1> HIDE DEF t
<1>4. pc'[w] = "pass2" /\ task'[w] = t /\ \A d \in Events : WorkedOn(d)' <=> t.event = d
  BY <1>1, OnlyWorkerContinues
<1>5. \A d \in Events : eventRow'[d].status = eventRow[d].status
  BY <1>1, <1>2 DEF TypeOK, EventRow
<1>6. RowIdsUnique' /\ torn' = {}
  BY <1>1 DEF SerialInv, RowIdsUnique
<1>7. MissingHasNothing' /\ AgreeAtRest'
  BY <1>1, <1>3, <1>4, <1>5, OnlyWorkerWorks
  DEF SerialInv, MissingHasNothing, AgreeAtRest, EventExists
<1>8. TaskAgrees(w)'
  BY <1>1, <1>2, <1>3, <1>4, <1>5 DEF TaskAgrees, EventExists
<1>9. TaskIdsNew(w)'
  BY <1>1, <1>2, <1>3, <1>4 DEF TaskIdsNew
<1>10. TaskOwnsFiles(w)'
  <2>1. ASSUME NEW f \in Listed(w) PROVE driveFile'[f].owner = e
    <3>1. f \in Files /\ driveFile[f] \in FileRow
      BY DEF TypeOK, Listed
    <3>2. Upserted(driveFile[f], e, f, task[w].listing[f]).owner = e
      BY <3>1 DEF Upserted, Refreshed, FileRow
    <3> QED BY <1>1, <3>1, <3>2
  <2>2. task[w].todo \subseteq Listed(w) /\ task[w].batch = {}
    BY <1>1, <1>2 DEF TaskOwnsFiles
  <2> QED BY <1>3, <1>4, <2>1, <2>2 DEF TaskOwnsFiles
<1>11. TaskInv(w)'
  BY <1>1, <1>2, <1>3, <1>4, <1>5, <1>8, <1>9, <1>10 DEF TaskInv, EventExists
<1> QED BY <1>6, <1>7, <1>11, OnlyTaskMatters

\* Pass 2.  Where the only worker is in a task of an event, a step that changes
\* no more than the index file of this event keeps what does not concern the task.
LEMMA RestKept ==
  ASSUME TypeOK, Serial, SerialInv, NEW w \in Workers, pc[w] # "idle",
         UNCHANGED <<eventRow, driveFile, faceRows, deleting>>,
         \A d \in Events : d # task[w].event => disk'[d] = disk[d],
         task'[w].event = task[w].event
  PROVE  /\ RowIdsUnique' /\ MissingHasNothing' /\ AgreeAtRest'
         /\ eventRow'[task[w].event].status # "none"
         /\ \A d \in Events : EventExists(d)' <=> EventExists(d)
<1>1. eventRow[task[w].event].status # "none" /\ task[w].event \in Events
  BY DEF SerialInv, TaskInv, TypeOK
<1>2. \A d \in Events : WorkedOn(d)' <=> task[w].event = d
  BY OnlyWorkerWorks DEF WorkedOn
<1>3. \A d \in Events : WorkedOn(d) <=> task[w].event = d
  BY OnlyWorkerWorks
<1>4. RowIdsUnique' /\ MissingHasNothing'
  BY <1>1 DEF SerialInv, RowIdsUnique, MissingHasNothing, EventExists
<1>5. AgreeAtRest'
  BY <1>2, <1>3 DEF SerialInv, AgreeAtRest, EventExists
<1> QED BY <1>1, <1>4, <1>5 DEF EventExists

\* The files of a batch are files to process.
LEMMA FetchKeepsInv ==
  ASSUME TypeOK, Serial, SerialInv, NEW w \in Workers, FetchBatch(w)
  PROVE  SerialInv'
<1> USE DEF dbVars, indexVars, apiVars
<1> DEFINE e == task[w].event
           got_b(b, got) == {[file |-> f, src |-> got[f], ver |-> drive[f]] : f \in b}
<1> PICK b \in NextBatches(task[w].todo) : \E got \in [b -> FetchSource] :
      Continue(w, "pass2", [task[w] EXCEPT !.todo = @ \ b, !.batch = got_b(b, got)])
  BY DEF FetchBatch
<1> PICK got \in [b -> FetchSource] :
      Continue(w, "pass2", [task[w] EXCEPT !.todo = @ \ b, !.batch = got_b(b, got)])
  OBVIOUS
<1> DEFINE media == got_b(b, got)
           t == [task[w] EXCEPT !.todo = @ \ b, !.batch = media]
<1>1. /\ UNCHANGED <<eventRow, driveFile, faceRows, disk, torn, deleting>>
      /\ pc[w] = "pass2" /\ Continue(w, "pass2", t)
  BY DEF FetchBatch
<1>2. /\ e \in Events /\ task[w] \in Task
      /\ TaskAgrees(w) /\ TaskIdsNew(w) /\ TaskOwnsFiles(w)
  BY <1>1 DEF SerialInv, TaskInv, TypeOK
<1>m. b \subseteq task[w].todo /\ \A m \in media : m.file \in task[w].todo
  BY DEF NextBatches
<1> HIDE DEF media
<1>3. /\ t.event = e /\ t.loaded = task[w].loaded /\ t.mem = task[w].mem
      /\ t.del = task[w].del /\ t.ins = task[w].ins /\ t.batch = media
      /\ t.nextId = task[w].nextId /\ t.todo = task[w].todo \ b
  BY <1>2 DEF Task
<1> HIDE DEF t
<1>4. pc'[w] = "pass2" /\ task'[w] = t
  BY <1>1, OnlyWorkerContinues
<1>5. /\ RowIdsUnique' /\ MissingHasNothing' /\ AgreeAtRest'
      /\ eventRow'[e].status # "none" /\ torn' = {}
      /\ \A d \in Events : EventExists(d)' <=> EventExists(d)
  BY <1>1, <1>2, <1>3, <1>4, RestKept DEF SerialInv
<1>6. TaskAgrees(w)' /\ TaskIdsNew(w)'
  BY <1>1, <1>2, <1>3, <1>4, <1>5 DEF TaskAgrees, TaskIdsNew
<1>7. TaskOwnsFiles(w)'
  BY <1>1, <1>2, <1>3, <1>4, <1>5, <1>m DEF TaskOwnsFiles
<1>8. TaskInv(w)'
  BY <1>3, <1>4, <1>5, <1>6, <1>7 DEF TaskInv
<1> QED BY <1>5, <1>8, OnlyTaskMatters

\* The old vectors that leave the index are those of the file in hand: ids are
\* unique.  A file that was not fetched leaves everything as it is.
LEMMA RemoveKeepsInv ==
  ASSUME TypeOK, Serial, SerialInv, NEW w \in Workers, NEW m \in task[w].batch,
         RemoveOldEmbeddings(w, m)
  PROVE  SerialInv'
<1> USE DEF dbVars, indexVars, apiVars
<1> DEFINE e == task[w].event
           old == IdsOf(RowsOf(e, m.file))
           kept == Without(IndexOf(w), old)
           t == Taken(task[w], m)
           tFailed == [t EXCEPT !.count = 0, !.src = "error"]
           tCached == Cached(t, kept)
<1>0. UNCHANGED <<eventRow, driveFile, faceRows, deleting>> /\ pc[w] = "pass2"
  BY DEF RemoveOldEmbeddings
<1>1. /\ e \in Events /\ task[w] \in Task
      /\ TaskAgrees(w) /\ TaskIdsNew(w) /\ TaskOwnsFiles(w) /\ torn = {}
  BY <1>0 DEF SerialInv, TaskInv, TypeOK
<1>2. \/ UNCHANGED <<disk, torn>> /\ Continue(w, "commit", tFailed)
      \/ old = {} /\ UNCHANGED <<disk, torn>> /\ Continue(w, "detect", t)
      \/ Save(e, kept) /\ Continue(w, "detect", tCached)
  BY <1>1, NothingRaises DEF RemoveOldEmbeddings, FileRaises
<1>3. ASSUME NEW u \in {t, tFailed, tCached}
      PROVE  /\ u.event = e /\ u.cur = m /\ u.batch = task[w].batch \ {m}
             /\ u.todo = task[w].todo /\ u.nextId = task[w].nextId
             /\ u.del = task[w].del /\ u.ins = task[w].ins
  BY ZenonT(60), <1>1 DEF Task, Taken, Cached
<1>4. ASSUME NEW u \in {t, tFailed}
      PROVE  u.loaded = task[w].loaded /\ u.mem = task[w].mem
  BY <1>1 DEF Task, Taken
<1>5. tCached.loaded /\ tCached.mem = kept
  BY <1>1 DEF Task, Taken, Cached
<1>6. EventExists(e) => /\ kept = faceRows[e] \ RowsOf(e, m.file)
                        /\ old = {} => RowsOf(e, m.file) = {}
  <2> SUFFICES ASSUME EventExists(e)
               PROVE  /\ kept = faceRows[e] \ RowsOf(e, m.file)
                      /\ old = {} => RowsOf(e, m.file) = {}
    OBVIOUS
  <2>1. IndexOf(w) = faceRows[e]
    BY <1>0, <1>1 DEF IndexOf, TaskAgrees
  <2>2. kept = faceRows[e] \ RowsOf(e, m.file)
    BY <1>1, <2>1, WithoutRemoves DEF SerialInv
  <2> QED BY <2>2 DEF IdsOf
<1> HIDE DEF t, tFailed, tCached, kept, old
<1>7. /\ \A d \in Events : d # e => disk'[d] = disk[d]
      /\ torn' = {}
      /\ task'[w].event = e /\ task'[w].cur = m
      /\ task'[w].batch = task[w].batch \ {m}
      /\ task'[w].todo = task[w].todo /\ task'[w].nextId = task[w].nextId
      /\ task'[w].del = {} /\ task'[w].ins = {}
      /\ pc'[w] \in {"detect", "commit"}
  <2>1. task[w].del = {} /\ task[w].ins = {}
    BY <1>0, <1>1 DEF TaskIdsNew
  <2>2. CASE UNCHANGED <<disk, torn>> /\ Continue(w, "commit", tFailed)
    BY <1>1, <1>3, <2>1, <2>2, OnlyWorkerContinues
  <2>3. CASE UNCHANGED <<disk, torn>> /\ Continue(w, "detect", t)
    BY <1>1, <1>3, <2>1, <2>3, OnlyWorkerContinues
  <2>4. CASE Save(e, kept) /\ Continue(w, "detect", tCached)
    <3>1. (\A d \in Events : d # e => disk'[d] = disk[d]) /\ torn' = {}
      BY <1>1, <2>4 DEF Save, TypeOK
    <3> QED BY <1>3, <2>1, <2>4, <3>1, OnlyWorkerContinues
  <2> QED BY <1>2, <2>2, <2>3, <2>4
<1>8. /\ RowIdsUnique' /\ MissingHasNothing' /\ AgreeAtRest'
      /\ eventRow'[e].status # "none"
      /\ \A d \in Events : EventExists(d)' <=> EventExists(d)
  BY <1>0, <1>7, RestKept
<1>9. TaskAgrees(w)'
  <2> SUFFICES ASSUME EventExists(e)
               PROVE  /\ task'[w].loaded => task'[w].mem = disk'[e]
                      /\ pc'[w] = "detect" =>
                           disk'[e] = faceRows[e] \ RowsOf(e, m.file)
                      /\ pc'[w] = "commit" => disk'[e] = faceRows[e]
    <3>1. /\ faceRows'[task'[w].event] = faceRows[e]
          /\ RowsOf(task[w].event, task[w].cur.file)' = RowsOf(e, m.file)
      BY <1>0, <1>7 DEF RowsOf
    <3> QED BY <1>0, <1>7, <1>8, <3>1 DEF TaskAgrees, EventExists
  <2>0. disk[e] = faceRows[e] /\ (task[w].loaded => task[w].mem = disk[e])
    BY <1>0, <1>1 DEF TaskAgrees
  <2>1. CASE UNCHANGED <<disk, torn>> /\ Continue(w, "commit", tFailed)
    BY <1>4, <2>0, <2>1, OnlyWorkerContinues
  <2>2. CASE old = {} /\ UNCHANGED <<disk, torn>> /\ Continue(w, "detect", t)
    BY <1>4, <1>6, <2>0, <2>2, OnlyWorkerContinues
  <2>3. CASE Save(e, kept) /\ Continue(w, "detect", tCached)
    <3>1. disk'[e] = kept
      BY <1>1, <2>3 DEF Save, TypeOK
    <3> QED BY <1>5, <1>6, <2>3, <3>1, OnlyWorkerContinues
  <2> QED BY <1>2, <2>1, <2>2, <2>3
<1>10. TaskIdsNew(w)'
  BY <1>0, <1>1, <1>7 DEF TaskIdsNew
<1>11. TaskOwnsFiles(w)'
  BY <1>0, <1>1, <1>7, <1>8 DEF TaskOwnsFiles
<1>12. TaskInv(w)'
  BY <1>7, <1>8, <1>9, <1>10, <1>11 DEF TaskInv
<1> QED BY <1>7, <1>8, <1>12, OnlyTaskMatters

\* The vectors that are added are those of the rows the session will commit, and
\* their ids are above those of all rows.
LEMMA DetectKeepsInv ==
  ASSUME TypeOK, Serial, SerialInv, NEW w \in Workers, DetectAndAdd(w)
  PROVE  SerialInv'
<1> USE DEF dbVars, indexVars, apiVars
<1> DEFINE e == task[w].event
           tk == task[w]
<1>0. UNCHANGED <<eventRow, driveFile, faceRows, deleting>> /\ pc[w] = "detect"
  BY DEF DetectAndAdd
<1>1. /\ e \in Events /\ tk \in Task /\ tk.cur \in Media
      /\ TaskAgrees(w) /\ TaskIdsNew(w) /\ TaskOwnsFiles(w) /\ torn = {}
  BY <1>0 DEF SerialInv, TaskInv, TypeOK
<1> PICK d \in Detections(tk.cur) :
      LET new == NewFaces(tk, d)
          grown == IndexOf(w) \cup new
          t == [tk EXCEPT !.del = RowsOf(e, tk.cur.file), !.ins = new,
                          !.nextId = @ + d.count,
                          !.count = d.count, !.src = d.src]
      IN
      \/ d.count = 0 /\ UNCHANGED <<disk, torn>> /\ Continue(w, "commit", t)
      \/ Save(e, grown) /\ Continue(w, "commit", Cached(t, grown))
  BY <1>1, NothingRaises DEF DetectAndAdd
<1> DEFINE new == NewFaces(tk, d)
           grown == IndexOf(w) \cup new
           t == [tk EXCEPT !.del = RowsOf(e, tk.cur.file), !.ins = new,
                           !.nextId = @ + d.count,
                           !.count = d.count, !.src = d.src]
           tCached == Cached(t, grown)
<1>2. d.count \in Nat /\ d.ver \in Versions /\ tk.nextId \in Nat
  BY <1>1, DetectionsType DEF Task
<1>3. /\ new \in SUBSET Face
      /\ \A x \in new : tk.nextId <= x.id /\ x.id < tk.nextId + d.count
      /\ \A x, y \in new : x.id = y.id => x = y
      /\ d.count = 0 => new = {}
  <2>1. \A x, y \in new : x.id = y.id => x = y
    BY DEF NewFaces
  <2>2. d.count = 0 => new = {}
    BY <1>2 DEF NewFaces
  <2> QED BY <1>1, <1>2, <2>1, <2>2, NewFacesType
<1> DEFINE gone == RowsOf(e, tk.cur.file)
           n == tk.nextId + d.count
<1>4. \/ d.count = 0 /\ UNCHANGED <<disk, torn>> /\ Continue(w, "commit", t)
      \/ Save(e, grown) /\ Continue(w, "commit", tCached)
  OBVIOUS
<1> HIDE DEF new, grown, gone, n
<1>5. ASSUME NEW u \in {t, tCached}
      PROVE  /\ u.event = e /\ u.cur = tk.cur /\ u.batch = tk.batch
             /\ u.todo = tk.todo /\ u.nextId = n /\ u.del = gone /\ u.ins = new
  <2>1. t.event = e /\ t.cur = tk.cur /\ t.batch = tk.batch
        /\ t.todo = tk.todo /\ t.nextId = n /\ t.del = gone /\ t.ins = new
    BY <1>1 DEF Task, n, gone
  <2>2. tCached.event = t.event /\ tCached.cur = t.cur /\ tCached.batch = t.batch
        /\ tCached.todo = t.todo /\ tCached.nextId = t.nextId
        /\ tCached.del = t.del /\ tCached.ins = t.ins
    BY <1>1 DEF Task, Cached
  <2> HIDE DEF t, tCached
  <2> QED BY <2>1, <2>2
<1>6. /\ t.loaded = tk.loaded /\ t.mem = tk.mem
      /\ tCached.loaded /\ tCached.mem = grown
  BY <1>1 DEF Task, Cached
<1> HIDE DEF t, tCached
<1>7. /\ \A c \in Events : c # e => disk'[c] = disk[c]
      /\ torn' = {} /\ pc'[w] = "commit"
      /\ task'[w].event = e /\ task'[w].cur = tk.cur
      /\ task'[w].batch = tk.batch /\ task'[w].todo = tk.todo
      /\ task'[w].nextId = n /\ task'[w].del = gone /\ task'[w].ins = new
  <2>1. CASE UNCHANGED <<disk, torn>> /\ Continue(w, "commit", t)
    BY <1>1, <1>5, <2>1, OnlyWorkerContinues
  <2>2. CASE Save(e, grown) /\ Continue(w, "commit", tCached)
    <3>1. (\A c \in Events : c # e => disk'[c] = disk[c]) /\ torn' = {}
      BY <1>1, <2>2 DEF Save, TypeOK
    <3> QED BY <1>5, <2>2, <3>1, OnlyWorkerContinues
  <2> QED BY <1>4, <2>1, <2>2
<1>8. /\ RowIdsUnique' /\ MissingHasNothing' /\ AgreeAtRest'
      /\ eventRow'[e].status # "none"
      /\ \A c \in Events : EventExists(c)' <=> EventExists(c)
  BY <1>0, <1>7, RestKept
<1>9. TaskAgrees(w)'
  <2> SUFFICES ASSUME EventExists(e)
               PROVE  /\ task'[w].loaded => task'[w].mem = disk'[e]
                      /\ disk'[e] = (faceRows[e] \ gone) \cup new
    BY <1>0, <1>7, <1>8 DEF TaskAgrees, EventExists
  <2>0. disk[e] = faceRows[e] \ gone /\ (tk.loaded => tk.mem = disk[e])
    BY <1>0, <1>1 DEF TaskAgrees, gone
  <2>1. CASE d.count = 0 /\ UNCHANGED <<disk, torn>> /\ Continue(w, "commit", t)
    BY ZenonT(60), <1>3, <1>6, <2>0, <2>1, OnlyWorkerContinues
  <2>2. CASE Save(e, grown) /\ Continue(w, "commit", tCached)
    <3>1. disk'[e] = grown
      BY <1>1, <2>2 DEF Save, TypeOK
    <3>2. grown = disk[e] \cup new
      BY <2>0 DEF grown, IndexOf
    <3> QED BY <1>6, <2>0, <2>2, <3>1, <3>2, OnlyWorkerContinues
  <2> QED BY <1>4, <2>1, <2>2
<1>10. TaskIdsNew(w)'
  <2>1. ASSUME NEW c \in Events, NEW r \in faceRows[c]
        PROVE  r.id \in Nat /\ r.id < tk.nextId
    BY <1>0, <1>1 DEF TaskIdsNew, TypeOK, Face
  <2>2. \A c \in Events : \A r \in faceRows[c] : r.id < n
    BY <1>2, <2>1 DEF n
  <2>3. \A x \in new : x.id \in Nat
    BY <1>3 DEF Face
  <2>4. \A x \in new : x.id < n /\ \A c \in Events : \A r \in faceRows[c] : r.id < x.id
    BY <1>2, <1>3, <2>1, <2>3 DEF n
  <2> QED BY <1>0, <1>3, <1>7, <2>2, <2>4 DEF TaskIdsNew
<1>11. TaskOwnsFiles(w)'
  BY <1>0, <1>1, <1>7, <1>8 DEF TaskOwnsFiles
<1>12. TaskInv(w)'
  BY <1>7, <1>8, <1>9, <1>10, <1>11 DEF TaskInv
<1> QED BY <1>7, <1>8, <1>12, OnlyTaskMatters

\* The rows of the event become what the index file already holds.
LEMMA CommitKeepsInv ==
  ASSUME TypeOK, Serial, SerialInv, NEW w \in Workers, CommitFile(w)
  PROVE  SerialInv'
<1> USE DEF dbVars, indexVars, apiVars
<1> DEFINE e == task[w].event
           tk == task[w]
           t == [tk EXCEPT !.counted = @ + 1, !.cur = NoMedia, !.count = 0,
                           !.src = "none", !.del = {}, !.ins = {}]
           f == tk.cur.file
           n == tk.counted + 1
<1>1. /\ UNCHANGED <<disk, torn, deleting>>
      /\ pc[w] = "commit" /\ EventExists(e) /\ Continue(w, "pass2", t)
      /\ faceRows' = [faceRows EXCEPT ![e] = (@ \ tk.del) \cup tk.ins]
      /\ driveFile' = [driveFile EXCEPT ![f].count = tk.count, ![f].src = tk.src]
      /\ eventRow' = [eventRow EXCEPT ![e].indexed = n]
  BY DEF CommitFile
<1>2. /\ e \in Events /\ tk \in Task /\ f \in Files
      /\ TaskAgrees(w) /\ TaskIdsNew(w) /\ TaskOwnsFiles(w)
  BY <1>1 DEF SerialInv, TaskInv, TypeOK, Media
<1>3. /\ t.event = e /\ t.loaded = tk.loaded /\ t.mem = tk.mem
      /\ t.del = {} /\ t.ins = {} /\ t.batch = tk.batch
      /\ t.nextId = tk.nextId /\ t.todo = tk.todo
  BY <1>2 DEF Task
<1> HIDE DEF t
<1>4. pc'[w] = "pass2" /\ task'[w] = t /\ \A d \in Events : WorkedOn(d)' <=> t.event = d
  BY <1>1, OnlyWorkerContinues
<1> HIDE DEF n
<1>5. \A d \in Events : eventRow'[d].status = eventRow[d].status
  BY <1>1, <1>2 DEF TypeOK, EventRow
<1>6. \A g \in Files : driveFile'[g].owner = driveFile[g].owner
  <2>1. ASSUME NEW g \in Files PROVE driveFile'[g].owner = driveFile[g].owner
    <3>1. driveFile[g] \in FileRow /\ driveFile \in [Files -> FileRow]
      BY DEF TypeOK
    <3>2. CASE g = f
      BY <1>1, <1>2, <3>1, <3>2 DEF FileRow
    <3>3. CASE g # f
      BY <1>1, <1>2, <3>1, <3>3
    <3> QED BY <3>2, <3>3
  <2> QED BY <2>1
<1>7. /\ \A d \in Events : d # e => faceRows'[d] = faceRows[d]
      /\ faceRows'[e] = (faceRows[e] \ tk.del) \cup tk.ins
  BY <1>1, <1>2 DEF TypeOK
<1>8. disk[e] = faceRows'[e] /\ (tk.loaded => tk.mem = disk[e])
  BY <1>1, <1>2, <1>7 DEF TaskAgrees
<1>9. RowIdsUnique' /\ torn' = {}
  <2> SUFFICES ASSUME NEW d \in Events, NEW r \in faceRows'[d], NEW s \in faceRows'[d],
                      r.id = s.id
               PROVE  r = s
    BY <1>1 DEF RowIdsUnique, SerialInv
  <2>1. CASE d # e
    BY <1>7, <2>1 DEF SerialInv, RowIdsUnique
  <2>2. CASE d = e
    <3>1. ASSUME NEW x \in tk.ins, NEW y \in faceRows[e] PROVE x.id # y.id
      <4>1. y.id < x.id /\ y.id \in Nat
        BY <1>1, <1>2 DEF TaskIdsNew, TypeOK, Face
      <4> QED BY <4>1
    <3>2. \A x, y \in tk.ins : x.id = y.id => x = y
      BY <1>1, <1>2 DEF TaskIdsNew
    <3>3. \A x, y \in faceRows[e] : x.id = y.id => x = y
      BY <1>2 DEF SerialInv, RowIdsUnique
    <3> QED BY <1>7, <2>2, <3>1, <3>2, <3>3
  <2> QED BY <2>1, <2>2
<1>10. MissingHasNothing' /\ AgreeAtRest'
  <2>1. MissingHasNothing'
    BY <1>1, <1>2, <1>5, <1>7 DEF SerialInv, MissingHasNothing, EventExists
  <2>2. ASSUME NEW d \in Events, EventExists(d)', ~WorkedOn(d)'
        PROVE  disk'[d] = faceRows'[d]
    <3>1. EventExists(d) /\ ~WorkedOn(d) /\ d # e
      BY <1>3, <1>4, <1>5, <2>2, OnlyWorkerWorks DEF EventExists
    <3> QED BY <1>1, <1>7, <3>1 DEF SerialInv, AgreeAtRest
  <2> QED BY <2>1, <2>2 DEF AgreeAtRest
<1>11. TaskAgrees(w)'
  BY <1>1, <1>3, <1>4, <1>8 DEF TaskAgrees
<1>12. TaskIdsNew(w)'
  <2>1. \A d \in Events : \A r \in faceRows'[d] : r.id < tk.nextId
    BY <1>1, <1>2, <1>7 DEF TaskIdsNew
  <2> QED BY <1>3, <1>4, <2>1 DEF TaskIdsNew
<1>13. TaskOwnsFiles(w)'
  <2>1. tk.todo \in SUBSET Files /\ \A m \in tk.batch : m.file \in Files
    BY <1>2 DEF Task, Media
  <2>2. /\ \A g \in tk.todo : driveFile[g].owner = e
        /\ \A m \in tk.batch : driveFile[m.file].owner = e
    BY <1>1, <1>2 DEF TaskOwnsFiles
  <2> QED BY <1>3, <1>4, <1>6, <2>1, <2>2 DEF TaskOwnsFiles
<1>14. TaskInv(w)'
  BY <1>1, <1>2, <1>3, <1>4, <1>5, <1>11, <1>12, <1>13 DEF TaskInv, EventExists
<1> QED BY <1>9, <1>10, <1>14, OnlyTaskMatters

\* Every step keeps the invariant.
LEMMA SerialStep == TypeOK /\ Serial /\ SerialInv /\ [Next]_vars => SerialInv'
<1> SUFFICES ASSUME TypeOK, Serial, SerialInv, [Next]_vars PROVE SerialInv'
  OBVIOUS
<1>1. ASSUME NEW w \in Workers, WorkerStep(w) PROVE SerialInv'
  <2>1. CASE StartTask(w)
    BY <2>1, StartKeepsInv
  <2>2. CASE ListFiles(w)
    BY <2>2, ListKeepsInv
  <2>3. CASE ListingFails(w)
    BY <2>3, ListingFailsKeepsInv
  <2>4. CASE PlanFiles(w)
    BY <2>4, PlanKeepsInv
  <2>5. CASE UpsertFiles(w)
    BY <2>5, UpsertKeepsInv
  <2>6. CASE FetchBatch(w)
    BY <2>6, FetchKeepsInv
  <2>7. CASE \E m \in task[w].batch : RemoveOldEmbeddings(w, m)
    BY <2>7, RemoveKeepsInv
  <2>8. CASE DetectAndAdd(w)
    BY <2>8, DetectKeepsInv
  <2>9. CASE CommitFile(w)
    BY <2>9, CommitKeepsInv
  <2>10. CASE Finish(w)
    BY <2>10, FinishKeepsInv
  <2>11. CASE Abandon(w)
    BY <2>11, AbandonKeepsInv
  <2> QED BY <1>1, <2>1, <2>2, <2>3, <2>4, <2>5, <2>6, <2>7, <2>8, <2>9, <2>10, <2>11
          DEF WorkerStep
<1>2. ASSUME NEW e \in Events, ApiStep(e) PROVE SerialInv'
  BY <1>2, ApiKeepsInv
<1>3. ASSUME NEW w \in Workers, CrashWorker(w) PROVE SerialInv'
  BY <1>3, NothingRaises
<1>4. ASSUME CrashApi PROVE SerialInv'
  BY <1>4 DEF CrashApi, TypeOK, Serial
<1>5. ASSUME NEW f \in Files, ChangeContent(f) PROVE SerialInv'
  BY <1>5, InvUnchanged DEF ChangeContent, invVars, dbVars, indexVars, apiVars
<1>6. CASE UNCHANGED vars
  BY <1>6, InvUnchanged DEF vars, invVars, dbVars, indexVars, apiVars
<1> QED BY <1>1, <1>2, <1>3, <1>4, <1>5, <1>6 DEF Next, Rest

\* With one worker, no crash and no failed save, the inductive invariant holds.
THEOREM SerialCorrect == Serial => (Spec => []SerialInv)
<1> SUFFICES ASSUME Serial PROVE Spec => []SerialInv
  OBVIOUS
<1>1. Init => SerialInv
  BY SerialInit
<1>2. TypeOK /\ SerialInv /\ [Next]_vars => SerialInv'
  BY SerialStep
<1> QED BY <1>1, <1>2, TypeCorrect, PTL DEF Spec

\* Then the index file of an event that no task works on holds exactly the
\* vectors of its rows, even where tasks of it were abandoned or failed, its
\* files were taken over by other events, or other events were deleted.
THEOREM StoresAgreeSerially == Serial => (Spec => []StoresAgree)
<1> SUFFICES ASSUME Serial PROVE Spec => []StoresAgree
  OBVIOUS
<1>1. SerialInv => StoresAgree
  <2> SUFFICES ASSUME SerialInv, NEW e \in Events,
                      eventRow[e].status # "deleted", ~WorkedOn(e)
               PROVE  disk[e] = faceRows[e]
    BY DEF StoresAgree
  <2>1. CASE EventExists(e)
    BY <2>1 DEF SerialInv, AgreeAtRest
  <2>2. CASE ~EventExists(e)
    BY <2>2 DEF SerialInv, MissingHasNothing, EventExists
  <2> QED BY <2>1, <2>2
<1> QED BY <1>1, SerialCorrect, PTL

\* And at every moment, also in the middle of a task, an id found in the index
\* file leads to the row of the face whose vector it is, or to none.
THEOREM NeverCrossWired == Serial => (Spec => []NoCrossWiring)
<1> SUFFICES ASSUME Serial PROVE Spec => []NoCrossWiring
  OBVIOUS
<1>1. TypeOK /\ SerialInv => NoCrossWiring
  <2> SUFFICES ASSUME TypeOK, SerialInv, NEW e \in Events, NEW v \in disk[e],
                      NEW r \in faceRows[e], v.id = r.id
               PROVE  v = r
    BY DEF NoCrossWiring
  <2>1. EventExists(e)
    BY DEF SerialInv, MissingHasNothing
  <2>2. v \in faceRows[e] => v = r
    BY DEF SerialInv, RowIdsUnique
  <2>3. CASE ~WorkedOn(e)
    BY <2>1, <2>2, <2>3 DEF SerialInv, AgreeAtRest
  <2>4. CASE WorkedOn(e)
    <3> PICK w \in Workers : task[w].event = e
      BY <2>4 DEF WorkedOn
    <3>1. pc[w] # "idle"
      BY NoneAssumption DEF SerialInv, TaskInv, NoTask
    <3>2. TaskAgrees(w) /\ TaskIdsNew(w)
      BY <3>1 DEF SerialInv, TaskInv
    <3>3. pc[w] \in {"list", "plan", "upsert", "pass2", "detect", "commit"}
      BY <3>1 DEF TypeOK, PC
    <3>4. CASE pc[w] # "commit"
      BY <2>1, <2>2, <3>2, <3>3, <3>4 DEF TaskAgrees
    <3>5. CASE pc[w] = "commit"
      <4>1. v \in faceRows[e] \/ v \in task[w].ins
        BY <2>1, <3>2, <3>5 DEF TaskAgrees
      <4>2. v \in task[w].ins => r.id < v.id
        BY <3>2, <3>5 DEF TaskIdsNew
      <4>3. r.id \in Nat
        BY DEF TypeOK, Face
      <4> QED BY <2>2, <4>1, <4>2, <4>3
    <3> QED BY <3>4, <3>5
  <2> QED BY <2>3, <2>4
<1> QED BY <1>1, SerialCorrect, TypeCorrect, PTL

-----------------------------------------------------------------------------
(* The indexing task implements FaceAlbum: every step of it is a step of the *)
(* album or leaves the album as it is.                                       *)

\* While the only worker is in a task of an event that exists, the event is
\* INDEXING: a second request for it only waits in the queue.
EventIsOpen ==
  \A w \in Workers :
    pc[w] # "idle" /\ EventExists(task[w].event) =>
      eventRow[task[w].event].status = "indexing"

\* The only worker has a file of event e in hand.
InHand(w, e) ==
  /\ task[w].event = e /\ EventExists(e)
  /\ \/ pc[w] = "detect"
     \/ pc[w] = "commit" /\ task[w].del \cup task[w].ins # {}

\* The hand of the album is the hand of the only worker, before a step and
\* after it.
LEMMA HandNow ==
  ASSUME Serial, NEW w \in Workers, NEW e \in Events
  PROVE  HandOf(e) = IF InHand(w, e) THEN task[w].cur.file ELSE None
<1>1. {v \in Workers : InHand(v, e)} = IF InHand(w, e) THEN {w} ELSE {}
  BY DEF Serial
<1>2. (CHOOSE v \in {w} : TRUE) = w
  OBVIOUS
<1> QED BY <1>1, <1>2 DEF HandOf, InHand

LEMMA HandNext ==
  ASSUME Serial, NEW w \in Workers, NEW e \in Events
  PROVE  HandOf(e)' = IF InHand(w, e)' THEN task'[w].cur.file ELSE None
<1>1. {v \in Workers : InHand(v, e)'} = IF InHand(w, e)' THEN {w} ELSE {}
  BY DEF Serial
<1>2. (CHOOSE v \in {w} : TRUE) = w
  OBVIOUS
<1> QED BY <1>1, <1>2 DEF HandOf, InHand

\* Outside the span from the removal of a file's old vectors to its commit, no
\* album has a file in hand.
LEMMA NoHandNow ==
  ASSUME Serial, NEW w \in Workers, pc[w] \notin {"detect", "commit"}
  PROVE  \A e \in Events : HandOf(e) = None
BY HandNow DEF InHand

LEMMA NoHandNext ==
  ASSUME Serial, NEW w \in Workers, pc'[w] \notin {"detect", "commit"}
  PROVE  \A e \in Events : HandOf(e)' = None
BY HandNext DEF InHand

\* Where statuses stay, lives stay.
StatusesStay == \A d \in Events : eventRow'[d].status = eventRow[d].status

LEMMA LivesStay ==
  ASSUME StatusesStay
  PROVE  \A d \in Events : LifeOf(d)' = LifeOf(d) /\ (EventExists(d)' <=> EventExists(d))
BY DEF StatusesStay, LifeOf, EventExists

LEMMA OwnersStay ==
  ASSUME TypeOK, UNCHANGED driveFile
  PROVE  \A f \in Files : driveFile'[f].owner = driveFile[f].owner
OBVIOUS

\* A step that keeps lives, hands, owners, rows and vectors is none of the album's.
LEMMA Stutter ==
  ASSUME \A e \in Events : LifeOf(e)' = LifeOf(e) /\ HandOf(e)' = HandOf(e),
         \A f \in Files : driveFile'[f].owner = driveFile[f].owner,
         UNCHANGED <<faceRows, disk>>
  PROVE  [Album!Next]_Album!vars
BY DEF Album!vars

\* The event of a task is open as long as the task keeps it and its status stays,
\* or is deleted.
LEMMA OpenStays ==
  ASSUME Serial, TypeOK, EventIsOpen, NEW w \in Workers,
         pc[w] # "idle" \/ pc'[w] = pc[w],
         pc'[w] = "idle" \/ task'[w].event = task[w].event,
         \A d \in Events : \/ eventRow'[d].status = eventRow[d].status
                           \/ eventRow'[d].status = "deleted"
  PROVE  EventIsOpen'
<1> SUFFICES ASSUME pc'[w] # "idle", EventExists(task[w].event)'
             PROVE  eventRow'[task'[w].event].status = "indexing"
  BY OnlyWorkerWorks DEF EventIsOpen
<1>1. task[w].event \in Events /\ task'[w].event = task[w].event /\ pc[w] # "idle"
  BY DEF TypeOK
<1> QED BY <1>1 DEF EventExists, EventIsOpen

LEMMA OpenEnds ==
  ASSUME Serial, NEW w \in Workers, pc'[w] = "idle"
  PROVE  EventIsOpen'
BY OnlyWorkerWorks DEF EventIsOpen

-----------------------------------------------------------------------------
(* The API *)

LEMMA CreateStep ==
  ASSUME Serial, TypeOK, SerialInv, EventIsOpen, NEW e \in Events, CreateEvent(e)
  PROVE  EventIsOpen' /\ [Album!Next]_Album!vars
<1> USE DEF dbVars, indexVars, apiVars
<1>1. UNCHANGED <<driveFile, faceRows, disk, pc, task>>
  BY DEF CreateEvent
<1>2. /\ \A d \in Events : d # e => eventRow'[d] = eventRow[d]
      /\ eventRow[e].status = "none"
      /\ eventRow'[e].status \in {"pending", "error"}
  BY DEF CreateEvent, TypeOK, EventRow
<1>3. \A w \in Workers : pc[w] # "idle" => task[w].event # e
  BY <1>2 DEF SerialInv, TaskInv
<1>4. EventIsOpen'
  BY <1>1, <1>2, <1>3 DEF EventIsOpen, TypeOK, EventExists
<1>5. /\ LifeOf(e) = "none" /\ LifeOf(e)' = "open"
      /\ \A d \in Events : d # e => LifeOf(d)' = LifeOf(d)
  BY <1>2 DEF LifeOf
<1>6. \A d \in Events : HandOf(d)' = HandOf(d)
  <2>1. ~\E w \in Workers : InHand(w, e)
    BY <1>2 DEF InHand, EventExists
  <2>2. ~\E w \in Workers : InHand(w, e)'
    BY <1>1, <1>3 DEF InHand
  <2>3. \A d \in Events : d # e => \A w \in Workers : InHand(w, d)' <=> InHand(w, d)
    BY <1>1, <1>2 DEF InHand, EventExists
  <2>4. CASE Workers = {}
    BY <2>4 DEF HandOf
  <2>5. CASE Workers # {}
    <3> PICK w \in Workers : TRUE
      BY <2>5
    <3> QED BY <1>1, <2>1, <2>2, <2>3, HandNow, HandNext
  <2> QED BY <2>4, <2>5
<1>7. Album!Create(e)
  BY <1>1, <1>5, <1>6 DEF Album!Create
<1> QED BY <1>4, <1>7 DEF Album!Next

LEMMA DeleteStep ==
  ASSUME Serial, TypeOK, SerialInv, EventIsOpen, NEW e \in Events, DeleteRows(e)
  PROVE  EventIsOpen' /\ [Album!Next]_Album!vars
<1> USE DEF dbVars, indexVars, apiVars
<1>1. UNCHANGED <<disk, pc, task>>
  BY DEF DeleteRows
<1>2. /\ \A d \in Events : d # e => /\ eventRow'[d] = eventRow[d]
                                    /\ faceRows'[d] = faceRows[d]
      /\ eventRow'[e].status = "deleted"
      /\ faceRows' = [faceRows EXCEPT ![e] = {}]
      /\ EventExists(e)
  BY DEF DeleteRows, TypeOK
<1>3. \A f \in Files : driveFile'[f].owner = IF driveFile[f].owner = e THEN None
                                             ELSE driveFile[f].owner
  BY DEF DeleteRows, NoRow
<1>4. EventIsOpen'
  BY <1>1, <1>2 DEF EventIsOpen, TypeOK, EventExists
<1>5. /\ LifeOf(e) \in {"open", "ready"} /\ LifeOf(e)' = "deleted"
      /\ \A d \in Events : d # e => LifeOf(d)' = LifeOf(d)
  BY <1>2 DEF LifeOf, EventExists
<1>6. /\ HandOf(e)' = None
      /\ \A d \in Events : d # e => HandOf(d)' = HandOf(d)
  <2>1. ~\E w \in Workers : InHand(w, e)'
    BY <1>2 DEF InHand, EventExists
  <2>2. \A d \in Events : d # e => \A w \in Workers : InHand(w, d)' <=> InHand(w, d)
    BY <1>1, <1>2 DEF InHand, EventExists
  <2>3. CASE Workers = {}
    BY <2>3 DEF HandOf
  <2>4. CASE Workers # {}
    <3> PICK w \in Workers : TRUE
      BY <2>4
    <3> QED BY <1>1, <2>1, <2>2, HandNow, HandNext
  <2> QED BY <2>3, <2>4
<1>7. ~Album!Referenced(e)
  BY DEF DeleteRows, ReferencedElsewhere, RowsOf, Album!Referenced, Album!FacesOf
<1>8. Album!Delete(e)
  BY <1>1, <1>2, <1>3, <1>5, <1>6, <1>7 DEF Album!Delete, Album!Live
<1> QED BY <1>4, <1>8 DEF Album!Next

\* The index file of a deleted event is removed.
LEMMA RemoveFileStep ==
  ASSUME Serial, TypeOK, SerialInv, EventIsOpen, NEW e \in Events, RemoveIndexFile(e)
  PROVE  EventIsOpen' /\ [Album!Next]_Album!vars
<1> USE DEF dbVars, indexVars, apiVars
<1>1. /\ UNCHANGED <<eventRow, driveFile, faceRows, pc, task>>
      /\ eventRow[e].status = "deleted"
      /\ disk' = [disk EXCEPT ![e] = disk'[e]]
  BY DEF RemoveIndexFile, SerialInv, MissingHasNothing, TypeOK
<1>2. EventIsOpen'
  BY <1>1 DEF EventIsOpen, EventExists
<1>3. /\ LifeOf(e) = "deleted"
      /\ \A d \in Events : LifeOf(d)' = LifeOf(d) /\ HandOf(d)' = HandOf(d)
  BY <1>1 DEF LifeOf, HandOf, EventExists
<1>4. Album!Scraps(e, disk'[e])
  BY <1>1, <1>3 DEF Album!Scraps
<1> QED BY <1>2, <1>4 DEF Album!Next

-----------------------------------------------------------------------------
(* A task up to pass 2 *)

LEMMA StartStep ==
  ASSUME Serial, TypeOK, SerialInv, EventIsOpen, NEW w \in Workers, StartTask(w)
  PROVE  EventIsOpen' /\ [Album!Next]_Album!vars
<1> USE DEF dbVars, indexVars, apiVars
<1> PICK e \in Events, r \in 0..MaxRetries :
      \/ ~EventExists(e) /\ UNCHANGED <<eventRow, pc, task>>
      \/ /\ EventExists(e)
         /\ eventRow' = [eventRow EXCEPT ![e].status = "indexing"]
         /\ Continue(w, "list", [task[w] EXCEPT !.event = e, !.retry = r])
  BY DEF StartTask
<1>1. UNCHANGED <<driveFile, faceRows, disk>> /\ pc[w] = "idle"
  BY DEF StartTask
<1>2. CASE ~EventExists(e) /\ UNCHANGED <<eventRow, pc, task>>
  <2>1. \A d \in Events : LifeOf(d)' = LifeOf(d) /\ HandOf(d)' = HandOf(d)
    BY <1>2 DEF LifeOf, HandOf, EventExists
  <2>2. EventIsOpen'
    BY <1>2 DEF EventIsOpen, EventExists
  <2> QED BY <1>1, <2>1, <2>2, Stutter
<1>3. CASE /\ EventExists(e)
           /\ eventRow' = [eventRow EXCEPT ![e].status = "indexing"]
           /\ Continue(w, "list", [task[w] EXCEPT !.event = e, !.retry = r])
  <2> DEFINE t == [task[w] EXCEPT !.event = e, !.retry = r]
  <2>1. t.event = e
    BY DEF TypeOK, Task
  <2> HIDE DEF t
  <2>2. pc'[w] = "list" /\ task'[w] = t
    BY <1>3, OnlyWorkerContinues DEF t
  <2>3. /\ eventRow'[e].status = "indexing"
        /\ \A d \in Events : d # e => eventRow'[d] = eventRow[d]
    BY <1>3 DEF TypeOK, EventRow
  <2>4. EventIsOpen'
    BY <2>1, <2>2, <2>3, OnlyWorkerWorks DEF EventIsOpen
  <2>5. \A d \in Events : HandOf(d) = None /\ HandOf(d)' = None
    BY <1>1, <2>2, NoHandNow, NoHandNext
  <2>6. /\ LifeOf(e) \in {"open", "ready"} /\ LifeOf(e)' = "open"
        /\ \A d \in Events : d # e => LifeOf(d)' = LifeOf(d)
    BY <1>3, <2>3 DEF LifeOf, EventExists
  <2>7. CASE LifeOf(e) = "open"
    BY <1>1, <2>4, <2>5, <2>6, <2>7, Stutter
  <2>8. CASE LifeOf(e) = "ready"
    <3>1. Album!Open(e)
      BY <1>1, <2>5, <2>6, <2>8 DEF Album!Open
    <3> QED BY <2>4, <3>1 DEF Album!Next
  <2> QED BY <2>6, <2>7, <2>8
<1> QED BY <1>2, <1>3

\* A task that ends with no file in hand, its event gone, or its event open.
LEMMA EndStep ==
  ASSUME Serial, TypeOK, NEW w \in Workers, EndTask(w), StatusesStay,
         UNCHANGED <<driveFile, faceRows, disk>>,
         \A e \in Events : HandOf(e) = None
  PROVE  EventIsOpen' /\ [Album!Next]_Album!vars
<1>1. pc'[w] = "idle"
  BY OnlyWorkerContinues DEF EndTask
<1>2. \A e \in Events : LifeOf(e)' = LifeOf(e) /\ HandOf(e)' = None
  BY <1>1, NoHandNext, LivesStay
<1> QED BY <1>1, <1>2, OpenEnds, Stutter

LEMMA ListingFailsStep ==
  ASSUME Serial, TypeOK, SerialInv, EventIsOpen, NEW w \in Workers, ListingFails(w)
  PROVE  EventIsOpen' /\ [Album!Next]_Album!vars
<1> USE DEF dbVars, indexVars, apiVars
<1> DEFINE e == task[w].event
<1>1. /\ UNCHANGED <<driveFile, faceRows, disk>> /\ pc[w] = "list"
      /\ EventExists(e) /\ EndTask(w)
      /\ eventRow' = [eventRow EXCEPT ![e].status = "error"]
  BY DEF ListingFails
<1>2. e \in Events
  BY <1>1 DEF TypeOK
<1>3. /\ eventRow'[e].status = "error"
      /\ \A d \in Events : d # e => eventRow'[d] = eventRow[d]
  BY <1>1, <1>2 DEF TypeOK, EventRow
<1>4. pc'[w] = "idle"
  BY <1>1, OnlyWorkerContinues DEF EndTask
<1>5. \A d \in Events : HandOf(d) = None /\ HandOf(d)' = None
  BY <1>1, <1>4, NoHandNow, NoHandNext
<1>6. eventRow[e].status = "indexing"
  BY <1>1 DEF EventIsOpen
<1>7. \A d \in Events : LifeOf(d)' = LifeOf(d)
  BY <1>3, <1>6 DEF LifeOf
<1> QED BY <1>1, <1>4, <1>5, <1>7, OpenEnds, Stutter

LEMMA FinishStep ==
  ASSUME Serial, TypeOK, SerialInv, EventIsOpen, NEW w \in Workers, Finish(w)
  PROVE  EventIsOpen' /\ [Album!Next]_Album!vars
<1> USE DEF dbVars, indexVars, apiVars
<1>0. pc[w] = "pass2" /\ task[w].event \in Events
  BY DEF Finish, TypeOK
<1> PICK e \in Events : e = task[w].event
  BY <1>0
<1>1. /\ UNCHANGED <<driveFile, faceRows, disk>> /\ pc[w] = "pass2"
      /\ EventExists(e) /\ EndTask(w)
      /\ eventRow' = [eventRow EXCEPT ![e].status = "ready"]
  BY DEF Finish
<1>3. /\ eventRow'[e].status = "ready"
      /\ \A d \in Events : d # e => eventRow'[d] = eventRow[d]
  BY <1>1 DEF TypeOK, EventRow
<1>4. pc'[w] = "idle"
  BY <1>1, OnlyWorkerContinues DEF EndTask
<1>5. \A d \in Events : HandOf(d) = None /\ HandOf(d)' = None
  BY <1>1, <1>4, NoHandNow, NoHandNext
<1>6. eventRow[e].status = "indexing"
  BY <1>1 DEF EventIsOpen
<1>7. /\ LifeOf(e) = "open" /\ LifeOf(e)' = "ready"
      /\ \A d \in Events : d # e => LifeOf(d)' = LifeOf(d)
  BY <1>3, <1>6 DEF LifeOf
<1>8. Album!Close(e)
  BY <1>1, <1>5, <1>7 DEF Album!Close
<1> QED BY <1>4, <1>8, OpenEnds DEF Album!Next

\* A commit of a file fails only where the event is gone: the file is the event's,
\* and its new ids are in no row.
LEMMA CommitsSucceed ==
  ASSUME TypeOK, SerialInv, NEW w \in Workers, pc[w] = "commit",
         EventExists(task[w].event)
  PROVE  driveFile[task[w].cur.file] # NoRow /\ ~IdsClash(w)
<1>1. task[w].event \in Events /\ TaskIdsNew(w) /\ TaskOwnsFiles(w)
  BY DEF SerialInv, TaskInv, TypeOK
<1>2. driveFile[task[w].cur.file] # NoRow
  BY <1>1, NoneAssumption DEF TaskOwnsFiles, NoRow
<1>3. ~IdsClash(w)
  <2> SUFFICES ASSUME NEW d \in Events, NEW r \in faceRows[d],
                      NEW x \in task[w].ins, r.id = x.id
               PROVE  FALSE
    BY DEF IdsClash, IdsOf
  <2>1. r.id < x.id
    BY <1>1 DEF TaskIdsNew
  <2>2. r.id \in Nat
    BY DEF TypeOK, Face
  <2> QED BY <2>1, <2>2
<1> QED BY <1>2, <1>3

\* A task whose flush fails has lost its event, or is in no commit of a file.
LEMMA AbandonStep ==
  ASSUME Serial, TypeOK, SerialInv, EventIsOpen, NEW w \in Workers, Abandon(w)
  PROVE  EventIsOpen' /\ [Album!Next]_Album!vars
<1> USE DEF dbVars, indexVars, apiVars
<1> DEFINE e == task[w].event
<1>0. FlushFails(w) /\ EndTask(w) /\ pc[w] # "idle"
      /\ UNCHANGED <<eventRow, driveFile, faceRows, disk>>
  BY DEF Abandon, FlushFails
<1>1. /\ EventExists(e) => pc[w] # "commit"
      /\ pc[w] # "detect"
  BY <1>0, CommitsSucceed DEF FlushFails
<1>2. \A d \in Events : HandOf(d) = None
  BY <1>1, HandNow DEF InHand
<1> QED BY <1>0, <1>2, EndStep DEF StatusesStay

\* A step of the task that only changes the task, its session or the columns of
\* its event.
LEMMA QuietStep ==
  ASSUME Serial, TypeOK, EventIsOpen, NEW w \in Workers, NEW at, NEW t,
         pc[w] \notin {"idle", "detect", "commit"}, Continue(w, at, t),
         t.event = task[w].event,
         \/ at \notin {"detect", "commit"}
         \/ at = "commit" /\ t.del = {} /\ t.ins = {},
         StatusesStay, UNCHANGED <<faceRows, disk, driveFile>>
  PROVE  EventIsOpen' /\ [Album!Next]_Album!vars
<1>1. pc'[w] = at /\ task'[w] = t
  BY OnlyWorkerContinues
<1>2. EventIsOpen'
  BY <1>1, OpenStays DEF StatusesStay
<1>3. \A e \in Events : HandOf(e) = None /\ HandOf(e)' = None
  BY <1>1, HandNow, HandNext DEF InHand
<1> QED BY <1>2, <1>3, LivesStay, Stutter

LEMMA ListStep ==
  ASSUME Serial, TypeOK, SerialInv, EventIsOpen, NEW w \in Workers, ListFiles(w)
  PROVE  EventIsOpen' /\ [Album!Next]_Album!vars
<1> USE DEF dbVars, indexVars, apiVars
<1> DEFINE e == task[w].event
           found == [f \in Files |-> IF f \in Folder[e] THEN drive[f] ELSE 0]
           number == Cardinality(Folder[e])
<1> PICK n \in NextFaissIds :
      Continue(w, "plan", [task[w] EXCEPT !.nextId = n, !.listing = found])
  BY DEF ListFiles
<1> DEFINE t == [task[w] EXCEPT !.nextId = n, !.listing = found]
<1>1. /\ UNCHANGED <<driveFile, faceRows, disk>> /\ pc[w] = "list"
      /\ eventRow' = [eventRow EXCEPT ![e].total = number, ![e].indexed = 0]
      /\ Continue(w, "plan", t)
  BY DEF ListFiles
<1> HIDE DEF found, number
<1>2. e \in Events /\ task[w] \in Task
  BY <1>1 DEF TypeOK
<1>3. t.event = e
  BY <1>2 DEF Task
<1> HIDE DEF t
<1>4. StatusesStay
  BY <1>1, <1>2 DEF StatusesStay, TypeOK, EventRow
<1> QED BY <1>1, <1>3, <1>4, QuietStep

LEMMA PlanStep ==
  ASSUME Serial, TypeOK, SerialInv, EventIsOpen, NEW w \in Workers, PlanFiles(w)
  PROVE  EventIsOpen' /\ [Album!Next]_Album!vars
<1> USE DEF dbVars, indexVars, apiVars
<1> PICK todo, fresh, counted :
      Continue(w, "upsert", [task[w] EXCEPT !.todo = todo, !.fresh = fresh,
                                            !.counted = counted])
  BY DEF PlanFiles
<1> DEFINE t == [task[w] EXCEPT !.todo = todo, !.fresh = fresh, !.counted = counted]
<1>1. /\ UNCHANGED <<eventRow, driveFile, faceRows, disk>> /\ pc[w] = "plan"
      /\ Continue(w, "upsert", t)
  BY DEF PlanFiles
<1>2. t.event = task[w].event
  BY DEF TypeOK, Task
<1> HIDE DEF t
<1> QED BY <1>1, <1>2, QuietStep DEF StatusesStay

\* Pass 1 is committed: the listed files are the event's.
LEMMA UpsertStep ==
  ASSUME Serial, TypeOK, SerialInv, EventIsOpen, NEW w \in Workers, UpsertFiles(w)
  PROVE  EventIsOpen' /\ [Album!Next]_Album!vars
<1> USE DEF dbVars, indexVars, apiVars
<1>0. pc[w] = "upsert" /\ task[w].event \in Events
  BY DEF UpsertFiles, TypeOK
<1> PICK e \in Events : e = task[w].event
  BY <1>0
<1> DEFINE t == [task[w] EXCEPT !.listing = NoTask.listing, !.fresh = {}]
           n == task[w].counted
<1>1. /\ UNCHANGED <<faceRows, disk>> /\ pc[w] = "upsert"
      /\ EventExists(e) /\ Continue(w, "pass2", t)
      /\ eventRow' = [eventRow EXCEPT ![e].indexed = n]
      /\ driveFile' = [f \in Files |->
                         IF f \in Listed(w)
                           THEN Upserted(driveFile[f], e, f, task[w].listing[f])
                           ELSE driveFile[f]]
  BY DEF UpsertFiles
<1>2. task[w] \in Task
  BY DEF TypeOK
<1>3. t.event = e
  BY <1>2 DEF Task
<1> HIDE DEF t, n
<1>4. StatusesStay
  BY <1>1 DEF StatusesStay, TypeOK, EventRow
<1>5. pc'[w] = "pass2" /\ task'[w] = t
  BY <1>1, OnlyWorkerContinues
<1>6. EventIsOpen'
  BY <1>1, <1>3, <1>4, <1>5, OpenStays DEF StatusesStay
<1>7. \A f \in Files : driveFile'[f].owner = IF f \in Listed(w) THEN e
                                             ELSE driveFile[f].owner
  <2>1. ASSUME NEW f \in Files
        PROVE  Upserted(driveFile[f], e, f, task[w].listing[f]).owner = e
    BY DEF Upserted, Refreshed, FileRow, TypeOK
  <2> QED BY <1>1, <2>1
<1>8. \A d \in Events : /\ HandOf(d) = None /\ HandOf(d)' = None
                        /\ LifeOf(d)' = LifeOf(d)
  BY <1>1, <1>4, <1>5, NoHandNow, NoHandNext, LivesStay
<1>9. LifeOf(e) = "open"
  BY <1>1 DEF EventIsOpen, LifeOf
<1> PICK F \in SUBSET Files : F = Listed(w)
  BY DEF Listed
<1>10. Album!Adopt(e, F)
  BY <1>1, <1>7, <1>8, <1>9 DEF Album!Adopt, Album!HandsFree
<1> QED BY <1>6, <1>10 DEF Album!Next

LEMMA FetchStep ==
  ASSUME Serial, TypeOK, SerialInv, EventIsOpen, NEW w \in Workers, FetchBatch(w)
  PROVE  EventIsOpen' /\ [Album!Next]_Album!vars
<1> USE DEF dbVars, indexVars, apiVars
<1> PICK todo, batch :
      Continue(w, "pass2", [task[w] EXCEPT !.todo = todo, !.batch = batch])
  BY DEF FetchBatch
<1> DEFINE t == [task[w] EXCEPT !.todo = todo, !.batch = batch]
<1>1. /\ UNCHANGED <<eventRow, driveFile, faceRows, disk>> /\ pc[w] = "pass2"
      /\ Continue(w, "pass2", t)
  BY DEF FetchBatch
<1>2. t.event = task[w].event
  BY DEF TypeOK, Task
<1> HIDE DEF t
<1> QED BY <1>1, <1>2, QuietStep DEF StatusesStay

-----------------------------------------------------------------------------
(* A task in pass 2 *)

\* Vectors that are written to the index file of a deleted event are scraps.
LEMMA ScrapsStep ==
  ASSUME Serial, TypeOK, SerialInv, EventIsOpen, NEW w \in Workers,
         pc[w] \notin {"idle", "list", "plan", "upsert"}, ~EventExists(task[w].event),
         task'[w].event = task[w].event,
         \A d \in Events : d # task[w].event => disk'[d] = disk[d],
         disk' \in [Events -> SUBSET Face],
         UNCHANGED <<eventRow, driveFile, faceRows>>
  PROVE  EventIsOpen' /\ [Album!Next]_Album!vars
<1>0. task[w].event \in Events
  BY DEF TypeOK
<1> PICK e \in Events : e = task[w].event
  BY <1>0
<1>1. EventIsOpen'
  BY OpenStays
<1>2. \A d \in Events : HandOf(d) = None /\ HandOf(d)' = None
  BY HandNow, HandNext DEF InHand, EventExists
<1>3. \A d \in Events : LifeOf(d)' = LifeOf(d)
  BY LivesStay DEF StatusesStay
<1>4. LifeOf(e) = "deleted"
  BY DEF LifeOf, EventExists, SerialInv, TaskInv
<1>5. disk' = [disk EXCEPT ![e] = disk'[e]]
  BY DEF TypeOK
<1>6. Album!Scraps(e, disk'[e])
  BY <1>2, <1>3, <1>4, <1>5 DEF Album!Scraps
<1> QED BY <1>1, <1>6 DEF Album!Next

\* Of an event that exists: the old vectors of a file leave the index while its
\* rows stay, or the file was not fetched and nothing changes.
LEMMA RemoveStep ==
  ASSUME Serial, TypeOK, SerialInv, EventIsOpen, NEW w \in Workers,
         NEW m \in task[w].batch, RemoveOldEmbeddings(w, m)
  PROVE  EventIsOpen' /\ [Album!Next]_Album!vars
<1> USE DEF dbVars, indexVars, apiVars
<1>0. /\ pc[w] = "pass2" /\ task[w].event \in Events /\ task[w] \in Task
      /\ UNCHANGED <<eventRow, driveFile, faceRows>>
  BY DEF RemoveOldEmbeddings, TypeOK
<1> PICK e \in Events : e = task[w].event
  BY <1>0
<1> DEFINE old == IdsOf(RowsOf(e, m.file))
           kept == Without(IndexOf(w), old)
           t == Taken(task[w], m)
           tFailed == [t EXCEPT !.count = 0, !.src = "error"]
           tCached == Cached(t, kept)
<1>1. TaskAgrees(w) /\ TaskIdsNew(w) /\ TaskOwnsFiles(w)
  BY <1>0 DEF SerialInv, TaskInv
<1>2. \/ UNCHANGED <<disk, torn>> /\ Continue(w, "commit", tFailed)
      \/ old = {} /\ UNCHANGED <<disk, torn>> /\ Continue(w, "detect", t)
      \/ Save(e, kept) /\ Continue(w, "detect", tCached)
  BY <1>1, NothingRaises DEF RemoveOldEmbeddings, FileRaises, SerialInv
<1>3. ASSUME NEW u \in {t, tFailed, tCached}
      PROVE  u.event = e /\ u.cur = m /\ u.del = {} /\ u.ins = {}
  BY <1>0, <1>1 DEF Task, Taken, Cached, TaskIdsNew
<1>4. EventExists(e) => /\ kept = faceRows[e] \ RowsOf(e, m.file)
                        /\ old = {} => RowsOf(e, m.file) = {}
                        /\ disk[e] = faceRows[e]
  <2> SUFFICES ASSUME EventExists(e)
               PROVE  /\ kept = faceRows[e] \ RowsOf(e, m.file)
                      /\ old = {} => RowsOf(e, m.file) = {}
                      /\ disk[e] = faceRows[e]
    OBVIOUS
  <2>1. IndexOf(w) = faceRows[e] /\ disk[e] = faceRows[e]
    BY <1>0, <1>1 DEF IndexOf, TaskAgrees
  <2>2. kept = faceRows[e] \ RowsOf(e, m.file)
    BY <1>1, <2>1, WithoutRemoves DEF SerialInv
  <2> QED BY <2>1, <2>2 DEF IdsOf
<1>5. kept \in SUBSET Face
  BY <1>0, IndexOfType DEF Without
<1> HIDE DEF t, tFailed, tCached, kept, old
<1>6. CASE ~EventExists(e)
  <2>1. task'[w].event = e
    BY <1>2, <1>3, OnlyWorkerContinues
  <2>2. /\ \A d \in Events : d # e => disk'[d] = disk[d]
        /\ disk' \in [Events -> SUBSET Face]
    BY <1>2, <1>5 DEF Save, TypeOK
  <2> QED BY <1>0, <1>6, <2>1, <2>2, ScrapsStep
<1>7. CASE EventExists(e) /\ UNCHANGED <<disk, torn>> /\ Continue(w, "commit", tFailed)
  BY <1>0, <1>3, <1>7, QuietStep DEF StatusesStay
<1>8. ASSUME EventExists(e), disk' = [disk EXCEPT ![e] = kept],
             NEW u \in {t, tCached}, Continue(w, "detect", u)
      PROVE  EventIsOpen' /\ [Album!Next]_Album!vars
  <2>1. pc'[w] = "detect" /\ task'[w] = u /\ u.event = e /\ u.cur = m
    BY <1>3, <1>8, OnlyWorkerContinues
  <2>2. EventIsOpen'
    BY <1>0, <2>1, OpenStays
  <2>3. \A d \in Events : LifeOf(d)' = LifeOf(d) /\ (EventExists(d)' <=> EventExists(d))
    BY <1>0, LivesStay DEF StatusesStay
  <2>4. \A d \in Events : /\ HandOf(d) = None
                          /\ HandOf(d)' = IF d = e THEN m.file ELSE None
    BY <1>0, <1>8, <2>1, <2>3, HandNow, HandNext DEF InHand
  <2>5. LifeOf(e) = "open"
    BY <1>0, <1>8 DEF EventIsOpen, LifeOf
  <2>6. m.file \in Files /\ driveFile[m.file].owner = e
    BY <1>0, <1>1, <1>8 DEF TaskOwnsFiles, Task, Media
  <2>7. kept = disk[e] \ Album!FacesOf(disk[e], m.file)
    BY <1>4, <1>8 DEF RowsOf, Album!FacesOf
  <2>8. Album!Take(e, m.file)
    BY <1>0, <1>8, <2>3, <2>4, <2>5, <2>6, <2>7 DEF Album!Take, Album!HandsFree
  <2> QED BY <2>2, <2>6, <2>8 DEF Album!Next
<1>9. CASE EventExists(e) /\ old = {} /\ UNCHANGED <<disk, torn>> /\ Continue(w, "detect", t)
  <2>1. disk' = [disk EXCEPT ![e] = kept]
    BY <1>4, <1>9 DEF TypeOK
  <2> QED BY <1>8, <1>9, <2>1
<1>10. CASE EventExists(e) /\ Save(e, kept) /\ Continue(w, "detect", tCached)
  BY <1>8, <1>10 DEF Save
<1> QED BY <1>2, <1>6, <1>7, <1>9, <1>10

\* The new vectors of the file in hand enter the index; where none are found and
\* none were there, the album has let go of the file.
LEMMA DetectStep ==
  ASSUME Serial, TypeOK, SerialInv, EventIsOpen, NEW w \in Workers, DetectAndAdd(w)
  PROVE  EventIsOpen' /\ [Album!Next]_Album!vars
<1> USE DEF dbVars, indexVars, apiVars
<1>0. /\ pc[w] = "detect" /\ task[w].event \in Events /\ task[w] \in Task
      /\ task[w].cur \in Media
      /\ UNCHANGED <<eventRow, driveFile, faceRows>>
  BY DEF DetectAndAdd, TypeOK
<1> PICK e \in Events, f \in Files : e = task[w].event /\ f = task[w].cur.file
  BY <1>0 DEF Media
<1>1. TaskAgrees(w) /\ TaskIdsNew(w) /\ TaskOwnsFiles(w)
  BY <1>0 DEF SerialInv, TaskInv
<1> PICK d \in Detections(task[w].cur) :
      LET new == NewFaces(task[w], d)
          grown == IndexOf(w) \cup new
          t == [task[w] EXCEPT !.del = RowsOf(e, f), !.ins = new,
                               !.nextId = @ + d.count,
                               !.count = d.count, !.src = d.src]
      IN
      \/ d.count = 0 /\ UNCHANGED <<disk, torn>> /\ Continue(w, "commit", t)
      \/ d.count > 0 /\ Save(e, grown) /\ Continue(w, "commit", Cached(t, grown))
  BY <1>1, NothingRaises DEF DetectAndAdd, SerialInv
<1> DEFINE new == NewFaces(task[w], d)
           grown == IndexOf(w) \cup new
           t == [task[w] EXCEPT !.del = RowsOf(e, f), !.ins = new,
                                !.nextId = @ + d.count,
                                !.count = d.count, !.src = d.src]
           tCached == Cached(t, grown)
<1>2. \/ d.count = 0 /\ UNCHANGED <<disk, torn>> /\ Continue(w, "commit", t)
      \/ d.count > 0 /\ Save(e, grown) /\ Continue(w, "commit", tCached)
  OBVIOUS
<1>3. ASSUME NEW u \in {t, tCached}
      PROVE  /\ u.event = e /\ u.cur = task[w].cur
             /\ u.del = RowsOf(e, f) /\ u.ins = new
  <2> HIDE DEF new, grown
  <2>1. t.event = e /\ t.cur = task[w].cur /\ t.del = RowsOf(e, f) /\ t.ins = new
    BY <1>0 DEF Task
  <2>2. /\ tCached.event = t.event /\ tCached.cur = t.cur
        /\ tCached.del = t.del /\ tCached.ins = t.ins
    BY <1>0 DEF Task, Cached
  <2> HIDE DEF t, tCached
  <2> QED BY <2>1, <2>2
<1>4. d.count \in Nat /\ d.ver \in Versions /\ task[w].nextId \in Nat
  BY <1>0, DetectionsType DEF Task
<1>5. /\ new \in SUBSET Face
      /\ \A x \in new : task[w].nextId <= x.id /\ x.file = f
      /\ \A x, y \in new : x.id = y.id => x = y
      /\ new = {} <=> d.count = 0
  <2>1. \A x, y \in new : x.id = y.id => x = y
    BY DEF NewFaces
  <2>2. \A x \in new : x.file = f
    BY DEF NewFaces
  <2>3. d.count = 0 => new = {}
    BY <1>4 DEF NewFaces
  <2>4. d.count # 0 => [id |-> task[w].nextId, file |-> f, ver |-> d.ver] \in new
    BY <1>4 DEF NewFaces
  <2> QED BY <1>0, <1>4, <2>1, <2>2, <2>3, <2>4, NewFacesType
<1>6. grown \in SUBSET Face
  BY <1>0, <1>5, IndexOfType
<1> HIDE DEF t, tCached, new, grown
<1>7. /\ pc'[w] = "commit" /\ task'[w].event = e /\ task'[w].cur = task[w].cur
      /\ task'[w].del = RowsOf(e, f) /\ task'[w].ins = new
  BY <1>2, <1>3, OnlyWorkerContinues
<1>8. EventIsOpen'
  BY <1>0, <1>7, OpenStays
<1>9. CASE ~EventExists(e)
  <2>1. /\ \A c \in Events : c # e => disk'[c] = disk[c]
        /\ disk' \in [Events -> SUBSET Face]
    BY <1>2, <1>6 DEF Save, TypeOK
  <2> QED BY <1>0, <1>7, <1>9, <2>1, ScrapsStep
<1>10. CASE EventExists(e)
  <2>1. \A c \in Events : LifeOf(c)' = LifeOf(c) /\ (EventExists(c)' <=> EventExists(c))
    BY <1>0, LivesStay DEF StatusesStay
  <2>2. \A c \in Events :
          /\ HandOf(c) = IF c = e THEN f ELSE None
          /\ HandOf(c)' = IF c = e /\ RowsOf(e, f) \cup new # {} THEN f ELSE None
    BY <1>0, <1>7, <1>10, <2>1, HandNow, HandNext DEF InHand
  <2>3. LifeOf(e) = "open" /\ f # None
    BY <1>0, <1>10, NoneAssumption DEF EventIsOpen, LifeOf
  <2>4. disk[e] = faceRows[e] \ RowsOf(e, f)
    BY <1>0, <1>1, <1>10 DEF TaskAgrees
  <2>5. CASE UNCHANGED disk /\ RowsOf(e, f) \cup new # {}
    BY <1>0, <1>8, <2>1, <2>2, <2>5, Stutter
  <2>6. CASE UNCHANGED disk /\ RowsOf(e, f) \cup new = {}
    <3>1. faceRows' = [faceRows EXCEPT ![e] = disk[e]]
      BY <1>0, <2>4, <2>6 DEF TypeOK
    <3>2. Album!Settle(e)
      BY <1>0, <2>1, <2>2, <2>3, <2>6, <3>1 DEF Album!Settle
    <3> QED BY <1>8, <3>2 DEF Album!Next
  <2>7. CASE d.count > 0 /\ Save(e, grown)
    <3>1. grown = disk[e] \cup new
      BY <1>0, <1>1, <1>10 DEF grown, IndexOf, TaskAgrees
    <3>2. disk' = [disk EXCEPT ![e] = @ \cup new]
      BY <2>7, <3>1 DEF Save
    <3>3. new # {}
      BY <1>4, <1>5, <2>7
    <3>4. \A c \in Events : \A x \in new, r \in faceRows[c] : x.id # r.id
      <4> SUFFICES ASSUME NEW c \in Events, NEW x \in new, NEW r \in faceRows[c]
                   PROVE  x.id # r.id
        OBVIOUS
      <4>1. r.id \in Nat /\ x.id \in Nat /\ r.id < task[w].nextId
        BY <1>0, <1>1, <1>5 DEF TaskIdsNew, TypeOK, Face
      <4> QED BY <1>4, <1>5, <4>1
    <3> PICK S : S = disk'[e] \ disk[e]
      OBVIOUS
    <3>5. S \subseteq new /\ disk' = [disk EXCEPT ![e] = @ \cup S]
      BY <3>2 DEF TypeOK
    <3>6. Album!FacesOf(disk[e], f) = {}
      BY <2>4 DEF Album!FacesOf, RowsOf
    <3>7. Album!Unused(S) /\ Album!OneFaceEach(S)
      BY <1>5, <3>4, <3>5 DEF Album!Unused, Album!OneFaceEach
    <3>8. Album!Put(e, S)
      <4>1. /\ [c \in Events |-> LifeOf(c)][e] = "open"
            /\ [c \in Events |-> HandOf(c)][e] = f
        BY <1>0, <2>2, <2>3
      <4>2. \A c \in Events : HandOf(c)' = HandOf(c)
        BY <2>2, <3>3
      <4>3. /\ [c \in Events |-> LifeOf(c)]' = [c \in Events |-> LifeOf(c)]
            /\ [c \in Events |-> HandOf(c)]' = [c \in Events |-> HandOf(c)]
        BY <2>1, <4>2
      <4>4. /\ [g \in Files |-> driveFile[g].owner]' = [g \in Files |-> driveFile[g].owner]
            /\ faceRows' = faceRows
        BY <1>0
      <4>5. \A x \in S : x.file = f
        BY <1>5, <3>5
      <4> QED BY <2>3, <3>5, <3>6, <3>7, <4>1, <4>3, <4>4, <4>5 DEF Album!Put
    <3> QED BY <1>8, <3>8 DEF Album!Next
  <2> QED BY <1>2, <2>5, <2>6, <2>7
<1> QED BY <1>9, <1>10

\* The rows follow the index.
LEMMA CommitStep ==
  ASSUME Serial, TypeOK, SerialInv, EventIsOpen, NEW w \in Workers, CommitFile(w)
  PROVE  EventIsOpen' /\ [Album!Next]_Album!vars
<1> USE DEF dbVars, indexVars, apiVars
<1>0. /\ pc[w] = "commit" /\ task[w].event \in Events /\ task[w] \in Task
      /\ task[w].cur.file \in Files /\ UNCHANGED disk
  BY DEF CommitFile, TypeOK, Media
<1> PICK e \in Events, f \in Files : e = task[w].event /\ f = task[w].cur.file
  BY <1>0
<1> DEFINE tk == task[w]
           t == [tk EXCEPT !.counted = @ + 1, !.cur = NoMedia, !.count = 0,
                           !.src = "none", !.del = {}, !.ins = {}]
           n == tk.counted + 1
<1>1. /\ EventExists(e) /\ Continue(w, "pass2", t)
      /\ faceRows' = [faceRows EXCEPT ![e] = (@ \ tk.del) \cup tk.ins]
      /\ driveFile' = [driveFile EXCEPT ![f].count = tk.count, ![f].src = tk.src]
      /\ eventRow' = [eventRow EXCEPT ![e].indexed = n]
  BY DEF CommitFile
<1>2. t.event = e
  BY <1>0 DEF Task
<1> HIDE DEF t, n
<1>3. pc'[w] = "pass2" /\ task'[w] = t
  BY <1>1, OnlyWorkerContinues
<1>4. StatusesStay
  BY <1>1 DEF StatusesStay, TypeOK, EventRow
<1>5. EventIsOpen'
  BY <1>0, <1>2, <1>3, <1>4, OpenStays DEF StatusesStay
<1>6. \A g \in Files : driveFile'[g].owner = driveFile[g].owner
  <2>1. ASSUME NEW g \in Files PROVE driveFile'[g].owner = driveFile[g].owner
    <3>1. driveFile[g] \in FileRow /\ driveFile \in [Files -> FileRow]
      BY DEF TypeOK
    <3>2. CASE g = f
      BY <1>1, <3>1, <3>2 DEF FileRow
    <3>3. CASE g # f
      BY <1>1, <3>1, <3>3
    <3> QED BY <3>2, <3>3
  <2> QED BY <2>1
<1>7. \A d \in Events : LifeOf(d)' = LifeOf(d) /\ HandOf(d)' = None
  BY <1>3, <1>4, LivesStay, NoHandNext
<1>8. disk[e] = (faceRows[e] \ tk.del) \cup tk.ins
  BY <1>0, <1>1 DEF SerialInv, TaskInv, TaskAgrees
<1>9. CASE tk.del \cup tk.ins # {}
  <2>1. HandOf(e) = f /\ \A d \in Events : d # e => HandOf(d) = None
    BY <1>0, <1>1, <1>9, HandNow DEF InHand
  <2>2. LifeOf(e) = "open" /\ f # None
    BY <1>0, <1>1, NoneAssumption DEF EventIsOpen, LifeOf
  <2>3. faceRows' = [faceRows EXCEPT ![e] = disk[e]]
    BY <1>1, <1>8
  <2>4. Album!Settle(e)
    BY <1>0, <1>6, <1>7, <2>1, <2>2, <2>3 DEF Album!Settle
  <2> QED BY <1>5, <2>4 DEF Album!Next
<1>10. CASE tk.del \cup tk.ins = {}
  <2>1. UNCHANGED faceRows
    BY <1>1, <1>10 DEF TypeOK
  <2>2. \A d \in Events : HandOf(d) = None
    BY <1>0, <1>10, HandNow DEF InHand
  <2> QED BY <1>0, <1>5, <1>6, <1>7, <2>1, <2>2, Stutter
<1> QED BY <1>9, <1>10

-----------------------------------------------------------------------------
(* The refinement *)

LEMMA AlbumInit == Init => Album!Init /\ EventIsOpen
BY DEF Init, Album!Init, LifeOf, HandOf, NoRow, EventIsOpen

\* Steps of other workers are out: there is one.  What no worker and no request
\* does is invisible to the album.
LEMMA AlbumStep ==
  Serial /\ TypeOK /\ SerialInv /\ EventIsOpen /\ [Next]_vars
    => EventIsOpen' /\ [Album!Next]_Album!vars
<1> SUFFICES ASSUME Serial, TypeOK, SerialInv, EventIsOpen, [Next]_vars
             PROVE  EventIsOpen' /\ [Album!Next]_Album!vars
  OBVIOUS
<1> USE DEF dbVars, indexVars, apiVars
<1> DEFINE Goal == EventIsOpen' /\ [Album!Next]_Album!vars
<1>1. ASSUME UNCHANGED <<eventRow, driveFile, faceRows, disk, pc, task>> PROVE Goal
  <2>1. \A e \in Events : LifeOf(e)' = LifeOf(e) /\ HandOf(e)' = HandOf(e)
    BY <1>1 DEF LifeOf, HandOf, EventExists
  <2>2. EventIsOpen'
    BY <1>1 DEF EventIsOpen, EventExists
  <2> QED BY <1>1, <2>1, <2>2, Stutter
<1>2. ASSUME NEW w \in Workers, WorkerStep(w) PROVE Goal
  <2>1. CASE StartTask(w)
    BY <2>1, StartStep
  <2>2. CASE ListFiles(w)
    BY <2>2, ListStep
  <2>3. CASE ListingFails(w)
    BY <2>3, ListingFailsStep
  <2>4. CASE PlanFiles(w)
    BY <2>4, PlanStep
  <2>5. CASE UpsertFiles(w)
    BY <2>5, UpsertStep
  <2>6. CASE FetchBatch(w)
    BY <2>6, FetchStep
  <2>7. CASE \E m \in task[w].batch : RemoveOldEmbeddings(w, m)
    BY <2>7, RemoveStep
  <2>8. CASE DetectAndAdd(w)
    BY <2>8, DetectStep
  <2>9. CASE CommitFile(w)
    BY <2>9, CommitStep
  <2>10. CASE Finish(w)
    BY <2>10, FinishStep
  <2>11. CASE Abandon(w)
    BY <2>11, AbandonStep
  <2> HIDE DEF Goal
  <2> QED BY <1>2, <2>1, <2>2, <2>3, <2>4, <2>5, <2>6, <2>7, <2>8, <2>9, <2>10, <2>11
          DEF WorkerStep
<1>3. ASSUME NEW e \in Events, ApiStep(e) PROVE Goal
  <2>1. CASE CreateEvent(e)
    BY <2>1, CreateStep
  <2>2. CASE Reindex(e)
    BY <1>1, <2>2 DEF Reindex
  <2>3. CASE DeleteRows(e)
    BY <2>3, DeleteStep
  <2>4. CASE RemoveIndexFile(e)
    BY <2>4, RemoveFileStep
  <2> HIDE DEF Goal
  <2> QED BY <1>3, <2>1, <2>2, <2>3, <2>4 DEF ApiStep
<1>4. ASSUME NEW w \in Workers, CrashWorker(w) PROVE Goal
  BY <1>4, NothingRaises
<1>5. ASSUME CrashApi PROVE Goal
  BY <1>5 DEF CrashApi, TypeOK, Serial
<1>6. ASSUME NEW f \in Files, ChangeContent(f) PROVE Goal
  BY <1>1, <1>6 DEF ChangeContent
<1>7. ASSUME UNCHANGED vars PROVE Goal
  BY <1>1, <1>7 DEF vars
<1> HIDE DEF Goal
<1>8. Goal
  BY <1>2, <1>3, <1>4, <1>5, <1>6, <1>7 DEF Next, Rest
<1> QED BY <1>8 DEF Goal

\* The indexing task implements the album, for all folders, contents, numbers of
\* events and requests: an event that searches can see has equal stores, and in
\* between they differ by the one file whose rows are about to follow.
THEOREM ImplementsAlbumSerially == Serial => (Spec => ImplementsAlbum)
<1> SUFFICES ASSUME Serial PROVE Spec => Album!Spec
  BY DEF ImplementsAlbum
<1>1. TypeOK /\ SerialInv /\ EventIsOpen /\ [Next]_vars
        => EventIsOpen' /\ [Album!Next]_Album!vars
  BY AlbumStep
<1> QED BY <1>1, AlbumInit, SerialCorrect, TypeCorrect, PTL DEF Spec, Album!Spec

\* What the album guarantees then holds of the two stores: all ids in the table are
\* different, those of an index file stand for the same faces as in the table, and
\* the stores of an event that is not being indexed do not differ.
Guarantees == INSTANCE FaceAlbumProofs WITH
  life <- [e \in Events |-> LifeOf(e)],
  owner <- [f \in Files |-> driveFile[f].owner],
  rows <- faceRows,
  index <- disk,
  hand <- [e \in Events |-> HandOf(e)]

THEOREM AlbumGuaranteesSerially ==
  Serial => (Spec => /\ []Guarantees!StoresDifferInHand
                     /\ []Guarantees!IdsStandForFaces
                     /\ []Guarantees!RowsAreOwned)
<1>1. Album!Init => Guarantees!Init
  BY DEF Album!Init, Guarantees!Init
<1>2. [Album!Next]_Album!vars => [Guarantees!Next]_Guarantees!vars
  BY DEF Album!vars, Guarantees!vars, Album!Next, Guarantees!Next,
         Album!Create, Album!Open, Album!Adopt, Album!Take, Album!Put, Album!Settle,
         Album!Close, Album!Delete, Album!Scraps, Album!HandsFree, Album!FacesOf,
         Album!Unused, Album!OneFaceEach, Album!Live, Album!Referenced,
         Guarantees!Create, Guarantees!Open, Guarantees!Adopt, Guarantees!Take,
         Guarantees!Put, Guarantees!Settle, Guarantees!Close, Guarantees!Delete,
         Guarantees!Scraps, Guarantees!HandsFree, Guarantees!FacesOf, Guarantees!Unused,
         Guarantees!OneFaceEach, Guarantees!Live, Guarantees!Referenced
<1>3. Album!Spec => Guarantees!Spec
  BY <1>1, <1>2, PTL DEF Album!Spec, Guarantees!Spec
<1> QED BY <1>3, ImplementsAlbumSerially, NoneAssumption, Guarantees!OneFileApart, Guarantees!IdsAreFaithful,
       Guarantees!RowsStayOwned, PTL DEF ImplementsAlbum
=============================================================================
