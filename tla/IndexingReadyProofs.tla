------------------------ MODULE IndexingReadyProofs -------------------------
(***************************************************************************)
(* What READY says, one task at a time, whatever is killed and whatever    *)
(* fails: the organizer's count is complete, every file of the folder is   *)
(* accounted for, and what is not flagged can be found.                    *)
(***************************************************************************)
EXTENDS IndexingProofs

\* One worker process; it may be killed, and writes of an index file may fail.
OneWorker == \A v, w \in Workers : v = w

-----------------------------------------------------------------------------
(* What the steps of the only worker do *)

\* The worker goes on with t and no other worker matters.
LEMMA GoesOn ==
  ASSUME TypeOK, NEW w \in Workers, NEW at, NEW t, Continue(w, at, t)
  PROVE  pc'[w] = at /\ task'[w] = t
BY DEF Continue, TypeOK

\* The event columns a task writes.
StatusesStay == \A d \in Events : eventRow'[d].status = eventRow[d].status

LEMMA StartEffect ==
  ASSUME TypeOK, NEW w \in Workers, StartTask(w)
  PROVE  /\ pc[w] = "idle" /\ UNCHANGED <<driveFile, faceRows, disk, torn, deleting>>
         /\ \/ UNCHANGED <<eventRow, pc, task>>
            \/ \E e \in Events :
                 /\ EventExists(e)
                 /\ eventRow'[e].status = "indexing"
                 /\ \A d \in Events : d # e => eventRow'[d] = eventRow[d]
                 /\ pc'[w] = "list" /\ task'[w].event = e
                 /\ task'[w].batch = task[w].batch /\ task'[w].todo = task[w].todo
                 /\ task'[w].ins = task[w].ins /\ task'[w].del = task[w].del
                 /\ task'[w].loaded = task[w].loaded /\ task'[w].mem = task[w].mem
<1> USE DEF dbVars, indexVars, apiVars
<1> PICK e \in Events, r \in 0..MaxRetries :
      \/ ~EventExists(e) /\ UNCHANGED <<eventRow, pc, task>>
      \/ /\ EventExists(e)
         /\ eventRow' = [eventRow EXCEPT ![e].status = "indexing"]
         /\ Continue(w, "list", [task[w] EXCEPT !.event = e, !.retry = r])
  BY DEF StartTask
<1>1. pc[w] = "idle" /\ UNCHANGED <<driveFile, faceRows, disk, torn, deleting>>
  BY DEF StartTask
<1>2. CASE /\ EventExists(e)
           /\ eventRow' = [eventRow EXCEPT ![e].status = "indexing"]
           /\ Continue(w, "list", [task[w] EXCEPT !.event = e, !.retry = r])
  <2> DEFINE t == [task[w] EXCEPT !.event = e, !.retry = r]
  <2>1. /\ t.event = e /\ t.batch = task[w].batch /\ t.todo = task[w].todo
        /\ t.ins = task[w].ins /\ t.del = task[w].del
        /\ t.loaded = task[w].loaded /\ t.mem = task[w].mem
    BY DEF TypeOK, Task
  <2> HIDE DEF t
  <2>2. pc'[w] = "list" /\ task'[w] = t
    BY <1>2, GoesOn DEF t
  <2>3. /\ eventRow'[e].status = "indexing"
        /\ \A d \in Events : d # e => eventRow'[d] = eventRow[d]
    BY <1>2 DEF TypeOK, EventRow
  <2> QED BY <1>1, <1>2, <2>1, <2>2, <2>3
<1> QED BY <1>1, <1>2

LEMMA ListEffect ==
  ASSUME TypeOK, NEW w \in Workers, ListFiles(w)
  PROVE  LET e == task[w].event IN
         /\ pc[w] = "list" /\ pc'[w] = "plan" /\ EventExists(e) /\ e \in Events
         /\ UNCHANGED <<driveFile, faceRows, disk, torn, deleting>>
         /\ eventRow'[e].total = Cardinality(Folder[e]) /\ StatusesStay
         /\ \A d \in Events : d # e => eventRow'[d] = eventRow[d]
         /\ task'[w].event = e
         /\ task'[w].batch = task[w].batch /\ task'[w].todo = task[w].todo
         /\ task'[w].ins = task[w].ins /\ task'[w].del = task[w].del
         /\ task'[w].loaded = task[w].loaded /\ task'[w].mem = task[w].mem
         /\ Listed(w)' = Folder[e]
<1> USE DEF dbVars, indexVars, apiVars
<1> DEFINE e == task[w].event
           found == [f \in Files |-> IF f \in Folder[e] THEN drive[f] ELSE 0]
           number == Cardinality(Folder[e])
<1> PICK n \in NextFaissIds :
      Continue(w, "plan", [task[w] EXCEPT !.nextId = n, !.listing = found])
  BY DEF ListFiles
<1> DEFINE t == [task[w] EXCEPT !.nextId = n, !.listing = found]
<1>1. /\ UNCHANGED <<driveFile, faceRows, disk, torn, deleting>> /\ pc[w] = "list"
      /\ EventExists(e)
      /\ eventRow' = [eventRow EXCEPT ![e].total = number, ![e].indexed = 0]
      /\ Continue(w, "plan", t)
  BY DEF ListFiles
<1>f. {f \in Files : found[f] # 0} = Folder[e]
  <2>1. e \in Events /\ Folder[e] \in SUBSET Files
    BY <1>1, FolderAssumption DEF TypeOK
  <2>2. \A f \in Files : drive[f] # 0
    BY BoundsAssumption DEF TypeOK, Versions
  <2> QED BY <2>1, <2>2
<1> HIDE DEF found, number
<1>2. e \in Events /\ task[w] \in Task
  BY <1>1 DEF TypeOK
<1>3. /\ t.event = e /\ t.batch = task[w].batch /\ t.todo = task[w].todo
      /\ t.ins = task[w].ins /\ t.del = task[w].del
      /\ t.loaded = task[w].loaded /\ t.mem = task[w].mem /\ t.listing = found
  BY <1>2 DEF Task
<1> HIDE DEF t
<1>4. StatusesStay /\ eventRow'[e].total = number
  BY <1>1, <1>2 DEF StatusesStay, TypeOK, EventRow
<1>5. pc'[w] = "plan" /\ task'[w] = t
  BY <1>1, GoesOn
<1>6. Listed(w)' = Folder[e]
  BY <1>3, <1>5, <1>f DEF Listed
<1>7. \A d \in Events : d # e => eventRow'[d] = eventRow[d]
  BY <1>1 DEF TypeOK
<1> QED BY <1>1, <1>2, <1>3, <1>4, <1>5, <1>6, <1>7 DEF number

LEMMA PlanEffect ==
  ASSUME TypeOK, NEW w \in Workers, PlanFiles(w)
  PROVE  LET e == task[w].event
             work == {f \in Listed(w) : ~Unsupported(f) /\
                        ~ShouldSkip(e, f, task[w].listing[f])} IN
         /\ pc[w] = "plan" /\ pc'[w] = "upsert"
         /\ UNCHANGED <<eventRow, driveFile, faceRows, disk, torn, deleting>>
         /\ task'[w].event = e /\ task'[w].batch = task[w].batch
         /\ task'[w].todo = work
         /\ task'[w].fresh = {f \in Listed(w) : driveFile[f] = NoRow}
         /\ task'[w].counted = Cardinality(Listed(w) \ work)
         /\ task'[w].ins = task[w].ins /\ task'[w].del = task[w].del
         /\ task'[w].loaded = task[w].loaded /\ task'[w].mem = task[w].mem
         /\ Listed(w)' = Listed(w)
<1> USE DEF dbVars, indexVars, apiVars
<1> DEFINE e == task[w].event
           work == {f \in Listed(w) : ~Unsupported(f) /\
                      ~ShouldSkip(task[w].event, f, task[w].listing[f])}
           new == {f \in Listed(w) : driveFile[f] = NoRow}
           number == Cardinality(Listed(w) \ work)
           t == [task[w] EXCEPT !.todo = work, !.fresh = new, !.counted = number]
<1>1. /\ UNCHANGED <<eventRow, driveFile, faceRows, disk, torn, deleting>>
      /\ pc[w] = "plan" /\ Continue(w, "upsert", t)
  BY DEF PlanFiles
<1> HIDE DEF work, new, number
<1>2. /\ t.event = e /\ t.loaded = task[w].loaded /\ t.mem = task[w].mem
      /\ t.del = task[w].del /\ t.ins = task[w].ins /\ t.batch = task[w].batch
      /\ t.fresh = new /\ t.counted = number
      /\ t.todo = work /\ t.listing = task[w].listing
  BY DEF TypeOK, Task
<1> HIDE DEF t
<1>3. pc'[w] = "upsert" /\ task'[w] = t
  BY <1>1, GoesOn
<1>4. Listed(w)' = Listed(w)
  BY <1>2, <1>3 DEF Listed
<1> QED BY <1>1, <1>2, <1>3, <1>4 DEF work, new, number

LEMMA UpsertEffect ==
  ASSUME TypeOK, NEW w \in Workers, UpsertFiles(w)
  PROVE  LET e == task[w].event IN
         /\ pc[w] = "upsert" /\ pc'[w] = "pass2" /\ EventExists(e) /\ e \in Events
         /\ UNCHANGED <<faceRows, disk, torn, deleting>>
         /\ \A f \in Listed(w) :
              /\ driveFile'[f].owner = e
              /\ f \in task[w].fresh <=> driveFile[f] = NoRow
              /\ driveFile'[f].src = IF Unsupported(f) THEN "skipped" ELSE driveFile[f].src
              /\ ~Unsupported(f) => driveFile'[f].count = driveFile[f].count
         /\ \A f \in Files \ Listed(w) : driveFile'[f] = driveFile[f]
         /\ eventRow'[e].total = eventRow[e].total /\ StatusesStay
         /\ eventRow'[e].indexed = task[w].counted
         /\ \A d \in Events : d # e => eventRow'[d] = eventRow[d]
         /\ task'[w].event = e /\ task'[w].counted = task[w].counted
         /\ task'[w].batch = task[w].batch /\ task'[w].todo = task[w].todo
         /\ task'[w].ins = task[w].ins /\ task'[w].del = task[w].del
         /\ task'[w].loaded = task[w].loaded /\ task'[w].mem = task[w].mem
<1> USE DEF dbVars, indexVars, apiVars
<1> DEFINE e == task[w].event
           t == [task[w] EXCEPT !.listing = NoTask.listing, !.fresh = {}]
           n == task[w].counted
<1>1. /\ UNCHANGED <<faceRows, disk, torn, deleting>> /\ pc[w] = "upsert"
      /\ EventExists(e) /\ Continue(w, "pass2", t)
      /\ \A f \in Listed(w) : f \in task[w].fresh <=> driveFile[f] = NoRow
      /\ eventRow' = [eventRow EXCEPT ![e].indexed = n]
      /\ driveFile' = [f \in Files |->
                         IF f \in Listed(w)
                           THEN Upserted(driveFile[f], e, f, task[w].listing[f])
                           ELSE driveFile[f]]
  BY DEF UpsertFiles
<1>2. e \in Events /\ task[w] \in Task
  BY <1>1 DEF TypeOK
<1>3. /\ t.event = e /\ t.loaded = task[w].loaded /\ t.mem = task[w].mem
      /\ t.del = task[w].del /\ t.ins = task[w].ins /\ t.batch = task[w].batch
      /\ t.counted = n /\ t.todo = task[w].todo
  BY <1>2 DEF Task
<1> HIDE DEF t
<1>4. pc'[w] = "pass2" /\ task'[w] = t
  BY <1>1, GoesOn
<1>5. n \in Nat
  BY <1>2 DEF Task
<1> HIDE DEF n
<1>6. /\ StatusesStay /\ eventRow'[e].total = eventRow[e].total
      /\ eventRow'[e].indexed = n
      /\ \A d \in Events : d # e => eventRow'[d] = eventRow[d]
  BY <1>1, <1>2 DEF StatusesStay, TypeOK, EventRow
<1>7. ASSUME NEW f \in Listed(w)
      PROVE  /\ driveFile'[f].owner = e
             /\ driveFile'[f].src = IF Unsupported(f) THEN "skipped" ELSE driveFile[f].src
             /\ ~Unsupported(f) => driveFile'[f].count = driveFile[f].count
  <2>1. f \in Files /\ driveFile[f] \in FileRow
    BY DEF TypeOK, Listed
  <2>2. driveFile'[f] = Upserted(driveFile[f], e, f, task[w].listing[f])
    BY <1>1, <2>1
  <2> QED BY <2>1, <2>2 DEF Upserted, Refreshed, FileRow
<1> QED BY <1>1, <1>2, <1>3, <1>4, <1>6, <1>7 DEF n

LEMMA FetchEffect ==
  ASSUME TypeOK, NEW w \in Workers, FetchBatch(w)
  PROVE  /\ pc[w] = "pass2" /\ pc'[w] = "pass2" /\ task[w].batch = {}
         /\ UNCHANGED <<eventRow, driveFile, faceRows, disk, torn, deleting>>
         /\ task'[w].event = task[w].event /\ task'[w].counted = task[w].counted
         /\ task'[w].ins = task[w].ins /\ task'[w].del = task[w].del
         /\ task'[w].loaded = task[w].loaded /\ task'[w].mem = task[w].mem
         /\ \E b \in SUBSET task[w].todo, got \in [Files -> FetchSource] :
              /\ task'[w].todo = task[w].todo \ b
              /\ task'[w].batch =
                   {[file |-> f, src |-> got[f], ver |-> drive[f]] : f \in b}
              /\ \A f \in b : got[f] = "thumbnail" => UseThumbnails
<1> USE DEF dbVars, indexVars, apiVars
<1> DEFINE media(b, got) == {[file |-> f, src |-> got[f], ver |-> drive[f]] : f \in b}
<1> PICK b \in NextBatches(task[w].todo) : \E got \in [b -> FetchSource] :
      /\ \A f \in b : got[f] \in FetchResults(f)
      /\ Continue(w, "pass2", [task[w] EXCEPT !.todo = @ \ b, !.batch = media(b, got)])
  BY DEF FetchBatch
<1> PICK some \in [b -> FetchSource] :
      /\ \A f \in b : some[f] \in FetchResults(f)
      /\ Continue(w, "pass2", [task[w] EXCEPT !.todo = @ \ b, !.batch = media(b, some)])
  OBVIOUS
<1> DEFINE got == [f \in Files |-> IF f \in b THEN some[f] ELSE "failed"]
           batch == media(b, got)
           t == [task[w] EXCEPT !.todo = @ \ b, !.batch = batch]
<1>0. b \subseteq task[w].todo /\ b \subseteq Files
  BY DEF NextBatches, TypeOK, Task
<1>1. media(b, some) = batch
  BY <1>0
<1>2. /\ UNCHANGED <<eventRow, driveFile, faceRows, disk, torn, deleting>>
      /\ pc[w] = "pass2" /\ task[w].batch = {} /\ Continue(w, "pass2", t)
  BY <1>1 DEF FetchBatch
<1>3. got \in [Files -> FetchSource]
  BY <1>0 DEF FetchSource
<1>4. \A f \in b : got[f] = "thumbnail" => UseThumbnails
  BY <1>0 DEF FetchResults
<1> HIDE DEF batch
<1>5. /\ t.event = task[w].event /\ t.loaded = task[w].loaded /\ t.mem = task[w].mem
      /\ t.del = task[w].del /\ t.ins = task[w].ins /\ t.batch = batch
      /\ t.counted = task[w].counted /\ t.todo = task[w].todo \ b
  BY DEF TypeOK, Task
<1> HIDE DEF t
<1>6. pc'[w] = "pass2" /\ task'[w] = t
  BY <1>2, GoesOn
<1>7. task'[w].batch = {[file |-> f, src |-> got[f], ver |-> drive[f]] : f \in b}
  BY <1>5, <1>6 DEF batch
<1> HIDE DEF got
<1> QED BY <1>0, <1>2, <1>3, <1>4, <1>5, <1>6, <1>7

\* Writing the index file of e leaves those of others alone.
LEMMA WriteEffect ==
  ASSUME TypeOK, NEW e \in Events, NEW index,
         Save(e, index) \/ SaveRaises(e)
  PROVE  /\ \A d \in Events : d # e => disk'[d] = disk[d] /\ (d \in torn' <=> d \in torn)
         /\ Save(e, index) => disk'[e] = index /\ e \notin torn'
         /\ SaveRaises(e) => disk'[e] = disk[e] \/ e \in torn'
         /\ SaveRaises(e) => (e \in torn => e \in torn')
BY DEF TypeOK, Save, SaveRaises, indexVars

LEMMA RemoveEffect ==
  ASSUME TypeOK, NEW w \in Workers, NEW m \in task[w].batch, RemoveOldEmbeddings(w, m)
  PROVE  LET e == task[w].event
             kept == Without(IndexOf(w), IdsOf(RowsOf(e, m.file))) IN
         /\ pc[w] = "pass2" /\ pc'[w] \in {"detect", "commit"} /\ e \in Events /\ m \in Media
         /\ UNCHANGED <<eventRow, driveFile, faceRows, deleting>>
         /\ task'[w].event = e /\ task'[w].counted = task[w].counted
         /\ task'[w].todo = task[w].todo /\ task'[w].batch = task[w].batch \ {m}
         /\ task'[w].cur = m
         /\ task'[w].ins = task[w].ins /\ task'[w].del = task[w].del
         /\ pc'[w] = "commit" => task'[w].src = "error"
         /\ \/ UNCHANGED <<disk, torn>>
               /\ task'[w].loaded = task[w].loaded /\ task'[w].mem = task[w].mem
            \/ /\ ~Unreadable(w) /\ task'[w].loaded /\ task'[w].mem = kept
               /\ \/ Save(e, kept)
                  \/ SaveRaises(e)
<1> USE DEF dbVars, indexVars, apiVars
<1> DEFINE e == task[w].event
           old == IdsOf(RowsOf(e, m.file))
           kept == Without(IndexOf(w), old)
           t == Taken(task[w], m)
           tFailed == [t EXCEPT !.count = 0, !.src = "error"]
           tCached == Cached(t, kept)
           tBoth == [tCached EXCEPT !.count = 0, !.src = "error"]
<1>0. /\ UNCHANGED <<eventRow, driveFile, faceRows, deleting>> /\ pc[w] = "pass2"
      /\ e \in Events /\ task[w] \in Task /\ m \in Media
  BY DEF RemoveOldEmbeddings, TypeOK, Task
<1>1. \/ UNCHANGED <<disk, torn>> /\ Continue(w, "commit", tFailed)
      \/ UNCHANGED <<disk, torn>> /\ Continue(w, "detect", t)
      \/ ~Unreadable(w) /\ Save(e, kept) /\ Continue(w, "detect", tCached)
      \/ ~Unreadable(w) /\ SaveRaises(e) /\ Continue(w, "commit", tBoth)
  BY DEF RemoveOldEmbeddings, FileRaises
<1> HIDE DEF kept, old
<1>2. ASSUME NEW u \in {t, tFailed, tCached, tBoth}
      PROVE  /\ u.event = e /\ u.cur = m /\ u.batch = task[w].batch \ {m}
             /\ u.todo = task[w].todo /\ u.counted = task[w].counted
             /\ u.del = task[w].del /\ u.ins = task[w].ins
  <2>1. /\ t.event = e /\ t.cur = m /\ t.batch = task[w].batch \ {m}
        /\ t.todo = task[w].todo /\ t.counted = task[w].counted
        /\ t.del = task[w].del /\ t.ins = task[w].ins
    BY <1>0 DEF Task, Taken
  <2>2. t \in Task
    BY <1>0 DEF Task, Taken
  <2> DEFINE Same(v) == /\ v.event = t.event /\ v.cur = t.cur /\ v.batch = t.batch
                        /\ v.todo = t.todo /\ v.counted = t.counted
                        /\ v.del = t.del /\ v.ins = t.ins
  <2> HIDE DEF t
  <2>3. Same(tFailed)
    BY <2>2 DEF Task
  <2>4. Same(tCached)
    BY <2>2 DEF Task, Cached
  <2>5. Same(tBoth)
    BY <2>2 DEF Task, Cached
  <2> HIDE DEF tFailed, tCached, tBoth
  <2> QED BY <2>1, <2>3, <2>4, <2>5
<1>3. /\ t.loaded = task[w].loaded /\ t.mem = task[w].mem
      /\ tFailed.loaded = task[w].loaded /\ tFailed.mem = task[w].mem
      /\ tCached.loaded /\ tCached.mem = kept
      /\ tBoth.loaded /\ tBoth.mem = kept
      /\ tFailed.src = "error" /\ tBoth.src = "error"
  BY <1>0 DEF Task, Taken, Cached
<1> HIDE DEF t, tFailed, tCached, tBoth
<1>4. CASE UNCHANGED <<disk, torn>> /\ Continue(w, "commit", tFailed)
  BY <1>0, <1>2, <1>3, <1>4, GoesOn
<1>5. CASE UNCHANGED <<disk, torn>> /\ Continue(w, "detect", t)
  BY <1>0, <1>2, <1>3, <1>5, GoesOn
<1>6. CASE ~Unreadable(w) /\ Save(e, kept) /\ Continue(w, "detect", tCached)
  BY <1>0, <1>2, <1>3, <1>6, GoesOn DEF kept, old
<1>7. CASE ~Unreadable(w) /\ SaveRaises(e) /\ Continue(w, "commit", tBoth)
  BY <1>0, <1>2, <1>3, <1>7, GoesOn DEF kept, old
<1> QED BY <1>1, <1>4, <1>5, <1>6, <1>7

LEMMA DetectEffect ==
  ASSUME TypeOK, NEW w \in Workers, DetectAndAdd(w)
  PROVE  LET e == task[w].event
             f == task[w].cur.file IN
         /\ pc[w] = "detect" /\ pc'[w] = "commit" /\ e \in Events
         /\ task[w].cur \in Media
         /\ UNCHANGED <<eventRow, driveFile, faceRows, deleting>>
         /\ task'[w].event = e /\ task'[w].counted = task[w].counted
         /\ task'[w].todo = task[w].todo /\ task'[w].batch = task[w].batch
         /\ task'[w].cur = task[w].cur /\ task'[w].del = RowsOf(e, f)
         /\ \E d \in Detections(task[w].cur) :
              /\ task'[w].ins = NewFaces(task[w], d)
              /\ \/ task'[w].src = "error"
                 \/ task'[w].src = d.src /\ task'[w].count = d.count
              /\ \/ /\ UNCHANGED <<disk, torn>>
                    /\ task'[w].loaded = task[w].loaded /\ task'[w].mem = task[w].mem
                    /\ d.count = 0 \/ task'[w].src = "error"
                 \/ /\ ~Unreadable(w) /\ task'[w].loaded
                    /\ task'[w].mem = IndexOf(w) \cup NewFaces(task[w], d)
                    /\ \/ Save(e, IndexOf(w) \cup NewFaces(task[w], d))
                       \/ SaveRaises(e) /\ task'[w].src = "error"
<1> USE DEF dbVars, indexVars, apiVars
<1> DEFINE e == task[w].event
           f == task[w].cur.file
           gone == RowsOf(e, f)
           new(d) == NewFaces(task[w], d)
           grown(d) == IndexOf(w) \cup new(d)
           t(d) == [task[w] EXCEPT !.del = gone, !.ins = new(d),
                                   !.nextId = @ + d.count,
                                   !.count = d.count, !.src = d.src]
           tFailed(d) == [t(d) EXCEPT !.count = 0, !.src = "error"]
           tCached(d) == Cached(t(d), grown(d))
           tBoth(d) == [tCached(d) EXCEPT !.count = 0, !.src = "error"]
<1>0. /\ UNCHANGED <<eventRow, driveFile, faceRows, deleting>> /\ pc[w] = "detect"
      /\ e \in Events /\ task[w] \in Task /\ task[w].cur \in Media
  BY DEF DetectAndAdd, TypeOK
<1> PICK d \in Detections(task[w].cur) :
      \/ d.count = 0 /\ UNCHANGED <<disk, torn>> /\ Continue(w, "commit", t(d))
      \/ UNCHANGED <<disk, torn>> /\ Continue(w, "commit", tFailed(d))
      \/ ~Unreadable(w) /\ Save(e, grown(d)) /\ Continue(w, "commit", tCached(d))
      \/ ~Unreadable(w) /\ SaveRaises(e) /\ Continue(w, "commit", tBoth(d))
  BY DEF DetectAndAdd, FileRaises
<1> DEFINE u1 == t(d)
           u2 == tFailed(d)
           u3 == tCached(d)
           u4 == tBoth(d)
           n == new(d)
           g == grown(d)
<1>1. \/ d.count = 0 /\ UNCHANGED <<disk, torn>> /\ Continue(w, "commit", u1)
      \/ UNCHANGED <<disk, torn>> /\ Continue(w, "commit", u2)
      \/ ~Unreadable(w) /\ Save(e, g) /\ Continue(w, "commit", u3)
      \/ ~Unreadable(w) /\ SaveRaises(e) /\ Continue(w, "commit", u4)
  OBVIOUS
<1> HIDE DEF new, grown, gone
<1>2. /\ u1.event = e /\ u1.cur = task[w].cur /\ u1.batch = task[w].batch
      /\ u1.todo = task[w].todo /\ u1.counted = task[w].counted
      /\ u1.del = gone /\ u1.ins = n /\ u1.src = d.src /\ u1.count = d.count
      /\ u1.loaded = task[w].loaded /\ u1.mem = task[w].mem
  BY <1>0 DEF Task
<1>3. /\ u2.event = e /\ u2.cur = task[w].cur /\ u2.batch = task[w].batch
      /\ u2.todo = task[w].todo /\ u2.counted = task[w].counted
      /\ u2.del = gone /\ u2.ins = n /\ u2.src = "error"
      /\ u2.loaded = task[w].loaded /\ u2.mem = task[w].mem
  BY <1>0 DEF Task
<1>4. /\ u3.event = e /\ u3.cur = task[w].cur /\ u3.batch = task[w].batch
      /\ u3.todo = task[w].todo /\ u3.counted = task[w].counted
      /\ u3.del = gone /\ u3.ins = n /\ u3.src = d.src /\ u3.count = d.count
      /\ u3.loaded /\ u3.mem = g
  BY <1>0 DEF Task, Cached
<1>5. /\ u4.event = e /\ u4.cur = task[w].cur /\ u4.batch = task[w].batch
      /\ u4.todo = task[w].todo /\ u4.counted = task[w].counted
      /\ u4.del = gone /\ u4.ins = n /\ u4.src = "error"
      /\ u4.loaded /\ u4.mem = g
  BY <1>0 DEF Task, Cached
<1> HIDE DEF u1, u2, u3, u4
<1>6. n = NewFaces(task[w], d) /\ g = IndexOf(w) \cup NewFaces(task[w], d)
      /\ gone = RowsOf(e, f)
  BY DEF new, grown, gone
<1> HIDE DEF n, g
<1>7. CASE d.count = 0 /\ UNCHANGED <<disk, torn>> /\ Continue(w, "commit", u1)
  BY <1>0, <1>2, <1>6, <1>7, GoesOn
<1>8. CASE UNCHANGED <<disk, torn>> /\ Continue(w, "commit", u2)
  BY <1>0, <1>3, <1>6, <1>8, GoesOn
<1>9. CASE ~Unreadable(w) /\ Save(e, g) /\ Continue(w, "commit", u3)
  <2>1. pc'[w] = "commit" /\ task'[w] = u3
    BY <1>9, GoesOn
  <2>2. task'[w].mem = g /\ Save(e, g) /\ ~Unreadable(w) /\ task'[w].loaded
    BY <1>4, <1>9, <2>1
  <2> QED BY <1>0, <1>4, <1>6, <2>1, <2>2
<1>10. CASE ~Unreadable(w) /\ SaveRaises(e) /\ Continue(w, "commit", u4)
  BY <1>0, <1>5, <1>6, <1>10, GoesOn
<1> QED BY <1>1, <1>7, <1>8, <1>9, <1>10

LEMMA CommitEffect ==
  ASSUME TypeOK, NEW w \in Workers, CommitFile(w)
  PROVE  LET e == task[w].event
             t == task[w]
             f == t.cur.file IN
         /\ pc[w] = "commit" /\ pc'[w] = "pass2" /\ EventExists(e) /\ e \in Events
         /\ f \in Files /\ ~IdsClash(w)
         /\ UNCHANGED <<disk, torn, deleting>>
         /\ faceRows'[e] = (faceRows[e] \ t.del) \cup t.ins
         /\ \A d \in Events : d # e => faceRows'[d] = faceRows[d]
         /\ driveFile'[f].src = t.src /\ driveFile'[f].count = t.count
         /\ \A g \in Files : driveFile'[g].owner = driveFile[g].owner
         /\ \A g \in Files : g # f => driveFile'[g] = driveFile[g]
         /\ eventRow'[e].total = eventRow[e].total /\ StatusesStay
         /\ eventRow'[e].indexed = t.counted + 1
         /\ \A d \in Events : d # e => eventRow'[d] = eventRow[d]
         /\ task'[w].event = e /\ task'[w].counted = t.counted + 1
         /\ task'[w].todo = t.todo /\ task'[w].batch = t.batch
         /\ task'[w].ins = {} /\ task'[w].del = {}
         /\ task'[w].loaded = t.loaded /\ task'[w].mem = t.mem
<1> USE DEF dbVars, indexVars, apiVars
<1> DEFINE e == task[w].event
           tk == task[w]
           f == tk.cur.file
           n == tk.counted + 1
           t == [tk EXCEPT !.counted = @ + 1, !.cur = NoMedia, !.count = 0,
                           !.src = "none", !.del = {}, !.ins = {}]
<1>1. /\ UNCHANGED <<disk, torn, deleting>> /\ ~IdsClash(w)
      /\ pc[w] = "commit" /\ EventExists(e) /\ Continue(w, "pass2", t)
      /\ faceRows' = [faceRows EXCEPT ![e] = (@ \ tk.del) \cup tk.ins]
      /\ driveFile' = [driveFile EXCEPT ![f].count = tk.count, ![f].src = tk.src]
      /\ eventRow' = [eventRow EXCEPT ![e].indexed = n]
  BY DEF CommitFile
<1>2. e \in Events /\ tk \in Task /\ f \in Files
  BY <1>1 DEF TypeOK, Media
<1>3. /\ t.event = e /\ t.loaded = tk.loaded /\ t.mem = tk.mem
      /\ t.del = {} /\ t.ins = {} /\ t.batch = tk.batch
      /\ t.counted = n /\ t.todo = tk.todo
  BY <1>2 DEF Task
<1> HIDE DEF t
<1>4. pc'[w] = "pass2" /\ task'[w] = t
  BY <1>1, GoesOn
<1> HIDE DEF n
<1>5. /\ StatusesStay /\ eventRow'[e].total = eventRow[e].total
      /\ eventRow'[e].indexed = n
      /\ \A d \in Events : d # e => eventRow'[d] = eventRow[d]
  BY <1>1, <1>2 DEF StatusesStay, TypeOK, EventRow
<1>6. ASSUME NEW g \in Files
      PROVE  /\ driveFile'[g].owner = driveFile[g].owner
             /\ g # f => driveFile'[g] = driveFile[g]
             /\ g = f => driveFile'[g].src = tk.src /\ driveFile'[g].count = tk.count
  <2>1. driveFile[g] \in FileRow /\ driveFile \in [Files -> FileRow]
    BY DEF TypeOK
  <2>2. CASE g = f
    BY <1>1, <1>2, <2>1, <2>2 DEF FileRow
  <2>3. CASE g # f
    BY <1>1, <1>2, <2>1, <2>3
  <2> QED BY <2>2, <2>3
<1>7. /\ faceRows'[e] = (faceRows[e] \ tk.del) \cup tk.ins
      /\ \A d \in Events : d # e => faceRows'[d] = faceRows[d]
  BY <1>1, <1>2 DEF TypeOK
<1> QED BY <1>1, <1>2, <1>3, <1>4, <1>5, <1>6, <1>7 DEF n

\* A task ends: its worker is idle and has forgotten it.
LEMMA EndEffect ==
  ASSUME TypeOK, NEW w \in Workers, EndTask(w)
  PROVE  pc'[w] = "idle" /\ task'[w] = NoTask
BY GoesOn DEF EndTask

-----------------------------------------------------------------------------
(* The counts *)

LEMMA CountParts ==
  ASSUME OneWorker, NEW w \in Workers, ReadyIsComplete',
         pc'[w] = "idle" => task'[w] = NoTask,
         pc'[w] # "idle" => TaskIsOpen(w)' /\ TaskCounts(w)'
  PROVE  CountInv'
BY DEF OneWorker, CountInv

\* What a worker holds when neither its place nor its local state changes.
LEMMA SameHolding ==
  ASSUME NEW w \in Workers, pc'[w] = pc[w], task'[w] = task[w]
  PROVE  /\ (InPass2(w))' = InPass2(w) /\ (Listed(w))' = Listed(w)
         /\ (FileInHand(w))' = FileInHand(w) /\ (Pending(w))' = Pending(w)
<1>1. (FileInHand(w))' = FileInHand(w) /\ (Listed(w))' = Listed(w)
  BY DEF FileInHand, Listed
<1> QED BY <1>1 DEF InPass2, Pending

LEMMA SameCounts ==
  ASSUME NEW w \in Workers, pc'[w] = pc[w], task'[w] = task[w], TaskCounts(w)
  PROVE  TaskCounts(w)'
BY SameHolding DEF TaskCounts

\* The parts of the state that CountInv speaks of.
LEMMA CountStill ==
  ASSUME CountInv, UNCHANGED <<eventRow, driveFile, pc, task>>
  PROVE  CountInv'
<1>1. ReadyIsComplete'
  BY DEF CountInv, ReadyIsComplete
<1>2. ASSUME NEW w \in Workers, pc[w] # "idle"
      PROVE  TaskIsOpen(w)' /\ TaskCounts(w)'
  <2>1. TaskCounts(w)'
    BY <1>2, SameCounts DEF CountInv
  <2>2. TaskIsOpen(w)'
    BY <1>2, SameHolding DEF CountInv, TaskIsOpen, EventExists
  <2> QED BY <2>1, <2>2
<1> QED BY <1>1, <1>2 DEF CountInv

LEMMA CountInit == Init => CountInv
BY DEF Init, CountInv, ReadyIsComplete

\* Requests do not come between a task and its counts, and deletion takes both.
LEMMA CreateCounts ==
  ASSUME TypeOK, CountInv, NEW e \in Events, CreateEvent(e)
  PROVE  CountInv'
<1> USE DEF dbVars, indexVars, apiVars
<1>1. UNCHANGED <<driveFile, pc, task>>
  BY DEF CreateEvent
<1>2. /\ \A d \in Events : d # e => eventRow'[d] = eventRow[d]
      /\ eventRow[e].status = "none"
      /\ eventRow'[e].status \in {"pending", "error"}
  BY DEF CreateEvent, TypeOK, EventRow
<1>3. \A w \in Workers : pc[w] # "idle" => task[w].event \in Events \ {e}
  BY <1>2 DEF CountInv, TaskIsOpen, TypeOK
<1>4. ReadyIsComplete'
  BY <1>2 DEF CountInv, ReadyIsComplete
<1>5. \A w \in Workers : pc[w] # "idle" => TaskIsOpen(w)' /\ TaskCounts(w)'
  BY ZenonT(60), <1>1, <1>2, <1>3 DEF CountInv, TaskIsOpen, TaskCounts, EventExists, InPass2, Listed,
     FileInHand
<1> QED BY <1>1, <1>4, <1>5 DEF CountInv

LEMMA DeleteEffect ==
  ASSUME TypeOK, NEW e \in Events, DeleteRows(e)
  PROVE  /\ UNCHANGED <<disk, torn, pc, task>>
         /\ EventExists(e) /\ ~ReferencedElsewhere(e) /\ ~RowsLocked(e)
         /\ eventRow'[e].status = "deleted" /\ faceRows'[e] = {}
         /\ deleting' = deleting \cup {e}
         /\ \A d \in Events : d # e => eventRow'[d] = eventRow[d] /\ faceRows'[d] = faceRows[d]
         /\ \A f \in Files : IF driveFile[f].owner = e THEN driveFile'[f] = NoRow
                                                       ELSE driveFile'[f] = driveFile[f]
BY DEF DeleteRows, TypeOK, indexVars

LEMMA DeleteCounts ==
  ASSUME TypeOK, CountInv, NEW e \in Events, DeleteRows(e)
  PROVE  CountInv'
<1>1. ReadyIsComplete'
  BY DeleteEffect DEF CountInv, ReadyIsComplete
<1>2. ASSUME NEW w \in Workers, pc[w] # "idle"
      PROVE  TaskIsOpen(w)' /\ TaskCounts(w)'
  <2>1. task[w].event \in Events /\ Folder[task[w].event] \in SUBSET Files
    BY <1>2, FolderAssumption DEF TypeOK
  <2>2. TaskCounts(w)'
    BY <1>2, DeleteEffect, SameCounts DEF CountInv
  <2>3. TaskIsOpen(w)'
    BY <1>2, <2>1, DeleteEffect DEF CountInv, TaskIsOpen, EventExists, InPass2
  <2> QED BY <2>2, <2>3
<1> QED BY <1>1, <1>2, DeleteEffect DEF CountInv

LEMMA StartCounts ==
  ASSUME TypeOK, OneWorker, CountInv, NEW w \in Workers, StartTask(w)
  PROVE  CountInv'
<1>1. CASE UNCHANGED <<eventRow, pc, task>>
  BY <1>1, StartEffect, CountStill
<1>2. ASSUME NEW e \in Events, EventExists(e), eventRow'[e].status = "indexing",
             \A d \in Events : d # e => eventRow'[d] = eventRow[d],
             pc'[w] = "list", task'[w].event = e, task'[w].batch = task[w].batch
      PROVE  CountInv'
  <2>1. task[w].batch = {}
    BY StartEffect DEF CountInv, NoTask
  <2>2. ReadyIsComplete'
    BY <1>2 DEF CountInv, ReadyIsComplete
  <2>3. TaskIsOpen(w)' /\ TaskCounts(w)'
    BY <1>2, <2>1, FS_EmptySet DEF TaskIsOpen, TaskCounts, InPass2
  <2> QED BY <1>2, <2>2, <2>3, CountParts
<1> QED BY <1>1, <1>2, StartEffect

LEMMA ListCounts ==
  ASSUME TypeOK, OneWorker, CountInv, NEW w \in Workers, ListFiles(w)
  PROVE  CountInv'
<1> DEFINE e == task[w].event
<1>1. TaskIsOpen(w) /\ TaskCounts(w)
  BY ListEffect DEF CountInv
<1>2. ReadyIsComplete'
  BY <1>1, ListEffect DEF CountInv, ReadyIsComplete, StatusesStay, TaskIsOpen
<1>3. TaskIsOpen(w)' /\ TaskCounts(w)'
  BY <1>1, ListEffect DEF TaskIsOpen, TaskCounts, InPass2, StatusesStay
<1> QED BY <1>2, <1>3, ListEffect, CountParts

\* The files that are left out are counted at once.
LEMMA PlanCounts ==
  ASSUME TypeOK, OneWorker, CountInv, NEW w \in Workers, PlanFiles(w)
  PROVE  CountInv'
<1> DEFINE e == task[w].event
           work == {f \in Listed(w) : ~Unsupported(f) /\
                      ~ShouldSkip(task[w].event, f, task[w].listing[f])}
<1>1. TaskIsOpen(w) /\ TaskCounts(w)
  BY PlanEffect DEF CountInv
<1>2. /\ pc[w] = "plan" /\ pc'[w] = "upsert" /\ UNCHANGED eventRow
      /\ task'[w].event = e /\ task'[w].batch = task[w].batch /\ task'[w].todo = work
      /\ task'[w].counted = Cardinality(Listed(w) \ work)
      /\ Listed(w)' = Listed(w)
  BY PlanEffect
<1>3. work \subseteq Listed(w)
  OBVIOUS
<1> HIDE DEF work
<1>4. Listed(w) = Folder[e]
  BY <1>1, <1>2 DEF TaskCounts
<1>5. Cardinality(Listed(w) \ work) + Cardinality(work) = Cardinality(Listed(w))
  <2>1. IsFiniteSet(Listed(w))
    BY FS_Subset, FinitenessAssumption DEF Listed
  <2>2. /\ Cardinality(Listed(w) \ work) = Cardinality(Listed(w)) - Cardinality(Listed(w) \cap work)
        /\ IsFiniteSet(work)
    BY <1>3, <2>1, FS_Difference, FS_Subset
  <2>3. Listed(w) \cap work = work
    BY <1>3
  <2>4. Cardinality(work) \in Nat /\ Cardinality(Listed(w)) \in Nat
    BY <2>1, <2>2, FS_CardinalityType
  <2>5. Cardinality(Listed(w) \ work) = Cardinality(Listed(w)) - Cardinality(work)
    BY <2>2, <2>3
  <2> QED BY <2>4, <2>5
<1>6. ReadyIsComplete'
  BY <1>2 DEF CountInv, ReadyIsComplete
<1>7. TaskIsOpen(w)'
  BY <1>1, <1>2 DEF TaskIsOpen, EventExists, InPass2
<1>8. TaskCounts(w)'
  <2>1. IsFiniteSet(task[w].batch) /\ task[w].batch = {}
    BY <1>1, <1>2 DEF TaskCounts, InPass2
  <2>2. task'[w].counted + Cardinality(task'[w].todo) = Cardinality(Folder[e])
    BY <1>2, <1>4, <1>5
  <2> QED BY <1>2, <1>4, <2>1, <2>2 DEF TaskCounts, InPass2
<1> QED BY <1>2, <1>6, <1>7, <1>8, CountParts

LEMMA UpsertCounts ==
  ASSUME TypeOK, OneWorker, CountInv, NEW w \in Workers, UpsertFiles(w)
  PROVE  CountInv'
<1> DEFINE e == task[w].event
<1>1. TaskIsOpen(w) /\ TaskCounts(w) /\ pc[w] = "upsert" /\ e \in Events
  BY UpsertEffect DEF CountInv
<1>2. Listed(w) = Folder[e] /\ task[w].batch = {}
  BY <1>1 DEF TaskCounts, InPass2
<1>3. ReadyIsComplete'
  BY <1>1, UpsertEffect DEF CountInv, ReadyIsComplete, StatusesStay, TaskIsOpen
<1>4. TaskIsOpen(w)'
  BY <1>1, <1>2, UpsertEffect DEF TaskIsOpen, EventExists, StatusesStay
<1>5. FileInHand(w)' = {}
  BY UpsertEffect DEF FileInHand
<1>6. task[w].counted \in Nat /\ Cardinality(task[w].todo) \in Nat
  BY FileCounts DEF TypeOK, Task
<1>7. TaskCounts(w)'
  <2>1. task[w].counted + Cardinality(task[w].todo) = Cardinality(Folder[e])
    BY <1>1 DEF TaskCounts
  <2>2. task[w].counted + Cardinality(task[w].todo) + 0 + 0 = Cardinality(Folder[e])
    BY <1>6, <2>1
  <2>3. /\ task'[w].event = e /\ pc'[w] = "pass2" /\ task'[w].batch = {}
        /\ task'[w].counted = task[w].counted /\ task'[w].todo = task[w].todo
    BY <1>2, UpsertEffect
  <2>4. IsFiniteSet({}) /\ Cardinality({}) = 0
    BY FS_EmptySet
  <2>5. task'[w].counted + Cardinality(task'[w].todo) + Cardinality(task'[w].batch)
          + Cardinality((FileInHand(w))') = Cardinality(Folder[e])
    BY <1>5, <2>2, <2>3, <2>4
  <2> QED BY <2>3, <2>4, <2>5 DEF TaskCounts, InPass2
<1> QED BY <1>3, <1>4, <1>7, UpsertEffect, CountParts

\* A batch has one fetched media for each file.
LEMMA OneMediaEach ==
  ASSUME NEW b \in SUBSET Files, NEW got, NEW vers,
         NEW media, media = {[file |-> f, src |-> got[f], ver |-> vers[f]] : f \in b}
  PROVE  IsFiniteSet(media) /\ Cardinality(media) = Cardinality(b)
<1> DEFINE of == [f \in b |-> [file |-> f, src |-> got[f], ver |-> vers[f]]]
<1>1. of \in Bijection(b, media)
  BY DEF Bijection, Injection, Surjection, IsInjective
<1>2. IsFiniteSet(b)
  BY FinitenessAssumption, FS_Subset
<1> QED BY <1>1, <1>2, FS_Bijection DEF ExistsBijection

\* A batch moves from the files to fetch to the fetched.
LEMMA FetchCounts ==
  ASSUME TypeOK, OneWorker, CountInv, NEW w \in Workers, FetchBatch(w)
  PROVE  CountInv'
<1> DEFINE e == task[w].event
<1>1. TaskIsOpen(w) /\ TaskCounts(w)
  BY FetchEffect DEF CountInv
<1>2. /\ pc[w] = "pass2" /\ pc'[w] = "pass2" /\ task[w].batch = {}
      /\ UNCHANGED <<eventRow, driveFile>>
      /\ task'[w].event = e /\ task'[w].counted = task[w].counted
  BY FetchEffect
<1> PICK b \in SUBSET task[w].todo, got \in [Files -> FetchSource] :
      /\ task'[w].todo = task[w].todo \ b
      /\ task'[w].batch = {[file |-> f, src |-> got[f], ver |-> drive[f]] : f \in b}
  BY FetchEffect
<1> DEFINE media == {[file |-> f, src |-> got[f], ver |-> drive[f]] : f \in b}
<1>3. task[w].todo \in SUBSET Files /\ task[w].counted \in Nat
  BY DEF TypeOK, Task
<1>4. IsFiniteSet(media) /\ Cardinality(media) = Cardinality(b)
  <2>1. b \in SUBSET Files
    BY <1>3
  <2>2. media = {[file |-> f, src |-> got[f], ver |-> drive[f]] : f \in b}
    OBVIOUS
  <2> HIDE DEF media
  <2> QED BY <2>1, <2>2, OneMediaEach
<1>5. Cardinality(task[w].todo \ b) + Cardinality(b) = Cardinality(task[w].todo)
  <2>1. IsFiniteSet(task[w].todo)
    BY <1>3, FS_Subset, FinitenessAssumption
  <2>2. /\ Cardinality(task[w].todo \ b)
             = Cardinality(task[w].todo) - Cardinality(task[w].todo \cap b)
        /\ IsFiniteSet(b)
    BY <2>1, FS_Difference, FS_Subset
  <2>3. task[w].todo \cap b = b
    OBVIOUS
  <2>4. Cardinality(b) \in Nat /\ Cardinality(task[w].todo) \in Nat
    BY <2>1, <2>2, FS_CardinalityType
  <2>5. Cardinality(task[w].todo \ b) = Cardinality(task[w].todo) - Cardinality(b)
    BY <2>2, <2>3
  <2> QED BY <2>4, <2>5
<1>6. task'[w].batch = media
  OBVIOUS
<1> HIDE DEF media
<1>7. ReadyIsComplete'
  BY <1>2 DEF CountInv, ReadyIsComplete
<1>8. TaskIsOpen(w)'
  BY <1>1, <1>2 DEF TaskIsOpen, EventExists, InPass2
<1>9. TaskCounts(w)'
  <2>1. FileInHand(w) = {} /\ (FileInHand(w))' = {}
    BY <1>2 DEF FileInHand
  <2>2. Cardinality({}) = 0
    BY FS_EmptySet
  <2>3. task[w].counted + Cardinality(task[w].todo) + 0 + 0 = Cardinality(Folder[e])
    BY <1>1, <1>2, <2>1, <2>2 DEF TaskCounts, InPass2
  <2>4. Cardinality(task[w].todo \ b) \in Nat /\ Cardinality(b) \in Nat
    BY <1>3, FS_Subset, FS_CardinalityType, FinitenessAssumption
  <2>5. task[w].counted + Cardinality(task[w].todo \ b) + Cardinality(b) + 0
          = Cardinality(Folder[e])
    BY <1>3, <1>5, <2>3, <2>4
  <2>6. task'[w].counted + Cardinality(task'[w].todo) + Cardinality(task'[w].batch)
          + Cardinality((FileInHand(w))') = Cardinality(Folder[e])
    BY <1>2, <1>4, <1>6, <2>1, <2>2, <2>5
  <2> QED BY <1>2, <1>4, <1>6, <2>6 DEF TaskCounts, InPass2
<1> QED BY <1>2, <1>7, <1>8, <1>9, CountParts

\* The file of a fetched media is in hand as soon as it leaves the batch.
LEMMA RemoveCounts ==
  ASSUME TypeOK, OneWorker, CountInv, NEW w \in Workers,
         NEW m \in task[w].batch, RemoveOldEmbeddings(w, m)
  PROVE  CountInv'
<1> DEFINE e == task[w].event
<1>1. TaskIsOpen(w) /\ TaskCounts(w)
  BY RemoveEffect DEF CountInv
<1>2. /\ pc[w] = "pass2" /\ pc'[w] \in {"detect", "commit"}
      /\ UNCHANGED <<eventRow, driveFile>>
      /\ task'[w].event = e /\ task'[w].counted = task[w].counted
      /\ task'[w].todo = task[w].todo /\ task'[w].batch = task[w].batch \ {m}
  BY RemoveEffect
<1>3. ReadyIsComplete'
  BY <1>2 DEF CountInv, ReadyIsComplete
<1>4. TaskIsOpen(w)'
  BY <1>1, <1>2 DEF TaskIsOpen, EventExists, InPass2
<1>5. IsFiniteSet(task[w].batch)
  BY <1>1 DEF TaskCounts
<1>6. /\ IsFiniteSet(task[w].batch \ {m})
      /\ Cardinality(task[w].batch \ {m}) = Cardinality(task[w].batch) - 1
  BY <1>5, FS_RemoveElement
<1>7. TaskCounts(w)'
  <2>1. FileInHand(w) = {} /\ (FileInHand(w))' = {task'[w].cur.file}
    BY <1>2 DEF FileInHand
  <2>2. Cardinality({}) = 0 /\ Cardinality({task'[w].cur.file}) = 1
    BY FS_EmptySet, FS_Singleton
  <2>3. task[w].counted + Cardinality(task[w].todo) + Cardinality(task[w].batch) + 0
          = Cardinality(Folder[e])
    BY <1>1, <1>2, <2>1, <2>2 DEF TaskCounts, InPass2
  <2>4. Cardinality(task[w].batch) \in Nat /\ task[w].counted \in Nat
        /\ Cardinality(task[w].todo) \in Nat
    BY <1>5, FileCounts, FS_CardinalityType DEF TypeOK, Task
  <2>5. task[w].counted + Cardinality(task[w].todo) + (Cardinality(task[w].batch) - 1) + 1
          = Cardinality(Folder[e])
    BY <2>3, <2>4
  <2>6. task'[w].counted + Cardinality(task'[w].todo) + Cardinality(task'[w].batch)
          + Cardinality((FileInHand(w))') = Cardinality(Folder[e])
    BY <1>2, <1>6, <2>1, <2>2, <2>5
  <2> QED BY <1>2, <1>6, <2>6 DEF TaskCounts, InPass2
<1> QED BY <1>2, <1>3, <1>4, <1>7, CountParts

LEMMA DetectCounts ==
  ASSUME TypeOK, OneWorker, CountInv, NEW w \in Workers, DetectAndAdd(w)
  PROVE  CountInv'
<1> DEFINE e == task[w].event
<1>1. TaskIsOpen(w) /\ TaskCounts(w)
  BY DetectEffect DEF CountInv
<1>2. /\ pc[w] = "detect" /\ pc'[w] = "commit" /\ UNCHANGED <<eventRow, driveFile>>
      /\ task'[w].event = e /\ task'[w].counted = task[w].counted
      /\ task'[w].todo = task[w].todo /\ task'[w].batch = task[w].batch
      /\ task'[w].cur = task[w].cur
  BY DetectEffect
<1>3. ReadyIsComplete'
  BY <1>2 DEF CountInv, ReadyIsComplete
<1>4. TaskIsOpen(w)'
  BY <1>1, <1>2 DEF TaskIsOpen, EventExists, InPass2
<1>5. (FileInHand(w))' = FileInHand(w)
  BY <1>2 DEF FileInHand
<1>6. TaskCounts(w)'
  BY <1>1, <1>2, <1>5 DEF TaskCounts, InPass2
<1> QED BY <1>2, <1>3, <1>4, <1>6, CountParts

LEMMA CommitCounts ==
  ASSUME TypeOK, OneWorker, CountInv, NEW w \in Workers, CommitFile(w)
  PROVE  CountInv'
<1> DEFINE e == task[w].event
<1>1. TaskIsOpen(w) /\ TaskCounts(w)
  BY CommitEffect DEF CountInv
<1>2. /\ pc[w] = "commit" /\ pc'[w] = "pass2" /\ e \in Events /\ EventExists(e)
      /\ task'[w].event = e /\ task'[w].counted = task[w].counted + 1
      /\ task'[w].todo = task[w].todo /\ task'[w].batch = task[w].batch
      /\ eventRow'[e].total = eventRow[e].total /\ StatusesStay
      /\ eventRow'[e].indexed = task[w].counted + 1
      /\ \A d \in Events : d # e => eventRow'[d] = eventRow[d]
      /\ \A g \in Files : driveFile'[g].owner = driveFile[g].owner
  BY CommitEffect
<1>3. ReadyIsComplete'
  BY <1>1, <1>2 DEF CountInv, ReadyIsComplete, StatusesStay, TaskIsOpen
<1>4. TaskIsOpen(w)'
  BY <1>1, <1>2, FolderAssumption DEF TaskIsOpen, EventExists, InPass2, StatusesStay
<1>5. TaskCounts(w)'
  <2>1. FileInHand(w) = {task[w].cur.file} /\ (FileInHand(w))' = {}
    BY <1>2 DEF FileInHand
  <2>2. Cardinality({}) = 0 /\ Cardinality({task[w].cur.file}) = 1
    BY FS_EmptySet, FS_Singleton
  <2>3. task[w].counted + Cardinality(task[w].todo) + Cardinality(task[w].batch) + 1
          = Cardinality(Folder[e])
    BY <1>1, <1>2, <2>1, <2>2 DEF TaskCounts, InPass2
  <2>4. IsFiniteSet(task[w].batch)
    BY <1>1 DEF TaskCounts
  <2>5. Cardinality(task[w].batch) \in Nat /\ task[w].counted \in Nat
        /\ Cardinality(task[w].todo) \in Nat
    BY <2>4, FileCounts, FS_CardinalityType DEF TypeOK, Task
  <2>6. (task[w].counted + 1) + Cardinality(task[w].todo) + Cardinality(task[w].batch) + 0
          = Cardinality(Folder[e])
    BY <2>3, <2>5
  <2>7. task'[w].counted + Cardinality(task'[w].todo) + Cardinality(task'[w].batch)
          + Cardinality((FileInHand(w))') = Cardinality(Folder[e])
    BY <1>2, <2>1, <2>2, <2>6
  <2> QED BY <1>2, <2>4, <2>7 DEF TaskCounts, InPass2
<1> QED BY <1>2, <1>3, <1>4, <1>5, CommitEffect, CountParts

\* READY is written when nothing is pending.
LEMMA FinishCounts ==
  ASSUME TypeOK, OneWorker, CountInv, NEW w \in Workers, Finish(w)
  PROVE  CountInv'
<1> DEFINE e == task[w].event
<1>1. /\ pc[w] = "pass2" /\ task[w].batch = {} /\ task[w].todo = {} /\ EventExists(e)
      /\ e \in Events /\ EndTask(w)
      /\ eventRow'[e].total = eventRow[e].total
      /\ eventRow'[e].indexed = eventRow[e].indexed
      /\ \A d \in Events : d # e => eventRow'[d] = eventRow[d]
  BY DEF Finish, TypeOK, EventRow
<1>2. TaskIsOpen(w) /\ TaskCounts(w)
  BY <1>1 DEF CountInv
<1>3. eventRow[e].indexed = eventRow[e].total
  <2>1. FileInHand(w) = {} /\ Cardinality({}) = 0
    BY <1>1, FS_EmptySet DEF FileInHand
  <2>2. task[w].counted + 0 + 0 + 0 = Cardinality(Folder[e])
    BY <1>1, <1>2, <2>1 DEF TaskCounts, InPass2
  <2>3. task[w].counted \in Nat
    BY DEF TypeOK, Task
  <2>4. eventRow[e].total = Cardinality(Folder[e]) /\ eventRow[e].indexed = task[w].counted
    BY <1>1, <1>2 DEF TaskIsOpen, InPass2
  <2> QED BY <2>2, <2>3, <2>4
<1>4. ReadyIsComplete'
  BY <1>1, <1>3 DEF CountInv, ReadyIsComplete
<1> QED BY <1>1, <1>4, EndEffect, CountParts

\* A task that ends in any other way leaves READY alone.
LEMMA EndCounts ==
  ASSUME TypeOK, OneWorker, CountInv, NEW w \in Workers,
         ListingFails(w) \/ Abandon(w) \/ CrashWorker(w)
  PROVE  CountInv'
<1> USE DEF dbVars
<1>1. EndTask(w)
  BY DEF ListingFails, Abandon, CrashWorker
<1>2. \A d \in Events : eventRow'[d] = eventRow[d] \/ eventRow'[d].status = "error"
  BY DEF ListingFails, Abandon, CrashWorker, TypeOK, EventRow
<1>3. ReadyIsComplete'
  BY <1>2 DEF CountInv, ReadyIsComplete
<1> QED BY <1>1, <1>3, EndEffect, CountParts

LEMMA CountStep == TypeOK /\ OneWorker /\ CountInv /\ [Next]_vars => CountInv'
<1> SUFFICES ASSUME TypeOK, OneWorker, CountInv, [Next]_vars
             PROVE  CountInv'
  OBVIOUS
<1> USE DEF dbVars, indexVars, apiVars
<1>1. ASSUME NEW w \in Workers, WorkerStep(w)
      PROVE  CountInv'
  BY <1>1, StartCounts, ListCounts, PlanCounts, UpsertCounts, FetchCounts, RemoveCounts,
     DetectCounts, CommitCounts, FinishCounts, EndCounts DEF WorkerStep
<1>2. ASSUME NEW e \in Events, ApiStep(e)
      PROVE  CountInv'
  <2>1. CASE Reindex(e) \/ RemoveIndexFile(e)
    BY <2>1, CountStill DEF Reindex, RemoveIndexFile
  <2> QED BY <1>2, <2>1, CreateCounts, DeleteCounts DEF ApiStep
<1>3. ASSUME NEW w \in Workers, CrashWorker(w)
      PROVE  CountInv'
  BY <1>3, EndCounts
<1>4. CASE CrashApi
  BY <1>4, CountStill DEF CrashApi
<1>5. ASSUME NEW f \in Files, ChangeContent(f)
      PROVE  CountInv'
  BY <1>5, CountStill DEF ChangeContent
<1>6. CASE Rest \/ UNCHANGED vars
  BY <1>6, CountStill DEF Rest, vars
<1> QED BY <1>1, <1>2, <1>3, <1>4, <1>5, <1>6 DEF Next

\* With one worker process, whatever is killed and whatever fails, the files of a
\* task's folder are counted or pending until the task ends: no file is skipped,
\* counted twice or lost in a batch.
THEOREM CountsAreKept == OneWorker => (Spec => []CountInv)
<1> SUFFICES ASSUME OneWorker
             PROVE  Spec => []CountInv
  OBVIOUS
<1>1. Init => CountInv
  BY CountInit
<1>2. TypeOK /\ CountInv /\ [Next]_vars => CountInv'
  BY CountStep
<1> QED BY <1>1, <1>2, TypeCorrect, PTL DEF Spec

\* READY stands over a complete progress count: the organizer never sees an event
\* done at 3 of 5 files.
THEOREM ReadyMeansComplete == OneWorker => (Spec => []ReadyIsComplete)
<1>1. CountInv => ReadyIsComplete
  BY DEF CountInv
<1> QED BY <1>1, CountsAreKept, PTL

-----------------------------------------------------------------------------
(* Every file is accounted for *)

\* quality_flags is a column of drive_files, so of a file and not of the event that
\* embedded it last.  It speaks of an event's own rows where the file is in no other
\* folder; where no image is embedded from its thumbnail, rows need no flag.
Unshared == \A d, e \in Events : d # e => Folder[d] \cap Folder[e] = {}
FlagsSpeak == ~UseThumbnails \/ Unshared

LEMMA ReadyParts ==
  ASSUME OneWorker, NEW w \in Workers, CountInv', ZeroIsFound', RowsAreWhole',
         pc'[w] # "idle" => TaskPlans(w)' /\ TaskReplaces(w)' /\ TaskAccounts(w)'
  PROVE  ReadyInv'
BY DEF OneWorker, ReadyInv

LEMMA SameRows ==
  ASSUME UNCHANGED faceRows, NEW e, NEW f
  PROVE  RowsOf(e, f)' = RowsOf(e, f)
BY DEF RowsOf

LEMMA WholeStill ==
  ASSUME ReadyInv, UNCHANGED <<driveFile, faceRows>>
  PROVE  ZeroIsFound' /\ RowsAreWhole'
<1>1. ZeroIsFound'
  BY DEF ReadyInv, ZeroIsFound
<1>2. RowsAreWhole'
  BY SameRows DEF ReadyInv, RowsAreWhole
<1> QED BY <1>1, <1>2

\* What a task holds stays true where neither it nor the two tables change.
LEMMA TaskStill ==
  ASSUME NEW w \in Workers, pc'[w] = pc[w], task'[w] = task[w],
         UNCHANGED <<driveFile, faceRows>>, task[w].event \in Events,
         EventExists(task[w].event)' => EventExists(task[w].event),
         TaskPlans(w), TaskReplaces(w), TaskAccounts(w)
  PROVE  TaskPlans(w)' /\ TaskReplaces(w)' /\ TaskAccounts(w)'
<1> PICK e \in Events : e = task[w].event
  OBVIOUS
<1>1. \A f : RowsOf(e, f)' = RowsOf(e, f)
  BY SameRows
<1>2. \A f : Sticks(e, f)' <=> Sticks(e, f)
  BY <1>1 DEF Sticks
<1>3. TaskPlans(w)'
  BY <1>1, <1>2, SameHolding DEF TaskPlans
<1>4. TaskReplaces(w)'
  BY <1>1 DEF TaskReplaces
<1>5. TaskAccounts(w)'
  BY <1>1, SameHolding DEF TaskAccounts, FileAccountedFor
<1> QED BY <1>3, <1>4, <1>5

LEMMA ReadyStill ==
  ASSUME TypeOK, ReadyInv, CountInv', UNCHANGED <<eventRow, driveFile, faceRows, pc, task>>
  PROVE  ReadyInv'
<1>1. ASSUME NEW w \in Workers, pc[w] # "idle"
      PROVE  TaskPlans(w)' /\ TaskReplaces(w)' /\ TaskAccounts(w)'
  <2>1. task[w].event \in Events /\ (EventExists(task[w].event)' => EventExists(task[w].event))
    BY <1>1 DEF TypeOK, EventExists
  <2> QED BY <1>1, <2>1, TaskStill DEF ReadyInv
<1> QED BY <1>1, WholeStill DEF ReadyInv

LEMMA ReadyInit == Init => ReadyInv
<1> SUFFICES ASSUME Init
             PROVE  ReadyInv
  OBVIOUS
<1>1. ZeroIsFound
  BY DEF Init, ZeroIsFound, NoRow
<1>2. RowsAreWhole
  BY DEF Init, RowsAreWhole, RowsOf
<1> QED BY <1>1, <1>2, CountInit DEF Init, ReadyInv

LEMMA CreateReady ==
  ASSUME TypeOK, ReadyInv, CountInv', NEW e \in Events, CreateEvent(e)
  PROVE  ReadyInv'
<1>1. UNCHANGED <<driveFile, faceRows, pc, task>>
  BY DEF CreateEvent
<1>2. eventRow[e].status = "none" /\ \A d \in Events : d # e => eventRow'[d] = eventRow[d]
  BY DEF CreateEvent, TypeOK, EventRow
<1>3. ASSUME NEW w \in Workers, pc[w] # "idle"
      PROVE  TaskPlans(w)' /\ TaskReplaces(w)' /\ TaskAccounts(w)'
  <2>1. task[w].event \in Events /\ task[w].event # e
    BY <1>2, <1>3 DEF TypeOK, ReadyInv, CountInv, TaskIsOpen
  <2>2. EventExists(task[w].event)' => EventExists(task[w].event)
    BY <1>1, <1>2, <2>1 DEF EventExists
  <2> QED BY <1>1, <1>3, <2>1, <2>2, TaskStill DEF ReadyInv
<1> QED BY <1>1, <1>3, WholeStill DEF ReadyInv

\* The deletion of an event takes its rows, and the rows of drive_files that no
\* other event's embeddings need.
LEMMA DeleteReady ==
  ASSUME TypeOK, ReadyInv, CountInv', NEW e \in Events, DeleteRows(e)
  PROVE  ReadyInv'
<1>1. ZeroIsFound'
  BY DeleteEffect DEF ReadyInv, ZeroIsFound, NoRow
<1>2. ASSUME NEW d \in Events, d # e, NEW f \in Files
      PROVE  /\ RowsOf(d, f)' = RowsOf(d, f)
             /\ RowsOf(d, f) # {} => driveFile'[f] = driveFile[f]
  BY <1>2, DeleteEffect DEF RowsOf, ReferencedElsewhere
<1>3. \A f \in Files : RowsOf(e, f)' = {}
  BY DeleteEffect DEF RowsOf
<1>4. RowsAreWhole'
  <2> SUFFICES ASSUME NEW d \in Events, NEW f \in Files, RowsOf(d, f)' # {}
               PROVE  /\ f \in Folder[d] /\ ~Unsupported(f)
                      /\ \/ WholeOf(f, RowsOf(d, f)')
                         \/ UseThumbnails /\ driveFile'[f].src \in {"error", "thumbnail"}
    BY DEF RowsAreWhole, WholeOf
  <2>1. d # e
    BY <1>3
  <2>2. RowsOf(d, f)' = RowsOf(d, f) /\ driveFile'[f] = driveFile[f]
    BY <1>2, <2>1
  <2> QED BY <2>2 DEF ReadyInv, RowsAreWhole
<1>5. ASSUME NEW w \in Workers, pc[w] # "idle"
      PROVE  TaskPlans(w)' /\ TaskReplaces(w)' /\ TaskAccounts(w)'
  <2> PICK d \in Events : d = task[w].event
    BY <1>5 DEF TypeOK
  <2>1. TaskPlans(w) /\ TaskReplaces(w) /\ TaskAccounts(w) /\ TaskIsOpen(w)
    BY <1>5 DEF ReadyInv, CountInv
  <2>2. task'[w] = task[w] /\ pc'[w] = pc[w] /\ Folder[d] \subseteq Files
    BY DeleteEffect, FolderAssumption
  <2>3. \A f \in Files : driveFile'[f] = NoRow \/ driveFile'[f] = driveFile[f]
    BY DeleteEffect
  <2>4. EventExists(d)' => d # e /\ EventExists(d)
    BY DeleteEffect DEF EventExists
  <2>5. \A f \in Files : RowsOf(d, f)' # {} => d # e /\ RowsOf(d, f) # {}
    BY <1>2, <1>3
  <2>6. TaskPlans(w)'
    <3>1. \A f \in Folder[d] : /\ RowsOf(d, f)' # {} => RowsOf(d, f) # {}
                               /\ driveFile'[f].src = "full" => driveFile[f].src = "full"
      BY <2>2, <2>3, <2>5 DEF NoRow
    <3>2. ASSUME NEW f \in Folder[d], EventExists(d)', driveFile'[f] # NoRow,
                 driveFile[f] # NoRow => Sticks(d, f)
          PROVE  Sticks(d, f)'
      BY <1>2, <2>2, <2>3, <2>4, <3>2 DEF Sticks
    <3>3. \A f \in Folder[d] : driveFile'[f] # NoRow => driveFile[f] # NoRow
      BY <2>2, <2>3
    <3> QED BY <2>1, <2>2, <2>4, <3>1, <3>2, <3>3, SameHolding DEF TaskPlans
  <2>7. TaskReplaces(w)'
    <3>1. CASE pc[w] # "commit"
      BY <2>1, <2>2, <3>1 DEF TaskReplaces
    <3>2. CASE pc[w] = "commit"
      <4> PICK f \in Files : f = task[w].cur.file
        BY <3>2 DEF TypeOK, Media
      <4>1. task[w].del = RowsOf(d, f) => task[w].del = RowsOf(d, f)'
        <5>1. CASE d = e
          <6>1. ~RowsLocked(e)
            BY DeleteEffect
          <6> QED BY <1>3, <5>1, <6>1 DEF RowsLocked
        <5>2. CASE d # e
          BY <1>2, <5>2
        <5> QED BY <5>1, <5>2
      <4> QED BY <2>1, <2>2, <3>2, <4>1 DEF TaskReplaces
    <3> QED BY <3>1, <3>2
  <2>8. TaskAccounts(w)'
    <3> SUFFICES ASSUME InPass2(w), EventExists(d)', NEW f \in Folder[d], f \notin Pending(w)
                 PROVE  FileAccountedFor(d, f)'
      BY <2>2, SameHolding DEF TaskAccounts
    <3>1. driveFile[f].owner = d /\ d # e /\ f \in Files
      BY <2>1, <2>2, <2>4 DEF TaskIsOpen
    <3>2. driveFile'[f] = driveFile[f] /\ RowsOf(d, f)' = RowsOf(d, f)
      BY <1>2, <3>1, DeleteEffect
    <3> QED BY <2>1, <2>4, <3>2 DEF TaskAccounts, FileAccountedFor
  <2> QED BY <2>6, <2>7, <2>8
<1> QED BY <1>1, <1>4, <1>5, DeleteEffect DEF ReadyInv

LEMMA StartReady ==
  ASSUME TypeOK, OneWorker, ReadyInv, CountInv', NEW w \in Workers, StartTask(w)
  PROVE  ReadyInv'
<1>1. CASE UNCHANGED <<eventRow, pc, task>>
  BY <1>1, StartEffect, ReadyStill
<1>2. ASSUME pc'[w] = "list", task'[w].batch = task[w].batch, task'[w].todo = task[w].todo,
             task'[w].ins = task[w].ins, task'[w].del = task[w].del
      PROVE  ReadyInv'
  <2>1. task[w] = NoTask
    BY StartEffect DEF ReadyInv, CountInv
  <2>2. task'[w].batch = {} /\ task'[w].todo = {} /\ task'[w].ins = {} /\ task'[w].del = {}
    BY <1>2, <2>1 DEF NoTask
  <2>3. TaskPlans(w)' /\ TaskReplaces(w)' /\ TaskAccounts(w)'
    BY <1>2, <2>2 DEF TaskPlans, TaskReplaces, TaskAccounts, InPass2, FileInHand, FilesOf
  <2> QED BY <2>3, StartEffect, WholeStill, ReadyParts
<1> QED BY <1>1, <1>2, StartEffect

LEMMA ListReady ==
  ASSUME TypeOK, OneWorker, ReadyInv, CountInv', NEW w \in Workers, ListFiles(w)
  PROVE  ReadyInv'
<1>1. TaskPlans(w) /\ TaskReplaces(w)
  BY ListEffect DEF ReadyInv
<1>2. TaskPlans(w)' /\ TaskReplaces(w)' /\ TaskAccounts(w)'
  BY <1>1, ListEffect DEF TaskPlans, TaskReplaces, TaskAccounts, InPass2, FileInHand
<1> QED BY <1>2, ListEffect, WholeStill, ReadyParts

\* What pass 1 leaves out, it has seen embedded, or seen to have no faces; and of what
\* it takes on, nothing is embedded and unflagged.
LEMMA SkippedSticks ==
  ASSUME NEW e \in Events, NEW f \in Files, NEW md5, ShouldSkip(e, f, md5)
  PROVE  driveFile[f] # NoRow /\ Sticks(e, f)
BY DEF ShouldSkip, Sticks, Refreshed, ZeroFacesConfirmed, HasEmbeddingsForEvent

LEMMA TakenOnIsFlagged ==
  ASSUME TypeOK, NEW e \in Events, NEW f \in Files, NEW md5 \in 0..MaxVersion,
         ~ShouldSkip(e, f, md5), RowsOf(e, f) # {}
  PROVE  driveFile[f].src # "full"
<1> SUFFICES ASSUME driveFile[f].src = "full"
             PROVE  ShouldSkip(e, f, md5)
  OBVIOUS
<1>1. driveFile[f] \in FileRow
  BY DEF TypeOK
<1>2. driveFile[f] # NoRow
  BY DEF NoRow
<1> DEFINE row == Refreshed(driveFile[f], e, md5)
<1>3. row.md5 = md5 /\ row.src = "full" /\ row.count = driveFile[f].count
  BY <1>1 DEF Refreshed, FileRow
<1>4. row.count = 0 \/ row.count > 0
  BY <1>1, <1>3 DEF FileRow
<1> QED BY <1>2, <1>3, <1>4 DEF ShouldSkip, ZeroFacesConfirmed, HasEmbeddingsForEvent

LEMMA PlanReady ==
  ASSUME TypeOK, OneWorker, ReadyInv, CountInv', NEW w \in Workers, PlanFiles(w)
  PROVE  ReadyInv'
<1> PICK e \in Events : e = task[w].event
  BY PlanEffect DEF TypeOK
<1> DEFINE work == {f \in Listed(w) : ~Unsupported(f) /\
                      ~ShouldSkip(e, f, task[w].listing[f])}
           unknown == {f \in Listed(w) : driveFile[f] = NoRow}
<1>1. /\ pc[w] = "plan" /\ pc'[w] = "upsert"
      /\ UNCHANGED <<eventRow, driveFile, faceRows>>
      /\ task'[w].event = e /\ task'[w].batch = task[w].batch
      /\ task'[w].todo = work /\ task'[w].fresh = unknown
      /\ task'[w].ins = task[w].ins /\ task'[w].del = task[w].del
  BY PlanEffect
<1>2. TaskReplaces(w) /\ task[w].batch = {} /\ Listed(w) = Folder[e]
  BY <1>1 DEF ReadyInv, CountInv, TaskCounts, InPass2
<1>3. Listed(w) \subseteq Files /\ \A f \in Files : task[w].listing[f] \in 0..MaxVersion
  BY DEF Listed, TypeOK, Task
<1>4. \A f \in work : f \in Folder[e] /\ ~Unsupported(f)
                      /\ (RowsOf(e, f) # {} => driveFile[f].src # "full")
  BY <1>2, <1>3, TakenOnIsFlagged
<1>5. \A f \in Folder[e] \ work :
        Unsupported(f) \/ (f \notin unknown /\ Sticks(e, f))
  BY <1>2, <1>3, SkippedSticks
<1> HIDE DEF work, unknown
<1>6. \A f : /\ RowsOf(e, f)' = RowsOf(e, f)
             /\ Sticks(e, f)' <=> Sticks(e, f)
  BY <1>1, SameRows DEF Sticks
<1>7. (FileInHand(w))' = {} /\ (Pending(w))' = work /\ FilesOf(task'[w].batch) = {}
  BY <1>1, <1>2 DEF FileInHand, Pending, FilesOf
<1>8. TaskPlans(w)'
  BY <1>1, <1>2, <1>4, <1>5, <1>6, <1>7 DEF TaskPlans
<1>9. TaskReplaces(w)' /\ TaskAccounts(w)'
  BY <1>1, <1>2 DEF TaskReplaces, TaskAccounts, InPass2
<1> QED BY <1>1, <1>8, <1>9, WholeStill, ReadyParts

\* A file that sticks is accounted for.
LEMMA StickingIsAccountedFor ==
  ASSUME ZeroIsFound, RowsAreWhole, NEW e \in Events, NEW f \in Files, Sticks(e, f)
  PROVE  FileAccountedFor(e, f)
BY DEF ZeroIsFound, RowsAreWhole, Sticks, FileAccountedFor

LEMMA UpsertReady ==
  ASSUME TypeOK, OneWorker, ReadyInv, CountInv', NEW w \in Workers, UpsertFiles(w)
  PROVE  ReadyInv'
<1> PICK e \in Events : e = task[w].event
  BY UpsertEffect DEF TypeOK
<1>1. /\ pc[w] = "upsert" /\ pc'[w] = "pass2" /\ EventExists(e) /\ UNCHANGED faceRows
      /\ task'[w].event = e
      /\ task'[w].batch = task[w].batch /\ task'[w].todo = task[w].todo
      /\ task'[w].ins = task[w].ins /\ task'[w].del = task[w].del
  BY UpsertEffect
<1>2. TaskPlans(w) /\ TaskReplaces(w) /\ task[w].batch = {} /\ Listed(w) = Folder[e]
  BY <1>1 DEF ReadyInv, CountInv, TaskCounts, InPass2
<1>3. \A f \in Files \ Listed(w) : driveFile'[f] = driveFile[f]
  BY UpsertEffect
<1>4. \A f \in Listed(w) :
        /\ f \in task[w].fresh <=> driveFile[f] = NoRow
        /\ driveFile'[f].src = IF Unsupported(f) THEN "skipped" ELSE driveFile[f].src
        /\ ~Unsupported(f) => driveFile'[f].count = driveFile[f].count
  BY UpsertEffect
<1>5. \A f \in Files : ~Unsupported(f) => /\ driveFile'[f].src = driveFile[f].src
                                          /\ driveFile'[f].count = driveFile[f].count
  BY <1>3, <1>4
<1>6. \A d, f : RowsOf(d, f)' = RowsOf(d, f)
  BY <1>1, SameRows
<1>7. ZeroIsFound'
  BY <1>3, <1>4 DEF ReadyInv, ZeroIsFound
<1>8. RowsAreWhole'
  BY <1>5, <1>6 DEF ReadyInv, RowsAreWhole
<1>9. (FileInHand(w))' = {} /\ (Pending(w))' = task[w].todo /\ Pending(w) = task[w].todo
      /\ FilesOf(task'[w].batch) = {} /\ Folder[e] \subseteq Files
  BY <1>1, <1>2, FolderAssumption DEF FileInHand, Pending, FilesOf
<1>10. TaskPlans(w)'
  BY <1>1, <1>2, <1>5, <1>6, <1>9 DEF TaskPlans
<1>11. TaskReplaces(w)'
  BY <1>1, <1>2 DEF TaskReplaces
<1>12. TaskAccounts(w)'
  <2> SUFFICES ASSUME NEW f \in Folder[e] \ task[w].todo
               PROVE  FileAccountedFor(e, f)'
    BY <1>1, <1>9 DEF TaskAccounts
  <2>1. CASE Unsupported(f)
    BY <2>1 DEF FileAccountedFor
  <2>2. CASE ~Unsupported(f)
    <3>1. f \in Files /\ f \notin task[w].fresh
      BY <1>1, <1>2, <1>9, <2>2 DEF TaskPlans
    <3>2. driveFile[f] # NoRow
      BY <1>2, <1>4, <3>1
    <3>3. Sticks(e, f)
      BY <1>1, <1>2, <2>2, <3>2 DEF TaskPlans
    <3>4. Sticks(e, f)'
      BY <1>5, <1>6, <2>2, <3>1, <3>3 DEF Sticks
    <3>5. FileAccountedFor(e, f)
      BY <3>1, <3>3, StickingIsAccountedFor DEF ReadyInv
    <3> QED BY <1>5, <1>6, <2>2, <3>1, <3>5 DEF FileAccountedFor
  <2> QED BY <2>1, <2>2
<1> QED BY <1>1, <1>7, <1>8, <1>10, <1>11, <1>12, ReadyParts

LEMMA FetchReady ==
  ASSUME TypeOK, OneWorker, ReadyInv, CountInv', NEW w \in Workers, FetchBatch(w)
  PROVE  ReadyInv'
<1> PICK e \in Events : e = task[w].event
  BY FetchEffect DEF TypeOK
<1>1. /\ pc[w] = "pass2" /\ pc'[w] = "pass2" /\ task[w].batch = {}
      /\ UNCHANGED <<eventRow, driveFile, faceRows>> /\ task'[w].event = e
      /\ task'[w].ins = task[w].ins /\ task'[w].del = task[w].del
  BY FetchEffect
<1>b. PICK b \in SUBSET task[w].todo, got \in [Files -> FetchSource] :
      /\ task'[w].todo = task[w].todo \ b
      /\ task'[w].batch = {[file |-> f, src |-> got[f], ver |-> drive[f]] : f \in b}
      /\ \A f \in b : got[f] = "thumbnail" => UseThumbnails
  BY FetchEffect
<1>2. TaskPlans(w) /\ TaskReplaces(w) /\ TaskAccounts(w)
  BY <1>1 DEF ReadyInv
<1>3. FilesOf(task'[w].batch) = b
  <2>1. b \subseteq Files
    BY DEF TypeOK, Task
  <2>2. ASSUME NEW f \in b
        PROVE  \E m \in task'[w].batch : m.file = f
    <3> DEFINE m == [file |-> f, src |-> got[f], ver |-> drive[f]]
    <3>1. m \in task'[w].batch /\ m.file = f
      BY <1>b
    <3> QED BY <3>1
  <2>3. \A m \in task'[w].batch : m.file \in b
    BY <1>b
  <2> QED BY <2>2, <2>3 DEF FilesOf
<1>4. \A m, n \in task'[w].batch : m.file = n.file => m = n
  BY <1>b
<1>5. \A m \in task'[w].batch : m.src = "thumbnail" => UseThumbnails
  BY <1>b
<1>6. /\ FileInHand(w) = {} /\ (FileInHand(w))' = {}
      /\ Pending(w) = task[w].todo /\ (Pending(w))' = task[w].todo
  <2>1. FileInHand(w) = {} /\ (FileInHand(w))' = {} /\ FilesOf(task[w].batch) = {}
    BY <1>1 DEF FileInHand, FilesOf
  <2> QED BY <1>1, <1>3, <1>b, <2>1 DEF Pending
<1>7. \A f : RowsOf(e, f)' = RowsOf(e, f)
  BY <1>1, SameRows
<1>8. TaskPlans(w)'
  <2>1. task'[w].todo \cap FilesOf(task'[w].batch) = {}
    BY <1>3, <1>b
  <2>2. \A f \in (Pending(w))' : /\ f \in Folder[e] /\ ~Unsupported(f)
                                 /\ RowsOf(e, f)' # {} => driveFile'[f].src # "full"
    BY <1>1, <1>2, <1>6, <1>7 DEF TaskPlans, InPass2
  <2> QED BY <1>1, <1>4, <1>6, <2>1, <2>2 DEF TaskPlans
<1>9. TaskReplaces(w)'
  BY <1>1, <1>2, <1>5 DEF TaskReplaces
<1>10. TaskAccounts(w)'
  BY <1>1, <1>2, <1>6, <1>7 DEF TaskAccounts, FileAccountedFor, InPass2, EventExists
<1> QED BY <1>1, <1>8, <1>9, <1>10, WholeStill, ReadyParts

LEMMA RemoveReady ==
  ASSUME TypeOK, OneWorker, ReadyInv, CountInv', NEW w \in Workers,
         NEW m \in task[w].batch, RemoveOldEmbeddings(w, m)
  PROVE  ReadyInv'
<1> PICK e \in Events : e = task[w].event
  BY RemoveEffect DEF TypeOK
<1>1. /\ pc[w] = "pass2" /\ pc'[w] \in {"detect", "commit"}
      /\ UNCHANGED <<eventRow, driveFile, faceRows>>
      /\ task'[w].event = e /\ task'[w].todo = task[w].todo
      /\ task'[w].batch = task[w].batch \ {m} /\ task'[w].cur = m
      /\ task'[w].ins = task[w].ins /\ task'[w].del = task[w].del
      /\ pc'[w] = "commit" => task'[w].src = "error"
  BY RemoveEffect
<1>2. TaskPlans(w) /\ TaskReplaces(w) /\ TaskAccounts(w)
  BY <1>1 DEF ReadyInv
<1>3. /\ \A x, y \in task[w].batch : x.file = y.file => x = y
      /\ task[w].todo \cap FilesOf(task[w].batch) = {}
  BY <1>2 DEF TaskPlans
<1>4. FilesOf(task'[w].batch) = FilesOf(task[w].batch) \ {m.file}
  BY <1>1, <1>3 DEF FilesOf
<1>5. m.file \in FilesOf(task[w].batch) /\ FileInHand(w) = {} /\ (FileInHand(w))' = {m.file}
  BY <1>1 DEF FilesOf, FileInHand
<1>6. (Pending(w))' = Pending(w)
  BY <1>1, <1>4, <1>5 DEF Pending
<1>7. \A f : RowsOf(e, f)' = RowsOf(e, f)
  BY <1>1, SameRows
<1>8. TaskPlans(w)'
  <2>1. (FileInHand(w))' \cap (task'[w].todo \cup FilesOf(task'[w].batch)) = {}
    BY <1>1, <1>3, <1>4, <1>5
  <2>2. task'[w].todo \cap FilesOf(task'[w].batch) = {}
    BY <1>1, <1>3, <1>4
  <2>3. \A x, y \in task'[w].batch : x.file = y.file => x = y
    BY <1>1, <1>3
  <2>4. \A f \in (Pending(w))' : /\ f \in Folder[e] /\ ~Unsupported(f)
                                 /\ RowsOf(e, f)' # {} => driveFile'[f].src # "full"
    BY <1>1, <1>2, <1>6, <1>7 DEF TaskPlans, InPass2
  <2> QED BY <1>1, <2>1, <2>2, <2>3, <2>4 DEF TaskPlans
<1>9. TaskReplaces(w)'
  BY <1>1, <1>2 DEF TaskReplaces
<1>10. TaskAccounts(w)'
  BY <1>1, <1>2, <1>6, <1>7 DEF TaskAccounts, FileAccountedFor, InPass2, EventExists
<1> QED BY <1>1, <1>8, <1>9, <1>10, WholeStill, ReadyParts

\* As many new faces as were detected, one for each id.
LEMMA NewFacesNumber ==
  ASSUME NEW t, t.nextId \in Nat, NEW d, d.count \in Nat
  PROVE  Cardinality(NewFaces(t, d)) = d.count
<1> DEFINE ids == t.nextId..(t.nextId + d.count - 1)
           face == [n \in ids |-> [id |-> n, file |-> t.cur.file, ver |-> d.ver]]
<1>1. IsFiniteSet(ids) /\ Cardinality(ids) = d.count
  <2> DEFINE lo == t.nextId
             hi == t.nextId + d.count - 1
  <2>1. lo \in Int /\ hi \in Int
    OBVIOUS
  <2>2. IsFiniteSet(lo..hi) /\ Cardinality(lo..hi) = IF lo > hi THEN 0 ELSE hi - lo + 1
    BY <2>1, FS_Interval
  <2> QED BY <2>2
<1>2. face \in Bijection(ids, NewFaces(t, d))
  BY DEF NewFaces, Bijection, Injection, Surjection, IsInjective
<1> QED BY <1>1, <1>2, FS_Bijection DEF ExistsBijection

LEMMA DetectionsSay ==
  ASSUME TypeOK, NEW m \in Media, NEW d \in Detections(m)
  PROVE  /\ d.count \in Nat /\ d.src \in {"full", "thumbnail", "error"}
         /\ d.src = "error" => d.count = 0
         /\ d.src = "thumbnail" => m.src = "thumbnail"
         /\ d.src = "full" => d.ver \in Versions /\ d.count = Faces[m.file][d.ver]
<1>1. m.file \in Files /\ m.ver \in Versions /\ drive[m.file] \in Versions
  BY DEF TypeOK, Media
<1>2. \A v \in Versions : Faces[m.file][v] \in Nat /\ ThumbFaces[m.file][v] \in Nat
  BY <1>1, FacesAssumption
<1> QED BY <1>1, <1>2 DEF Detections

LEMMA DetectReady ==
  ASSUME TypeOK, OneWorker, ReadyInv, CountInv', NEW w \in Workers, DetectAndAdd(w)
  PROVE  ReadyInv'
<1> PICK e \in Events : e = task[w].event
  BY DetectEffect DEF TypeOK
<1> PICK m \in Media : m = task[w].cur
  BY DetectEffect
<1>1. /\ pc[w] = "detect" /\ pc'[w] = "commit"
      /\ UNCHANGED <<eventRow, driveFile, faceRows>>
      /\ task'[w].event = e /\ task'[w].todo = task[w].todo
      /\ task'[w].batch = task[w].batch /\ task'[w].cur = m
      /\ task'[w].del = RowsOf(e, m.file)
  BY DetectEffect
<1> PICK d \in Detections(m) :
      /\ task'[w].ins = NewFaces(task[w], d)
      /\ \/ task'[w].src = "error"
         \/ task'[w].src = d.src /\ task'[w].count = d.count
  BY ZenonT(60), DetectEffect
<1>2. TaskPlans(w) /\ TaskReplaces(w) /\ TaskAccounts(w)
  BY <1>1 DEF ReadyInv
<1>3. (FileInHand(w))' = FileInHand(w) /\ (Pending(w))' = Pending(w)
  BY <1>1 DEF FileInHand, Pending
<1>4. \A f : RowsOf(e, f)' = RowsOf(e, f)
  BY <1>1, SameRows
<1>5. TaskPlans(w)'
  BY <1>1, <1>2, <1>3, <1>4 DEF TaskPlans, InPass2
<1>6. TaskReplaces(w)'
  <2> DEFINE new == NewFaces(task[w], d)
  <2>1. /\ d.count \in Nat /\ d.src \in {"full", "thumbnail", "error"}
        /\ d.src = "error" => d.count = 0
        /\ d.src = "thumbnail" => m.src = "thumbnail"
        /\ d.src = "full" => d.ver \in Versions /\ d.count = Faces[m.file][d.ver]
    BY DetectionsSay
  <2>2. task[w].nextId \in Nat
    BY DEF TypeOK, Task
  <2>3. Cardinality(new) = d.count
    BY <2>1, <2>2, NewFacesNumber
  <2>4. \A x \in new : x.ver = d.ver
    BY DEF NewFaces
  <2>5. d.src = "full" => WholeOf(m.file, new)
    BY <2>1, <2>3, <2>4 DEF WholeOf
  <2>6. d.src = "error" => new = {}
    BY <2>1, <2>2 DEF NewFaces
  <2>7. d.src = "thumbnail" => UseThumbnails
    BY <1>1, <1>2, <2>1 DEF TaskReplaces
  <2>8. \A x, y \in new : x.id = y.id => x = y
    BY DEF NewFaces
  <2>9. task'[w].ins = new
    OBVIOUS
  <2>10. \/ task'[w].src = "error"
         \/ task'[w].src = d.src /\ task'[w].count = Cardinality(new)
    BY <2>3
  <2> HIDE DEF new
  <2> QED BY <1>1, <1>2, <1>4, <2>1, <2>5, <2>6, <2>7, <2>8, <2>9, <2>10 DEF TaskReplaces
<1>7. TaskAccounts(w)'
  BY <1>1, <1>2, <1>3, <1>4 DEF TaskAccounts, FileAccountedFor, InPass2, EventExists
<1> QED BY <1>1, <1>5, <1>6, <1>7, WholeStill, ReadyParts

\* The commit of a file replaces its rows by all faces of one version, or flags it.
\* Of the rows other events have of the file, its columns still speak.
LEMMA CommitReady ==
  ASSUME TypeOK, RefInv, OneWorker, FlagsSpeak, ReadyInv, CountInv',
         NEW w \in Workers, CommitFile(w)
  PROVE  ReadyInv'
<1> PICK e \in Events : e = task[w].event
  BY CommitEffect
<1> PICK f \in Files : f = task[w].cur.file
  BY CommitEffect
<1> DEFINE t == task[w]
<1>1. /\ pc[w] = "commit" /\ pc'[w] = "pass2" /\ EventExists(e)
      /\ task'[w].event = e /\ task'[w].todo = t.todo /\ task'[w].batch = t.batch
      /\ task'[w].ins = {} /\ task'[w].del = {}
      /\ faceRows'[e] = (faceRows[e] \ t.del) \cup t.ins
      /\ \A d \in Events : d # e => faceRows'[d] = faceRows[d]
      /\ driveFile'[f].src = t.src /\ driveFile'[f].count = t.count
      /\ \A g \in Files : g # f => driveFile'[g] = driveFile[g]
  BY CommitEffect
<1>2. TaskPlans(w) /\ TaskReplaces(w) /\ TaskAccounts(w)
  BY <1>1 DEF ReadyInv
<1>3. /\ t.src \in {"full", "thumbnail", "error"}
      /\ \/ t.del = RowsOf(e, f)
         \/ t.del = {} /\ t.ins = {} /\ t.src = "error"
      /\ t.src = "full" => WholeOf(f, t.ins) /\ t.count = Cardinality(t.ins)
      /\ \/ t.ins = {} \/ WholeOf(f, t.ins)
         \/ UseThumbnails /\ t.src # "full"
  BY <1>1, <1>2 DEF TaskReplaces
<1>4. \A x \in t.ins : x.file = f
  BY <1>1 DEF RefInv, InsertsAreOfFile
<1>5. FileInHand(w) = {f} /\ (FileInHand(w))' = {}
  BY <1>1 DEF FileInHand
<1>6. Pending(w) = (Pending(w))' \cup {f} /\ f \notin (Pending(w))'
  BY <1>1, <1>2, <1>5 DEF Pending, TaskPlans
<1>7. f \in Folder[e] /\ ~Unsupported(f)
  BY <1>1, <1>2, <1>6 DEF TaskPlans, InPass2
<1>8. /\ \A d \in Events, g \in Files : d # e \/ g # f => RowsOf(d, g)' = RowsOf(d, g)
      /\ \/ RowsOf(e, f)' = t.ins
         \/ RowsOf(e, f)' = RowsOf(e, f) /\ t.src = "error"
  <2>1. \A d \in Events, g \in Files : d # e => RowsOf(d, g)' = RowsOf(d, g)
    BY <1>1 DEF RowsOf
  <2>2. \A g \in Files : g # f => RowsOf(e, g)' = RowsOf(e, g)
    BY <1>1, <1>3, <1>4 DEF RowsOf
  <2>3. t.del = RowsOf(e, f) => RowsOf(e, f)' = t.ins
    BY <1>1, <1>4 DEF RowsOf
  <2>4. t.del = {} /\ t.ins = {} => RowsOf(e, f)' = RowsOf(e, f)
    BY <1>1 DEF RowsOf
  <2> QED BY <1>3, <2>1, <2>2, <2>3, <2>4
<1> HIDE DEF t
<1>9. ZeroIsFound'
  <2> SUFFICES ASSUME NEW g \in Files, driveFile'[g].src = "full", driveFile'[g].count = 0
               PROVE  WholeOf(g, {})
    BY DEF ZeroIsFound, WholeOf
  <2>1. CASE g # f
    BY <1>1, <2>1 DEF ReadyInv, ZeroIsFound
  <2>2. CASE g = f
    <3>1. WholeOf(f, t.ins) /\ Cardinality(t.ins) = 0
      BY <1>1, <1>3, <2>2
    <3>2. Cardinality({}) = 0
      BY FS_EmptySet
    <3> QED BY <2>2, <3>1, <3>2 DEF WholeOf
  <2> QED BY <2>1, <2>2
<1>10. RowsAreWhole'
  <2> SUFFICES ASSUME NEW d \in Events, NEW g \in Files, RowsOf(d, g)' # {}
               PROVE  /\ g \in Folder[d] /\ ~Unsupported(g)
                      /\ \/ WholeOf(g, RowsOf(d, g)')
                         \/ UseThumbnails /\ driveFile'[g].src \in {"error", "thumbnail"}
    BY DEF RowsAreWhole, WholeOf
  <2>1. CASE g # f
    BY <1>1, <1>8, <2>1 DEF ReadyInv, RowsAreWhole
  <2>2. CASE g = f /\ d # e
    <3>1. RowsOf(d, f)' = RowsOf(d, f) /\ RowsOf(d, f) # {}
      BY <1>8, <2>2
    <3>2. f \in Folder[d]
      BY <3>1 DEF ReadyInv, RowsAreWhole
    <3>3. ~UseThumbnails
      BY <1>7, <2>2, <3>2 DEF FlagsSpeak, Unshared
    <3> QED BY <2>2, <3>1, <3>3 DEF ReadyInv, RowsAreWhole
  <2>3. CASE g = f /\ d = e
    <3>1. CASE RowsOf(e, f)' = t.ins
      BY <1>1, <1>3, <1>7, <2>3, <3>1
    <3>2. CASE RowsOf(e, f)' = RowsOf(e, f) /\ t.src = "error"
      BY <1>1, <1>7, <2>3, <3>2 DEF ReadyInv, RowsAreWhole
    <3> QED BY <1>8, <3>1, <3>2
  <2> QED BY <2>1, <2>2, <2>3
<1>11. TaskPlans(w)'
  <2>1. ASSUME NEW g \in (Pending(w))'
        PROVE  /\ g \in Folder[e] /\ ~Unsupported(g)
               /\ RowsOf(e, g)' # {} => driveFile'[g].src # "full"
    <3>1. g \in Pending(w) /\ g # f
      BY <1>6, <2>1
    <3>2. /\ g \in Folder[e] /\ ~Unsupported(g)
          /\ RowsOf(e, g) # {} => driveFile[g].src # "full"
      BY <1>1, <1>2, <3>1 DEF TaskPlans, InPass2
    <3>3. g \in Files
      BY <3>2, FolderAssumption
    <3> QED BY <1>1, <1>8, <3>1, <3>2, <3>3
  <2> QED BY <1>1, <1>2, <1>5, <2>1 DEF TaskPlans, t
<1>12. TaskReplaces(w)'
  BY <1>1, <1>2 DEF TaskReplaces, t
<1>13. TaskAccounts(w)'
  <2> SUFFICES ASSUME NEW g \in Folder[e], g \notin (Pending(w))'
               PROVE  FileAccountedFor(e, g)'
    BY <1>1 DEF TaskAccounts
  <2>1. g \in Files
    BY FolderAssumption
  <2>2. CASE g # f
    <3>1. FileAccountedFor(e, g)
      BY <1>1, <1>2, <1>6, <2>2 DEF TaskAccounts, InPass2
    <3> QED BY <1>1, <1>8, <2>1, <2>2, <3>1 DEF FileAccountedFor
  <2>3. CASE g = f
    BY <1>1, <1>3, <1>8, <2>3 DEF FileAccountedFor
  <2> QED BY <2>2, <2>3
<1> QED BY <1>1, <1>9, <1>10, <1>11, <1>12, <1>13, ReadyParts

LEMMA EndReady ==
  ASSUME TypeOK, OneWorker, ReadyInv, CountInv', NEW w \in Workers,
         ListingFails(w) \/ Finish(w) \/ Abandon(w) \/ CrashWorker(w)
  PROVE  ReadyInv'
<1>1. EndTask(w) /\ UNCHANGED <<driveFile, faceRows>>
  BY DEF ListingFails, Finish, Abandon, CrashWorker, dbVars
<1> QED BY <1>1, EndEffect, WholeStill, ReadyParts

LEMMA ReadyStep ==
  TypeOK /\ RefInv /\ OneWorker /\ FlagsSpeak /\ ReadyInv /\ [Next]_vars => ReadyInv'
<1> SUFFICES ASSUME TypeOK, RefInv, OneWorker, FlagsSpeak, ReadyInv, [Next]_vars
             PROVE  ReadyInv'
  OBVIOUS
<1> USE DEF dbVars, indexVars, apiVars
<1>0. CountInv'
  BY CountStep DEF ReadyInv
<1>1. ASSUME NEW w \in Workers, WorkerStep(w)
      PROVE  ReadyInv'
  BY <1>0, <1>1, StartReady, ListReady, PlanReady, UpsertReady, FetchReady, RemoveReady,
     DetectReady, CommitReady, EndReady DEF WorkerStep
<1>2. ASSUME NEW e \in Events, ApiStep(e)
      PROVE  ReadyInv'
  <2>1. CASE Reindex(e) \/ RemoveIndexFile(e)
    BY <1>0, <2>1, ReadyStill DEF Reindex, RemoveIndexFile
  <2> QED BY <1>0, <1>2, <2>1, CreateReady, DeleteReady DEF ApiStep
<1>3. ASSUME NEW w \in Workers, CrashWorker(w)
      PROVE  ReadyInv'
  BY <1>0, <1>3, EndReady
<1>4. CASE CrashApi
  BY <1>0, <1>4, ReadyStill DEF CrashApi
<1>5. ASSUME NEW f \in Files, ChangeContent(f)
      PROVE  ReadyInv'
  BY <1>0, <1>5, ReadyStill DEF ChangeContent
<1>6. CASE Rest \/ UNCHANGED vars
  BY <1>0, <1>6, ReadyStill DEF Rest, vars
<1> QED BY <1>1, <1>2, <1>3, <1>4, <1>5, <1>6 DEF Next

\* With one worker process, and where a flag speaks of the event's own rows: the rows
\* of a file are all faces of one version of it, or the file is flagged; a zero was
\* found; and a task has accounted for each file that is not pending.
THEOREM ReadyInvCorrect == OneWorker /\ FlagsSpeak => (Spec => []ReadyInv)
<1> SUFFICES ASSUME OneWorker, FlagsSpeak
             PROVE  Spec => []ReadyInv
  OBVIOUS
<1>1. Init => ReadyInv
  BY ReadyInit
<1>2. TypeOK /\ RefInv /\ ReadyInv /\ [Next]_vars => ReadyInv'
  BY ReadyStep
<1> QED BY <1>1, <1>2, TypeCorrect, RefInvCorrect, PTL DEF Spec

\* A task only ends in READY when each photo and video of the folder is flagged, or has
\* one row for every face of one version, whatever was killed and whatever the skip
\* rules left out.
THEOREM ReadyAccountsForAll ==
  OneWorker /\ FlagsSpeak => (Spec => ReadyAccountsForEveryFile)
<1> SUFFICES ASSUME OneWorker, FlagsSpeak
             PROVE  Spec => ReadyAccountsForEveryFile
  OBVIOUS
<1> DEFINE Accounts ==
      \A e \in Events :
        (\E w \in Workers : task[w].event = e /\ Finish(w)) =>
          \A f \in Folder[e] : FileAccountedFor(e, f)
<1>1. ReadyInv => Accounts
  <2> SUFFICES ASSUME ReadyInv, NEW e \in Events, NEW w \in Workers,
                      task[w].event = e, Finish(w), NEW f \in Folder[e]
               PROVE  FileAccountedFor(e, f)
    OBVIOUS
  <2>1. /\ pc[w] = "pass2" /\ EventExists(e)
        /\ task[w].batch = {} /\ task[w].todo = {}
    BY DEF Finish
  <2>2. Pending(w) = {}
    BY <2>1 DEF Pending, FilesOf, FileInHand
  <2>3. TaskAccounts(w)
    BY <2>1 DEF ReadyInv
  <2> QED BY <2>1, <2>2, <2>3 DEF TaskAccounts, InPass2
<1>2. ReadyInv => [Accounts]_vars
  BY <1>1
<1> HIDE DEF Accounts
<1>3. Spec => [][Accounts]_vars
  BY <1>2, ReadyInvCorrect, PTL
<1> QED BY <1>3 DEF Accounts, ReadyAccountsForEveryFile

-----------------------------------------------------------------------------
(* What is not flagged can be found *)

\* A step of the only worker on e, seen from the other events: they keep their rows,
\* their index files, and what is said of their files.
LEMMA SearchParts ==
  ASSUME OneWorker, SearchInv, NEW w \in Workers, NEW e \in Events,
         task[w].event = e \/ \A d \in Events : ~WorkedOn(d),
         task'[w].event = e, pc'[w] # "idle",
         \A d \in Events : d # e =>
           /\ eventRow'[d].status = eventRow[d].status /\ faceRows'[d] = faceRows[d]
           /\ disk'[d] = disk[d] /\ (d \in torn' <=> d \in torn)
           /\ \A r \in faceRows[d] : driveFile'[r.file].src = driveFile[r.file].src,
         \A r, s \in faceRows'[e] : r.id = s.id => r = s,
         TaskKeeps(w)'
  PROVE  SearchInv'
<1>1. RowIdsUnique'
  BY DEF SearchInv, RowIdsUnique
<1>2. SearchableUnlessFlagged'
  <2> SUFFICES ASSUME NEW d \in Events, eventRow'[d].status = "ready", ~WorkedOn(d)',
                      d \notin torn', NEW r \in faceRows'[d], driveFile'[r.file].src # "error"
               PROVE  r \in disk'[d]
    BY DEF SearchableUnlessFlagged
  <2>1. d # e /\ ~WorkedOn(d)
    BY DEF WorkedOn, OneWorker
  <2> QED BY <2>1 DEF SearchInv, SearchableUnlessFlagged
<1>3. StickingIsKept'
  <2> SUFFICES ASSUME NEW d \in Events, NEW r \in faceRows'[d],
                      driveFile'[r.file].src = "full"
               PROVE  d \in torn' \/ r \in disk'[d]
    BY DEF StickingIsKept, Kept
  <2>1. CASE d # e
    BY <2>1 DEF SearchInv, StickingIsKept, Kept
  <2>2. CASE d = e
    BY <2>2 DEF TaskKeeps, Kept
  <2> QED BY <2>1, <2>2
<1> QED BY <1>1, <1>2, <1>3 DEF SearchInv, OneWorker

\* The columns a task of e writes are of files no other event has rows of.
LEMMA OthersSources ==
  ASSUME TypeOK, Unshared, RowsAreWhole, NEW e \in Events,
         \A f \in Files \ Folder[e] : driveFile'[f] = driveFile[f],
         NEW d \in Events, d # e, NEW r \in faceRows[d]
  PROVE  driveFile'[r.file] = driveFile[r.file]
<1>1. r.file \in Files
  BY DEF TypeOK, Face
<1>2. r.file \in Folder[d]
  BY <1>1 DEF RowsAreWhole, RowsOf
<1> QED BY <1>1, <1>2 DEF Unshared

LEMMA SearchInit == Init => SearchInv
BY DEF Init, SearchInv, SearchableUnlessFlagged, RowIdsUnique, StickingIsKept

\* What a task keeps, it keeps where nothing it speaks of changes.
LEMMA KeepsStill ==
  ASSUME NEW w \in Workers, pc'[w] = pc[w], task'[w] = task[w], TaskKeeps(w),
         NEW e \in Events, e = task[w].event,
         EventExists(e)' => EventExists(e),
         \A r \in faceRows'[e] : r \in faceRows[e] /\ driveFile'[r.file] = driveFile[r.file],
         EventExists(e)' \/ faceRows'[e] # {} => disk'[e] = disk[e] /\ (e \in torn' <=> e \in torn)
  PROVE  TaskKeeps(w)'
BY SameHolding DEF TaskKeeps, Kept

LEMMA SearchStill ==
  ASSUME TypeOK, SearchInv,
         UNCHANGED <<eventRow, driveFile, faceRows, disk, torn, pc, task>>
  PROVE  SearchInv'
<1>1. SearchableUnlessFlagged' /\ RowIdsUnique' /\ StickingIsKept'
  BY DEF SearchInv, SearchableUnlessFlagged, RowIdsUnique, StickingIsKept, WorkedOn, Kept
<1>2. ASSUME NEW w \in Workers, pc[w] # "idle"
      PROVE  TaskKeeps(w)'
  <2> PICK e \in Events : e = task[w].event
    BY <1>2 DEF TypeOK
  <2>1. EventExists(e)' <=> EventExists(e)
    BY DEF EventExists
  <2> QED BY <1>2, <2>1, KeepsStill DEF SearchInv
<1> QED BY <1>1, <1>2 DEF SearchInv

LEMMA CreateSearch ==
  ASSUME TypeOK, CountInv, SearchInv, NEW e \in Events, CreateEvent(e)
  PROVE  SearchInv'
<1>1. UNCHANGED <<driveFile, faceRows, disk, torn, pc, task>>
  BY DEF CreateEvent, indexVars
<1>2. /\ eventRow[e].status = "none" /\ eventRow'[e].status # "ready"
      /\ \A d \in Events : d # e => eventRow'[d] = eventRow[d]
  BY DEF CreateEvent, TypeOK, EventRow
<1>3. SearchableUnlessFlagged'
  BY <1>1, <1>2 DEF SearchInv, SearchableUnlessFlagged, WorkedOn
<1>4. RowIdsUnique' /\ StickingIsKept'
  BY <1>1 DEF SearchInv, RowIdsUnique, StickingIsKept, Kept
<1>5. ASSUME NEW w \in Workers, pc[w] # "idle"
      PROVE  TaskKeeps(w)'
  <2> PICK d \in Events : d = task[w].event
    BY <1>5 DEF TypeOK
  <2>1. d # e
    BY <1>2, <1>5 DEF CountInv, TaskIsOpen
  <2>2. EventExists(d)' <=> EventExists(d)
    BY <1>2, <2>1 DEF EventExists
  <2> QED BY <1>1, <1>5, <2>2, KeepsStill DEF SearchInv
<1> QED BY <1>1, <1>3, <1>4, <1>5 DEF SearchInv

LEMMA DeleteSearch ==
  ASSUME TypeOK, SearchInv, NEW e \in Events, DeleteRows(e)
  PROVE  SearchInv'
<1>1. /\ UNCHANGED <<disk, torn, pc, task>>
      /\ eventRow'[e].status = "deleted" /\ faceRows'[e] = {}
      /\ \A d \in Events : d # e => eventRow'[d] = eventRow[d] /\ faceRows'[d] = faceRows[d]
  BY DeleteEffect
<1>2. ASSUME NEW d \in Events, NEW r \in faceRows'[d]
      PROVE  r \in faceRows[d] /\ driveFile'[r.file] = driveFile[r.file]
  <2>1. d # e /\ r \in faceRows[d] /\ r.file \in Files
    BY <1>1, <1>2 DEF TypeOK, Face
  <2> QED BY <2>1, DeleteEffect DEF RowsOf, ReferencedElsewhere
<1>3. SearchableUnlessFlagged'
  BY <1>1, <1>2 DEF SearchInv, SearchableUnlessFlagged, WorkedOn
<1>4. RowIdsUnique' /\ StickingIsKept'
  BY <1>1, <1>2 DEF SearchInv, RowIdsUnique, StickingIsKept, Kept
<1>5. ASSUME NEW w \in Workers, pc[w] # "idle"
      PROVE  TaskKeeps(w)'
  <2> PICK d \in Events : d = task[w].event
    BY <1>5 DEF TypeOK
  <2>1. EventExists(d)' => EventExists(d)
    BY <1>1 DEF EventExists
  <2> QED BY <1>1, <1>2, <1>5, <2>1, KeepsStill DEF SearchInv
<1> QED BY <1>1, <1>3, <1>4, <1>5 DEF SearchInv

\* The index file of a deleted event goes when its rows have gone.
LEMMA RemoveFileSearch ==
  ASSUME TypeOK, RefInv, SearchInv, NEW e \in Events, RemoveIndexFile(e)
  PROVE  SearchInv'
<1>1. /\ UNCHANGED <<eventRow, driveFile, faceRows, pc, task>>
      /\ \A d \in Events : d # e => disk'[d] = disk[d] /\ (d \in torn' <=> d \in torn)
  BY DEF RemoveIndexFile, TypeOK, dbVars
<1>2. ~EventExists(e) /\ faceRows[e] = {}
  BY DEF RemoveIndexFile, RefInv, RowsGoFirst, ReferencesHold, EventExists
<1>3. SearchableUnlessFlagged'
  BY <1>1, <1>2 DEF SearchInv, SearchableUnlessFlagged, WorkedOn
<1>4. RowIdsUnique' /\ StickingIsKept'
  BY <1>1, <1>2 DEF SearchInv, RowIdsUnique, StickingIsKept, Kept
<1>5. ASSUME NEW w \in Workers, pc[w] # "idle"
      PROVE  TaskKeeps(w)'
  <2> PICK d \in Events : d = task[w].event
    BY <1>5 DEF TypeOK
  <2>1. EventExists(d)' <=> EventExists(d)
    BY <1>1 DEF EventExists
  <2> QED BY <1>1, <1>2, <1>5, <2>1, KeepsStill DEF SearchInv
<1> QED BY <1>1, <1>3, <1>4, <1>5 DEF SearchInv

LEMMA StartSearch ==
  ASSUME TypeOK, OneWorker, CountInv, SearchInv, NEW w \in Workers, StartTask(w)
  PROVE  SearchInv'
<1>1. pc[w] = "idle" /\ UNCHANGED <<driveFile, faceRows, disk, torn>>
  BY StartEffect
<1>2. CASE UNCHANGED <<eventRow, pc, task>>
  BY <1>1, <1>2, SearchStill
<1>3. ASSUME NEW e \in Events, pc'[w] = "list", task'[w].event = e,
             \A d \in Events : d # e => eventRow'[d] = eventRow[d],
             task'[w].ins = task[w].ins, task'[w].loaded = task[w].loaded
      PROVE  SearchInv'
  <2>1. task[w] = NoTask
    BY <1>1 DEF CountInv
  <2>2. task[w].event = None /\ ~task[w].loaded
    BY <2>1 DEF NoTask
  <2>3. \A d \in Events : ~WorkedOn(d)
    BY <2>2, NoneAssumption DEF WorkedOn, OneWorker
  <2>4. TaskKeeps(w)'
    BY <1>1, <1>3, <2>2 DEF TaskKeeps, InPass2, SearchInv, StickingIsKept, Kept
  <2>5. \A r, s \in faceRows'[e] : r.id = s.id => r = s
    BY <1>1 DEF SearchInv, RowIdsUnique
  <2> QED BY <1>1, <1>3, <2>3, <2>4, <2>5, SearchParts
<1> QED BY <1>2, <1>3, StartEffect

LEMMA ListSearch ==
  ASSUME TypeOK, OneWorker, SearchInv, NEW w \in Workers, ListFiles(w)
  PROVE  SearchInv'
<1> PICK e \in Events : e = task[w].event
  BY ListEffect
<1>1. /\ pc[w] = "list" /\ pc'[w] = "plan" /\ task'[w].event = e
      /\ UNCHANGED <<driveFile, faceRows, disk, torn>> /\ StatusesStay
      /\ task'[w].ins = task[w].ins
      /\ task'[w].loaded = task[w].loaded /\ task'[w].mem = task[w].mem
  BY ListEffect
<1>2. TaskKeeps(w) /\ RowIdsUnique
  BY <1>1 DEF SearchInv
<1>3. TaskKeeps(w)'
  BY <1>1, <1>2 DEF TaskKeeps, InPass2, Kept
<1> QED BY <1>1, <1>2, <1>3, SearchParts DEF StatusesStay, RowIdsUnique

LEMMA PlanSearch ==
  ASSUME TypeOK, OneWorker, SearchInv, NEW w \in Workers, PlanFiles(w)
  PROVE  SearchInv'
<1> PICK e \in Events : e = task[w].event
  BY PlanEffect DEF TypeOK
<1>1. /\ pc[w] = "plan" /\ pc'[w] = "upsert" /\ task'[w].event = e
      /\ UNCHANGED <<eventRow, driveFile, faceRows, disk, torn>>
      /\ task'[w].loaded = task[w].loaded /\ task'[w].mem = task[w].mem
  BY PlanEffect
<1>2. TaskKeeps(w) /\ RowIdsUnique
  BY <1>1 DEF SearchInv
<1>3. TaskKeeps(w)'
  BY <1>1, <1>2 DEF TaskKeeps, InPass2, Kept
<1> QED BY <1>1, <1>2, <1>3, SearchParts DEF RowIdsUnique

\* What pass 1 leaves out sticks, so it is kept.
LEMMA UpsertSearch ==
  ASSUME TypeOK, OneWorker, ReadyInv, SearchInv, NEW w \in Workers, UpsertFiles(w)
  PROVE  SearchInv'
<1> PICK e \in Events : e = task[w].event
  BY UpsertEffect
<1>1. /\ pc[w] = "upsert" /\ pc'[w] = "pass2" /\ EventExists(e) /\ task'[w].event = e
      /\ UNCHANGED <<faceRows, disk, torn>> /\ StatusesStay
      /\ task'[w].todo = task[w].todo /\ task'[w].batch = task[w].batch
      /\ task'[w].loaded = task[w].loaded /\ task'[w].mem = task[w].mem
  BY UpsertEffect
<1>2. TaskKeeps(w) /\ RowIdsUnique /\ TaskPlans(w)
  BY <1>1 DEF SearchInv, ReadyInv
<1>3. Listed(w) = Folder[e] /\ task[w].batch = {}
  BY <1>1 DEF ReadyInv, CountInv, TaskCounts, InPass2
<1>4. \A f \in Files : ~Unsupported(f) => driveFile'[f].src = driveFile[f].src
  BY UpsertEffect
<1>5. \A f \in Folder[e] : f \in task[w].fresh <=> driveFile[f] = NoRow
  BY <1>3, UpsertEffect
<1>6. ASSUME NEW d \in Events, NEW r \in faceRows[d]
      PROVE  /\ r.file \in Folder[d] /\ ~Unsupported(r.file)
             /\ driveFile'[r.file].src = driveFile[r.file].src
  <2>1. r.file \in Files /\ RowsOf(d, r.file) # {}
    BY DEF TypeOK, Face, RowsOf
  <2> QED BY <1>4, <2>1 DEF ReadyInv, RowsAreWhole
<1>7. (Pending(w))' = task[w].todo
  BY <1>1, <1>3 DEF Pending, FilesOf, FileInHand
<1>8. ASSUME NEW r \in faceRows[e], r.file \notin task[w].todo
      PROVE  driveFile[r.file].src = "full"
  BY <1>1, <1>2, <1>5, <1>6, <1>8 DEF TaskPlans, Sticks
<1>9. TaskKeeps(w)'
  BY <1>1, <1>2, <1>6, <1>7, <1>8 DEF TaskKeeps, Kept
<1> QED BY <1>1, <1>2, <1>6, <1>9, SearchParts DEF StatusesStay, RowIdsUnique

LEMMA FetchSearch ==
  ASSUME TypeOK, OneWorker, ReadyInv, SearchInv, NEW w \in Workers, FetchBatch(w)
  PROVE  SearchInv'
<1> PICK e \in Events : e = task[w].event
  BY FetchEffect DEF TypeOK
<1>1. /\ pc[w] = "pass2" /\ pc'[w] = "pass2" /\ task[w].batch = {} /\ task'[w].event = e
      /\ UNCHANGED <<eventRow, driveFile, faceRows, disk, torn>>
      /\ task'[w].loaded = task[w].loaded /\ task'[w].mem = task[w].mem
  BY FetchEffect
<1>b. PICK b \in SUBSET task[w].todo, got \in [Files -> FetchSource] :
        /\ task'[w].todo = task[w].todo \ b
        /\ task'[w].batch = {[file |-> f, src |-> got[f], ver |-> drive[f]] : f \in b}
  BY FetchEffect
<1>2. TaskKeeps(w) /\ RowIdsUnique
  BY <1>1 DEF SearchInv
<1>3. Pending(w) \subseteq (Pending(w))'
  <2>1. ASSUME NEW f \in b
        PROVE  f \in FilesOf(task'[w].batch)
    <3> DEFINE m == [file |-> f, src |-> got[f], ver |-> drive[f]]
    <3>1. m \in task'[w].batch /\ m.file = f
      BY <1>b
    <3> QED BY <3>1 DEF FilesOf
  <2>2. FileInHand(w) = {} /\ FilesOf(task[w].batch) = {}
    BY <1>1 DEF FileInHand, FilesOf
  <2> QED BY <1>b, <2>1, <2>2 DEF Pending
<1>4. TaskKeeps(w)'
  BY <1>1, <1>2, <1>3 DEF TaskKeeps, InPass2, Kept
<1> QED BY <1>1, <1>2, <1>4, SearchParts DEF RowIdsUnique

\* The index that a task reads has what it keeps.
LEMMA IndexHasKept ==
  ASSUME NEW w \in Workers, NEW e \in Events, e = task[w].event, ~Unreadable(w),
         NEW r, Kept(e, r), task[w].loaded => r \in task[w].mem
  PROVE  r \in IndexOf(w)
BY DEF IndexOf, Unreadable, Kept

\* Removing by the ids of one file's rows leaves the vectors of all others.
LEMMA RemoveSearch ==
  ASSUME TypeOK, OneWorker, ReadyInv, SearchInv, NEW w \in Workers,
         NEW m \in task[w].batch, RemoveOldEmbeddings(w, m)
  PROVE  SearchInv'
<1> PICK e \in Events : e = task[w].event
  BY RemoveEffect DEF TypeOK
<1> DEFINE kept == Without(IndexOf(w), IdsOf(RowsOf(e, m.file)))
<1>1. /\ pc[w] = "pass2" /\ pc'[w] \in {"detect", "commit"} /\ task'[w].event = e
      /\ UNCHANGED <<eventRow, driveFile, faceRows>>
      /\ task'[w].todo = task[w].todo /\ task'[w].batch = task[w].batch \ {m}
      /\ task'[w].cur = m
      /\ pc'[w] = "commit" => task'[w].src = "error"
  BY RemoveEffect
<1>2. \/ UNCHANGED <<disk, torn>>
         /\ task'[w].loaded = task[w].loaded /\ task'[w].mem = task[w].mem
      \/ /\ ~Unreadable(w) /\ task'[w].loaded /\ task'[w].mem = kept
         /\ Save(e, kept) \/ SaveRaises(e)
  BY RemoveEffect
<1> HIDE DEF kept
<1>3. TaskKeeps(w) /\ RowIdsUnique /\ TaskPlans(w)
  BY <1>1 DEF SearchInv, ReadyInv
<1>4. m.file \in Pending(w) /\ Pending(w) \subseteq (Pending(w))' /\ m.file \in (Pending(w))'
  BY <1>1 DEF Pending, FilesOf, FileInHand
<1>5. \A d \in Events : d # e => disk'[d] = disk[d] /\ (d \in torn' <=> d \in torn)
  BY <1>2, WriteEffect
<1>6. ASSUME NEW r \in faceRows[e],
             \/ driveFile[r.file].src = "full"
             \/ r.file \notin (Pending(w))' /\ driveFile[r.file].src # "error"
      PROVE  Kept(e, r)' /\ (task'[w].loaded => r \in task'[w].mem)
  <2>1. Kept(e, r) /\ (task[w].loaded => r \in task[w].mem)
    BY <1>1, <1>3, <1>4, <1>6 DEF TaskKeeps, InPass2
  <2>2. CASE UNCHANGED <<disk, torn>>
             /\ task'[w].loaded = task[w].loaded /\ task'[w].mem = task[w].mem
    BY <2>1, <2>2 DEF Kept
  <2>3. CASE /\ ~Unreadable(w) /\ task'[w].loaded /\ task'[w].mem = kept
             /\ Save(e, kept) \/ SaveRaises(e)
    <3>1. r \in IndexOf(w)
      BY <2>1, <2>3, IndexHasKept
    <3>2. r.file # m.file
      <4> SUFFICES ASSUME r.file = m.file, driveFile[r.file].src = "full"
                   PROVE  FALSE
        BY <1>4, <1>6
      <4>1. RowsOf(e, m.file) # {}
        BY DEF RowsOf
      <4> QED BY <1>1, <1>3, <1>4, <4>1 DEF TaskPlans, InPass2
    <3>3. r.id \notin IdsOf(RowsOf(e, m.file))
      BY <1>3, <3>2 DEF IdsOf, RowsOf, RowIdsUnique
    <3>4. r \in kept
      BY <3>1, <3>3 DEF kept, Without
    <3>5. Kept(e, r)'
      BY <2>1, <2>3, <3>4, WriteEffect DEF Kept
    <3> QED BY <2>3, <3>4, <3>5
  <2> QED BY <1>2, <2>2, <2>3
<1>7. TaskKeeps(w)'
  BY <1>1, <1>6 DEF TaskKeeps, Kept
<1> QED BY <1>1, <1>3, <1>5, <1>7, SearchParts DEF RowIdsUnique

\* The new vectors join the index before their rows are committed, or the file is
\* flagged.
LEMMA DetectSearch ==
  ASSUME TypeOK, OneWorker, ReadyInv, SearchInv, NEW w \in Workers, DetectAndAdd(w)
  PROVE  SearchInv'
<1> PICK e \in Events : e = task[w].event
  BY DetectEffect
<1>1. /\ pc[w] = "detect" /\ pc'[w] = "commit" /\ task'[w].event = e
      /\ UNCHANGED <<eventRow, driveFile, faceRows>>
      /\ task'[w].todo = task[w].todo /\ task'[w].batch = task[w].batch
      /\ task'[w].cur = task[w].cur
  BY DetectEffect
<1>d. PICK d \in Detections(task[w].cur) :
        /\ task'[w].ins = NewFaces(task[w], d)
        /\ \/ /\ UNCHANGED <<disk, torn>>
              /\ task'[w].loaded = task[w].loaded /\ task'[w].mem = task[w].mem
              /\ d.count = 0 \/ task'[w].src = "error"
           \/ /\ ~Unreadable(w) /\ task'[w].loaded
              /\ task'[w].mem = IndexOf(w) \cup NewFaces(task[w], d)
              /\ \/ Save(e, IndexOf(w) \cup NewFaces(task[w], d))
                 \/ SaveRaises(e) /\ task'[w].src = "error"
  BY DetectEffect
<1> DEFINE new == NewFaces(task[w], d)
           grown == IndexOf(w) \cup new
<1>2. d.count = 0 => new = {}
  BY DEF NewFaces, TypeOK, Task
<1>3. \/ /\ UNCHANGED <<disk, torn>>
         /\ task'[w].loaded = task[w].loaded /\ task'[w].mem = task[w].mem
         /\ new = {} \/ task'[w].src = "error"
      \/ /\ ~Unreadable(w) /\ task'[w].loaded /\ task'[w].mem = grown
         /\ Save(e, grown) \/ (SaveRaises(e) /\ task'[w].src = "error")
  BY <1>2, <1>d
<1>4. task'[w].ins = new /\ new \subseteq grown /\ IndexOf(w) \subseteq grown
  BY <1>d
<1> HIDE DEF new, grown
<1>5. TaskKeeps(w) /\ RowIdsUnique
  BY <1>1 DEF SearchInv
<1>6. (Pending(w))' = Pending(w)
  BY <1>1 DEF Pending, FileInHand
<1>7. \A c \in Events : c # e => disk'[c] = disk[c] /\ (c \in torn' <=> c \in torn)
  BY <1>3, WriteEffect
<1>8. ASSUME NEW r \in faceRows[e],
             \/ driveFile[r.file].src = "full"
             \/ r.file \notin (Pending(w))' /\ driveFile[r.file].src # "error"
      PROVE  Kept(e, r)' /\ (task'[w].loaded => r \in task'[w].mem)
  <2>1. Kept(e, r) /\ (task[w].loaded => r \in task[w].mem)
    BY <1>1, <1>5, <1>6, <1>8 DEF TaskKeeps, InPass2
  <2>2. CASE UNCHANGED <<disk, torn>>
             /\ task'[w].loaded = task[w].loaded /\ task'[w].mem = task[w].mem
    BY <2>1, <2>2 DEF Kept
  <2>3. CASE /\ ~Unreadable(w) /\ task'[w].loaded /\ task'[w].mem = grown
             /\ Save(e, grown) \/ SaveRaises(e)
    <3>1. r \in grown
      BY <1>4, <2>1, <2>3, IndexHasKept
    <3> QED BY <2>1, <2>3, <3>1, WriteEffect DEF Kept
  <2> QED BY <1>3, <2>2, <2>3
<1>9. ASSUME task'[w].src # "error", NEW x \in new
      PROVE  Kept(e, x)' /\ (task'[w].loaded => x \in task'[w].mem)
  BY <1>3, <1>4, <1>9, WriteEffect DEF Kept
<1>10. TaskKeeps(w)'
  BY <1>1, <1>4, <1>8, <1>9 DEF TaskKeeps, Kept
<1> QED BY <1>1, <1>5, <1>7, <1>10, SearchParts DEF RowIdsUnique

\* A commit adds what is kept; it writes the columns of a file that is in no other
\* event's folder.
LEMMA CommitSearch ==
  ASSUME TypeOK, RefInv, OneWorker, Unshared, ReadyInv, SearchInv,
         NEW w \in Workers, CommitFile(w)
  PROVE  SearchInv'
<1> PICK e \in Events : e = task[w].event
  BY CommitEffect
<1> PICK f \in Files : f = task[w].cur.file
  BY CommitEffect
<1> DEFINE t == task[w]
<1>1. /\ pc[w] = "commit" /\ pc'[w] = "pass2" /\ EventExists(e) /\ ~IdsClash(w)
      /\ UNCHANGED <<disk, torn>> /\ StatusesStay
      /\ task'[w].event = e /\ task'[w].todo = t.todo /\ task'[w].batch = t.batch
      /\ task'[w].loaded = t.loaded /\ task'[w].mem = t.mem
      /\ faceRows'[e] = (faceRows[e] \ t.del) \cup t.ins
      /\ \A d \in Events : d # e => faceRows'[d] = faceRows[d]
      /\ driveFile'[f].src = t.src
      /\ \A g \in Files : g # f => driveFile'[g] = driveFile[g]
  BY CommitEffect
<1>2. TaskKeeps(w) /\ RowIdsUnique /\ TaskPlans(w) /\ TaskReplaces(w)
  BY <1>1 DEF SearchInv, ReadyInv
<1>3. /\ \/ t.del = RowsOf(e, f)
         \/ t.del = {} /\ t.ins = {} /\ t.src = "error"
      /\ \A x, y \in t.ins : x.id = y.id => x = y
  BY <1>1, <1>2 DEF TaskReplaces
<1>4. \A x \in t.ins : x.file = f
  BY <1>1 DEF RefInv, InsertsAreOfFile
<1>5. Pending(w) \subseteq (Pending(w))' \cup {f} /\ f \in Pending(w)
  BY <1>1 DEF Pending, FileInHand
<1>6. f \in Folder[e]
  BY <1>1, <1>2, <1>5 DEF TaskPlans, InPass2
<1>7. \A d \in Events : d # e => \A r \in faceRows[d] :
        driveFile'[r.file].src = driveFile[r.file].src
  BY <1>1, <1>6, OthersSources DEF ReadyInv
<1>8. \A r, s \in faceRows'[e] : r.id = s.id => r = s
  <2>1. \A r \in faceRows[e] \ t.del : r.id \notin IdsOf(t.ins)
    BY <1>1 DEF IdsClash
  <2>2. \A r \in faceRows[e] \ t.del, x \in t.ins : r.id # x.id
    BY <2>1 DEF IdsOf
  <2>3. \A r, s \in faceRows[e] : r.id = s.id => r = s
    BY <1>2 DEF RowIdsUnique
  <2> HIDE DEF t
  <2> QED BY <1>1, <1>3, <2>2, <2>3
<1>9. ASSUME NEW r \in faceRows'[e],
             \/ driveFile'[r.file].src = "full"
             \/ r.file \notin (Pending(w))' /\ driveFile'[r.file].src # "error"
      PROVE  Kept(e, r) /\ (t.loaded => r \in t.mem)
  <2>1. CASE r \in t.ins
    <3>1. t.src # "error"
      BY <1>1, <1>4, <1>9, <2>1
    <3> QED BY <1>1, <1>2, <2>1, <3>1 DEF TaskKeeps
  <2>2. CASE r \in faceRows[e] \ t.del
    <3>1. r.file \in Files
      BY <2>2 DEF TypeOK, Face
    <3>2. r.file # f
      BY <1>1, <1>3, <1>9, <2>2 DEF RowsOf
    <3>3. driveFile'[r.file] = driveFile[r.file]
      BY <1>1, <3>1, <3>2
    <3> QED BY <1>1, <1>2, <1>5, <1>9, <2>2, <3>2, <3>3 DEF TaskKeeps, InPass2
  <2> QED BY <1>1, <1>9, <2>1, <2>2
<1>10. TaskKeeps(w)'
  BY <1>1, <1>9 DEF TaskKeeps, Kept
<1> QED BY <1>1, <1>7, <1>8, <1>10, SearchParts DEF StatusesStay

\* A task that ends leaves the stores as they are, and READY only where nothing is
\* pending: what it is done with is all there is.
LEMMA EndSearch ==
  ASSUME TypeOK, OneWorker, CountInv, ReadyInv, SearchInv, NEW w \in Workers,
         pc[w] # "idle",
         ListingFails(w) \/ Finish(w) \/ Abandon(w) \/ CrashWorker(w)
  PROVE  SearchInv'
<1> USE DEF dbVars, indexVars
<1> PICK e \in Events : e = task[w].event
  BY DEF TypeOK
<1>1. EndTask(w) /\ UNCHANGED <<driveFile, faceRows, disk, torn>>
  BY DEF ListingFails, Finish, Abandon, CrashWorker
<1>2. pc'[w] = "idle"
  BY <1>1, EndEffect
<1>3. RowIdsUnique' /\ StickingIsKept'
  BY <1>1 DEF SearchInv, RowIdsUnique, StickingIsKept, Kept
<1>4. TaskKeeps(w) /\ TaskIsOpen(w)
  BY DEF CountInv, SearchInv
<1>5. \A d \in Events : d # e => eventRow'[d] = eventRow[d] /\ ~WorkedOn(d)
  BY DEF ListingFails, Finish, Abandon, CrashWorker, TypeOK, WorkedOn, OneWorker
<1>6. CASE Finish(w)
  <2>1. ASSUME NEW r \in faceRows[e], e \notin torn, driveFile[r.file].src # "error"
        PROVE  r \in disk[e]
    <3>1. pc[w] = "pass2" /\ task[w].batch = {} /\ task[w].todo = {}
      BY <1>6 DEF Finish
    <3>2. Pending(w) = {}
      BY <3>1 DEF Pending, FilesOf, FileInHand
    <3> QED BY <1>4, <2>1, <3>1, <3>2 DEF TaskKeeps, InPass2, Kept
  <2>2. SearchableUnlessFlagged'
    BY <1>1, <1>5, <2>1 DEF SearchInv, SearchableUnlessFlagged
  <2> QED BY <1>2, <1>3, <2>2 DEF SearchInv, OneWorker
<1>7. CASE ListingFails(w) \/ Abandon(w) \/ CrashWorker(w)
  <2>1. eventRow'[e].status # "ready"
    BY <1>4, <1>7 DEF ListingFails, Abandon, CrashWorker, TypeOK, EventRow, TaskIsOpen
  <2>2. SearchableUnlessFlagged'
    BY <1>1, <1>5, <2>1 DEF SearchInv, SearchableUnlessFlagged
  <2> QED BY <1>2, <1>3, <2>2 DEF SearchInv, OneWorker
<1> QED BY <1>6, <1>7

LEMMA SearchStep ==
  TypeOK /\ RefInv /\ OneWorker /\ Unshared /\ ReadyInv /\ SearchInv /\ [Next]_vars
    => SearchInv'
<1> SUFFICES ASSUME TypeOK, RefInv, OneWorker, Unshared, ReadyInv, SearchInv, [Next]_vars
             PROVE  SearchInv'
  OBVIOUS
<1> USE DEF dbVars, indexVars, apiVars
<1>0. CountInv
  BY DEF ReadyInv
<1>1. ASSUME NEW w \in Workers, WorkerStep(w)
      PROVE  SearchInv'
  <2>1. ListingFails(w) \/ Finish(w) \/ Abandon(w) => pc[w] # "idle"
    BY DEF ListingFails, Finish, Abandon, FlushFails
  <2> QED BY <1>0, <1>1, <2>1, StartSearch, ListSearch, PlanSearch, UpsertSearch,
             FetchSearch, RemoveSearch, DetectSearch, CommitSearch, EndSearch
          DEF WorkerStep
<1>2. ASSUME NEW e \in Events, ApiStep(e)
      PROVE  SearchInv'
  <2>1. CASE Reindex(e)
    BY <2>1, SearchStill DEF Reindex
  <2> QED BY <1>0, <1>2, <2>1, CreateSearch, DeleteSearch, RemoveFileSearch DEF ApiStep
<1>3. ASSUME NEW w \in Workers, CrashWorker(w)
      PROVE  SearchInv'
  BY <1>0, <1>3, EndSearch DEF CrashWorker
<1>4. CASE CrashApi
  BY <1>4, SearchStill DEF CrashApi
<1>5. ASSUME NEW f \in Files, ChangeContent(f)
      PROVE  SearchInv'
  BY <1>5, SearchStill DEF ChangeContent
<1>6. CASE Rest \/ UNCHANGED vars
  BY <1>6, SearchStill DEF Rest, vars
<1> QED BY <1>1, <1>2, <1>3, <1>4, <1>5, <1>6 DEF Next

\* With one worker process and folders that share no file, whatever is killed and
\* whatever write fails: a row that the skip rules take for done has its vector.
THEOREM SearchInvCorrect == OneWorker /\ Unshared => (Spec => []SearchInv)
<1> SUFFICES ASSUME OneWorker, Unshared
             PROVE  Spec => []SearchInv
  OBVIOUS
<1>1. Init => SearchInv
  BY SearchInit
<1>2. TypeOK /\ RefInv /\ ReadyInv /\ SearchInv /\ [Next]_vars => SearchInv'
  BY SearchStep
<1>3. Spec => []ReadyInv
  BY ReadyInvCorrect DEF FlagsSpeak
<1> QED BY <1>1, <1>2, <1>3, TypeCorrect, RefInvCorrect, PTL DEF Spec

\* When an event is READY and its index file can be read, the vector of every row of
\* an unflagged file is in it: a later task has mended what a crash or a failed save
\* left apart.
THEOREM SearchableAlways ==
  OneWorker /\ Unshared => (Spec => []SearchableUnlessFlagged)
<1>1. SearchInv => SearchableUnlessFlagged
  BY DEF SearchInv
<1> QED BY <1>1, SearchInvCorrect, PTL
=============================================================================
