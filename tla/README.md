# FaceFind: a verification development

FaceFind indexes the faces in an organizer's Google Drive folder and lets
attendees find their photos by scanning their face. This directory holds TLA+
modules that model its core, TLC configurations that check them on small
instances, and proofs for every instance that TLAPS checks. Paths are relative
to the repository's `backend/app/` unless they start with `frontend/`.

- [The system](#the-system): inventory, interactions, what is hard
- [Modules](#modules), [How the model reads the code](#how-the-model-reads-the-code)
- [Runs](#runs), [Fairness](#fairness), [What the violations show](#what-the-violations-show)
- [Proofs](#proofs), [Not modelled](#not-modelled), [Plan](#plan), [Commands](#commands)

## The system

| Part | State | Operations | Hard behaviour | Correct when |
|---|---|---|---|---|
| Indexing worker `workers/` | its session's objects, its copy of the index, the next id | one task per message: list, upsert, per file remove/detect/add/commit | two stores without a common transaction, kills, retries, other tasks | the stores agree; READY accounts for every file; every event gets an answer |
| Vector index manager `search/faiss_index.py` | a cache of indexes, a lock per event, one file per event | load, add, remove, search, delete | threads, eviction, half-written files | the file is what was last saved; no update is lost |
| Event API `events/`, `drive/router.py` | rows of `events` | create, reindex, delete, join, status | deletion while tasks run; broker down | no row refers to a deleted one |
| Database `db/` | events, drive_files, face_embeddings, probes, search results, users, audit log | transactions of the others | `drive_files` has one row per Drive file, shared by all events | foreign keys hold |
| Search and scan API `search/router.py` | index copies of the process, probes, results | scan, get results, search | stale index copies, expiry, status checked early | an attendee sees matches of the scan asked for, from the event asked for |
| Drive client `drive/client.py` | an access token | list, download, thumbnails | 401 and 429 retries | a request is repeated a bounded number of times |
| Media routes `drive/router.py` | none | url, thumb, media by token | tokens that outlive events | a token opens its file until it expires |
| Auth `auth/`, `dependencies.py` | OAuth states and revoked tokens in Redis | callback, refresh, logout, dev login | consumed-once states, revocation | a state is used once; logout ends a session |
| Rate limiter, audit log `security/` | a sorted set per key; a chain of rows | check; log | simultaneous calls | at most `limit` accepted per window; one chain |
| CV pipeline `cv_pipeline/` | models | process image, video, scan frames | control around numerical code | the best live frame is chosen |
| Frontend `frontend/src` | a store, a refresh flag | scan flow, poll, interceptor | several 401s at once | a refreshed session stays |

They interact as follows. The API and the workers are separate processes (in
development mode the API process also runs the task, without retries). The API
puts a message on the Celery broker for every creation and reindex. A worker
takes it, reads Drive, writes the database in many small transactions and
writes the event's index file on a volume that the API process shares. The API
process loads that file on the first search and keeps its copy. Deleting an
event first commits the deletion of its rows and then removes the file. Nothing
locks an event, and nothing spans the database and the index file.

The list of hazards in `PROJECT.json` gives each hard behaviour at its line,
with the properties about it, or why no property covers it.

## Modules

| Module | Models |
|---|---|
| `Indexing` | the task `_index_drive_folder`, the index manager as a task uses it, `create_event`, `reindex_event`, `delete_event`, and the three tables they share |
| `FaceAlbum` | abstract: what indexing promises to whoever searches, two stores per event that differ by one file at most |
| `Retrieval` | scans, stored results, links and the thumbnail cache of the API process (`search/router.py`, the media routes), over albums of `FaceAlbum` |
| `ScanPipeline` | operators: what `process_scan_frames` makes of an upload (usable faces, quality gate, liveness sum); used by `Retrieval` |
| `DriveClient` | the 401 and 429 protocol of `drive/client.py` for coroutines that share one token |
| `Session` | `auth/`, `get_current_user` and the axios interceptor of `frontend/src/api/client.ts` |
| `MCIndexing`, `MCRetrieval`, `MCDriveClient`, `MCSession` | values of the constants for TLC |
| `IndexingProofs` | theorems for any number of workers, kills and failed saves |
| `IndexingSerialProofs` | theorems for one worker and no kill or failed save; there `Indexing` implements `FaceAlbum` |
| `IndexingReadyProofs` | theorems for one worker, with kills and failed saves: what READY means |
| `FaceAlbumProofs`, `DriveClientProofs`, `SessionProofs`, `ScanPipelineProofs` | theorems of these modules |
| `RetrievalProofs` | theorems of `Retrieval`, from those of `FaceAlbum` and `ScanPipeline` |

`Indexing` and `Retrieval` meet in `FaceAlbum`: `Indexing` implements it
(`ImplementsAlbum`, with `LifeOf` and `HandOf` as refinement mapping), and
`Retrieval` takes its steps, one for every step of an album, interleaved with
those of the requests. `Retrieval` uses `ScanPipeline` for what a scan comes to.
`DriveClient` is what a fetch and a listing of `Indexing` may go through: there,
the outcome is a success or a failure.

### Indexing

| Variable | Code |
|---|---|
| `eventRow` | `events.status`, `files_total`, `files_indexed`; `none` before creation, `deleted` after |
| `driveFile` | `drive_files`, one row per file id: owner event, checksum, `embedding_count`, and `src` for `quality_flags` with `indexed_at` |
| `faceRows` | `face_embeddings` by `event_id`; a record is faiss_id, file and the version of the content it was found in |
| `disk`, `torn` | what loading the event's index file gives; events whose file is half written |
| `deleting` | events between the commit of `delete_event` and its `delete_index` |
| `queue` | messages on the broker by event and retry count |
| `drive` | the current content (version) of each Drive file |
| `pc`, `task` | where each worker process is, and everything that its session, its manager and its local variables hold |
| `requests`, `crashes`, `saveFailures` | use of the bounds |

A task goes `list` (`ListFiles`, `ListingFails`), `plan` (`PlanFiles`), `upsert`
(`UpsertFiles`), then in `pass2` alternates `FetchBatch` and, for each file of
the batch, `RemoveOldEmbeddings`, `DetectAndAdd`, `CommitFile`; `Finish` writes
READY. `Abandon` is the outer `except` after a failed flush, `CrashWorker` a
kill.

### FaceAlbum

`life` is the status of an event with pending, indexing and error as one (`open`),
`owner` the `event_id` of a file's row, `rows` and `index` the two stores,
`hand` the file between `RemoveOldEmbeddings` and its commit. A task is `Open`
(out of READY), `Adopt` (pass 1), `Take`, `Put`, `Settle` for each file, `Close`;
a deletion is `Delete`, and after it the index file is nobody's (`Scraps`).

### Retrieval

| Variable | Code |
|---|---|
| `life`, `owner`, `rows`, `index`, `hand` | the albums |
| `working`, `todo`, `reindexes` | the task of the one worker |
| `cache`, `copy` | the API process's `FAISSIndexManager`: its indexes, oldest use first, and their vectors |
| `current` | history: the copy is that of the last save |
| `probes`, `results` | `user_probe_embeddings`, `search_results` |
| `req` | each request between two awaits |
| `links` | the media and thumbnail tokens each user holds: when the last one for a file expires |
| `thumbs` | the disk cache of thumbnails |
| `found` | history: when a stored result of the user last had the file |
| `now` | the clock |

`scan_faces` is `BeginScan` (status check), `VerifyScan` (upload, pipeline, commit
of the probe), `ReadProbe` (`db.refresh`, as the database answers it), `SearchIndex`
(index loaded and searched, when the answer is there), `LookUp` (ids to rows),
`StoreResult` (commit and answer). `ReadResult` and
`RespondCached` are `get_search_results` and `search_matches`, `GetFileUrl` and
`OpenThumb` the media routes.

### DriveClient

`fetch[c]` is where a coroutine is: the operations it may still try (`plan`), the
stage of the one in hand, and the locals of `_request_with_retry` (`attempt`,
`refreshed`), of `list_files` (`page`) and of `download_file` (`delay`).
`access_token` is the client's, as Google sees it. A step ends where the code
awaits: `Request` (sent with the token of that moment, and answered),
`HandleRetried`, `HandleStream`, `HandleThumbnail` (what the code does with the
answer), `Refresh` and `Assign`, apart, since other coroutines run between them.
A plan is the chain of fallbacks of `_fetch_media`.

### Session

| Variable | Code |
|---|---|
| `token` | every JWT issued |
| `blocklist`, `oauth` | `blocklist:<jti>` and `oauth_state:<state>` in Redis, with the second they end |
| `exchanging` | the states whose callback has consumed them and awaits Google or the database |
| `jar` | the cookie `access_token`, which the tabs share |
| `page`, `refreshing` | of a tab: on `/` or not, and the interceptor's flag |
| `request` | the requests of the pages; `retried` is `_retry` |
| `now` | the second |

`LoginGoogle`, `Callback` with `CallbackSignsIn` and `CallbackFails`, `DevLogin`,
`Logout`, `CheckRenewal` and `IssueRenewal` are the routes, the latter two
`/auth/refresh` before and after it awaits the user's row. `Serve` is any route behind
`get_current_user`: "served" is the moment of its check (`dependencies.py:19-25`),
the user is read and the route runs after it. The others are the interceptor and the
page.

## How the model reads the code

- **Steps.** An action is what one process does between two points where others
  can see or change something: a commit, an index save, a Drive call. Pass 1 is a
  read step and a commit step; SQLAlchemy's autoflush writes its rows one by one
  in the transaction that the commit step ends.
- **Sessions.** `expire_on_commit` is off and a session's objects are never
  reloaded, so `counted` is the session's `event.files_indexed`, and commits write
  the session's values (`counted`, `count`, `src`). SQLAlchemy leaves out a column
  whose value the session has not changed, the model writes it back: they differ
  only when another session changed that column in between.
- **Identity.** `existing` and `drive_file` are one object. That is `Refreshed`:
  the checksum compared in `ShouldSkip` is the one just assigned.
- **`src`.** `full` is every source that starts with `full_download`;
  `thumbnail`, `error`, `skipped` are the other flags; `none` is NULL flags, which
  is also the one case of a NULL `indexed_at`. One detector version is assumed.
- **Faces.** The pipeline is `Faces[f][v]` and `ThumbFaces[f][v]`: how many faces
  it finds in a version of a file, at full size and in the thumbnail; or it raises.
  A vector and its row are the same record, so an index is a set; two identical
  vectors count once.
- **Failures.** `list_files` may raise, a fetch may fail, the pipeline may raise, an
  index save may fail before or after truncating the file, the broker may be down
  when an event is created. Database outages are not modelled: a flush fails only
  because a row it updates is gone or a constraint is broken.
- **Database.** PostgreSQL at READ COMMITTED with foreign keys and the unique
  `faiss_id` enforced (`RowsLocked`: a deletion waits for uncommitted deletions of
  the same rows).
- **Order.** The files of a batch and the batches are taken in any order; the
  code takes them in Drive's order, which it does not choose.
- **Creation.** `create_event`'s commit and its `delay` are one step; a kill of
  the API between them is left out.
- **Saves.** A save is atomic for a reader unless it fails; two processes that
  write one file at the same instant are left out, a task's read-modify-write of
  the whole file is not.
- **Bounds.** `MaxRequests` (creations and reindexes), `MaxVersion` (edits of a
  file), `MaxCrashes`, `MaxSaveFailures` limit what the environment does. The
  code's own limits are `MaxRetries` (3 in the code) and `BatchSize` (8).

- **Drive.** Folders keep their files; the content of a file may be replaced.

For the other modules:

- **Album steps.** `Retrieval` has one worker, so no task of another event runs
  between two steps of a task, as `FaceAlbum` requires (`HandsFree`).
- **One API process.** The image starts uvicorn without `--workers`. A handler runs
  alone between two awaits; the calls of Redis, of the JWT library and of FAISS
  do not await. So reading and deleting an OAuth state is one step (`Consumed`).
- **Clocks.** In `Retrieval` a tick is many minutes and no request is in progress
  when it comes. In `Session` a tick is a second and comes at any time:
  `python-jose` accepts a token in the second of its `exp`, `int()` drops a
  fraction from the life of a blocklist entry, both are in the model.
- **Faces.** In `Retrieval` a face is who it is; scores are above the threshold
  exactly for faces of the person, and which `TopK` of them come first is open. An
  upload has one person in its usable faces, and the detector reports finitely many
  faces (`CapturesAssumption`).
- **Lives of results.** A stored result lives at least a tick (`ResultTTL`, 30 minutes
  in the code; 24 hours are the probe's, `ProbeTTL`).
- **Times of rows.** `created_at` of a result is the start of its transaction, which
  begins before the search; `at` keeps the order of these starts.
- **Links.** Of the links a user holds to a file only the last to expire is kept.
- **Liveness.** In `ScanPipeline` the level of a frame is a number of steps of 1 /
  `Scale` of a grey level, for any `Scale`: the mean difference of two frames is a
  fraction whose denominator is their number of bytes, and every sequence of
  differences is that of some levels. The weighted sum is compared in multiples of the
  step, without rounding. The instance has half levels. The other detector and quality
  rules are the thresholds of the code.
- **Google.** It answers 401 exactly if the token has expired or there is neither
  token nor key, it may answer 429 or fail at any time. A 500 stands for every
  other error and for a timeout. A token expires at any time, in the client or in
  the hands of the coroutine that has just obtained it.
- **Bounds** of these: `MaxReindexes`, `MaxId`, `MaxTime`, the set `Requests`;
  `MaxExpiries`; `MaxTime`, `MaxTokens`, `States`.

The operators named `...Bug` are faulty variants used to see each property fail.

## Runs

In the indexing runs two events share the file `f2`; thumbnails miss the one face
of `f1` and one of the two of `f2`; `f3` is a text file.

| Run | Instance | Properties | Shows |
|---|---|---|---|
| `indexing_serial` | 1 worker, 2 events, 2 contents per file, 3 requests | `TypeOK`, `SerialInv`, `StoresAgree`, `NoCrossWiring`, `ReadyIsComplete`, `ReadyInv`, `ReadyAccountsForEveryFile`, `TasksEnd`, `ImplementsAlbum` | without kills, one task at a time keeps the stores in step although deletions and requests come at any time, and implements the album |
| `indexing_crash` | 1 worker, 1 event, 3 files, thumbnails, 1 retry, 1 kill, 1 failed save, 3 requests | `SearchableUnlessFlagged`, `SearchInv`, `ReadyIsComplete`, `ReadyInv`, `ReadyAccountsForEveryFile` | what a task that ends in READY has mended after a kill or a failed save |
| `indexing_concurrent` | 2 workers, 2 events, 3 requests | `ReferencesHold`, `OthersKeepTheirFaces` | deletions and tasks in any interleaving, also two tasks of one event |
| `retrieval` | 2 events that share `f2`, 2 users, 2 people, 2 requests, a cache of 1 index, `TopK` 2, 1 reindex, 1 tick, 9 uploads | `TypeOK`, `AccessIsScoped`, `DeletedEventsAreSilent`, `ProbesAreLive`, `LeftoversFindNothing`, `FreshScansAreExact`, `NoLinkAfterDeletion` | two requests in any interleaving with indexing and deletion: what a scan answers, who may open what for how long, what a deletion leaves |
| `drive_client` | 2 coroutines, 2 attempts, 1 delay, 2 pages, 2 expired tokens | `TypeOK`, `RequestsBounded`, `TwoChances`, `FetchesEnd` | coroutines that refresh one token concurrently all end, within a number of requests, and none gives up on a 401 too early |
| `session` | 1 tab, 2 requests, 1 OAuth state, 2 tokens of 3 seconds, 5 seconds | `TypeOK`, `OneRenewalPerTab`, `RenewedOnceAtMost`, `SessionsUnbroken`, `OneSignInPerState`, `OnlyLiveSessionsServe` | one renewal at a time, of a token that lived when it was checked; no service for a dead session |

The bounds are enough for the cases at stake. Indexing: 3 requests create both
events and reindex one, or index one event three times (first, after a failure,
after a change); 2 files with a batch of 2 make a batch in which one file fails and
another does not, and `f2` gives two ids at once; one kill at every step followed
by two more tasks shows whether later tasks mend its effects; 2 events suffice for
a property of an event and "another". The concurrent run has no thumbnails and
one content per file to stay small, and uses the symmetry of the workers (it
checks no liveness).

Retrieval: with a cache of one index the second event evicts the first; one
reindex lets a file that the first task skipped be indexed between two scans; two requests are
two scans that overlap, or a scan and a later use of its result; the lifetimes are
chosen so that one tick ends a media link and leaves a thumbnail link and the
probe. The uploads are one that passes only because of the rule for neighbours,
and one for each way to be refused, some just at a limit (a difference of 5
levels, a sharpness of 40, a confidence of 79). Requests and users are symmetric.

Drive: 2 attempts reach both "refused twice" and "refused after a 429", 2 pages a
listing that goes on, 2 expired tokens a second restart of a download and a token
that expires in the hands of one coroutine while another assigns. Session: with 2
tokens a session is renewed once, or replaced by another sign-in; 5 seconds let a
token of 3 be issued, renewed in its last second and die. Tabs share nothing but
the cookie, which the requests of one tab share too. What larger instances
could add, the proofs cover for the properties they state.

What the properties say:

- `StoresAgree` is the check `FAISS_GAP_CHECK` of `scripts/diagnose_recall.py`,
  strengthened from equal numbers to equal contents.
- `NoCrossWiring`: `search/router.py` maps the id of a matching vector to a row;
  the two must be of the same face at every moment, since searches run during
  a reindex.
- `ReadyIsComplete`: READY is never seen beside a progress of less than 100 %.
- `ReadyAccountsForEveryFile`: skipped, failed, zero-face and shared files
  included, a task that writes READY leaves each file flagged or with exactly
  the rows of one version.
- `SearchableUnlessFlagged`: rows that claim to be fine can be found.
- `SerialInv`, `ReadyInv`, `SearchInv`: the inductive invariants of the proofs; each
  contains the properties that it is for.
- `OthersKeepTheirFaces` and `ReferencesHold`: events that share files do not
  disturb each other's faces, and deletion leaves nothing behind in the database.
- `TasksEnd`, `IndexingEnds`: tasks end, and the organizer's page stops polling. The
  second is false of the code, with a kill (nothing takes up what a dead worker has
  acknowledged) and without one (`violation_stuck`).
- `ImplementsAlbum`: every step of indexing is a step of `FaceAlbum` or none; so
  what a search may rely on is there in nine small actions.
- `FreshScansAreExact`: answered from a copy loaded since the last save, a scan
  finds exactly the photos that show the person. Its conditions are the limits
  of the code: the copy may be old (`violation_stale`), a task may be at work,
  and more than `top_k` matches are cut.
- `AccessIsScoped`, `NoLinkAfterDeletion`, `DeletedEventsAreSilent`: requests that
  straddle a deletion leave no row behind, and no link but to files another event
  has; a link ends in time.
- `LeftoversFindNothing`: a scan that had its probe read back just before a deletion
  does load and search what is left of the index, and the API then holds that copy;
  but it finds nothing, even when other events have been given the ids.
- `ProbesAreLive`: the weighted sum of the liveness check comes to a simple rule.
  Without the anti-spoofing model, two neighbouring frames must differ by more than
  5 levels: the most that the other signals come to without that blink stays just
  below the threshold of 0.65 (about 0.637). So the blink decides, against the comment
  that it "is now optional, not mandatory" (`cv_pipeline/liveness.py:46`). With the
  model, a difference of one level is enough, and one of 245/253 of a level needed.
- `RequestsBounded`: `download_file` restarts itself after a 401 without a limit
  (`drive/client.py:150-152`), but every restart uses up an expired token.
- `TwoChances`: `_request_with_retry` spends a refresh on its last attempt and
  returns the 401; that only happens after 429s on all the others.
- `OneRenewalPerTab`, `RenewedOnceAtMost`: the flag of the interceptor neither
  sticks nor lets two renewals run, although it is cleared while the repeated
  request is still under way.
- `SessionsUnbroken`: a renewal is of a token that lived when it was decoded, and
  keeps its role. The new token may be issued after the old one has died, or has been
  logged out: `/auth/refresh` awaits the user's row in between. `OneSignInPerState`: a state signs in once.
- `OnlyLiveSessionsServe`: neither an expired nor a logged-out token is served,
  but for one second: the entry of the blocklist may end in the second before the
  token's `exp`, and the token is accepted through that of its `exp`.

## Fairness

`FairSpec` has weak fairness of each worker's step and of the removal of the index
file. A live Celery process goes on with its task and takes a message that
waits; every request to Drive has a timeout, so it answers or raises; the API
finishes the request it handles. Nothing is assumed of requests, deletions,
edits, kills or failures, nor that a fetch ever succeeds.

In `DriveClient` it has weak fairness of each coroutine: the event loop runs every
coroutine that can go on, sleeps end and each request has a timeout. `FetchesEnd`
then holds because tokens expire finitely often in a behaviour (`MaxExpiries`):
Drive does not go on refusing tokens that it has just issued. This is the loop
that `TasksEnd` takes for granted when it makes a fetch one step.

`Retrieval` and `Session` have no liveness property: a request ends when its
database call does, and the user need not come back.

## What the violations show

Each of these runs checks one property that the repository's own text suggests,
and TLC finds a behaviour of the code against it.

| Run | Behaviour |
|---|---|
| `violation_thumbnails` | e1 indexes `f2` from its thumbnail (1 of 2 faces). e2 lists the same file and the full-size fetch marks the shared row full quality. Reindexing e1 now skips the file, against the comment at `workers/indexing_task.py:148`. |
| `violation_stuck` | A task has planned its upserts; the other event is deleted, with the `drive_files` row they share. The flush fails, the handler's own commit at line 333 fails too, and the event stays INDEXING. |
| `violation_checksum` | A file's content changes, the reindex writes the new checksum and then compares it with itself (lines 109 and 158): the file is skipped. |
| `violation_crosswired` | A worker dies after the index save and before the commit. The next task starts from the largest id of the rows, and gives the ids of the orphaned vectors to other faces. |
| `violation_stale` | The first task of an event leaves a file out (its fetch fails) and the event is READY. A scan loads that index, and the API keeps the copy. A reindex indexes the file, and the event is READY again. A second scan searches the old copy, which lacks the vectors of that file, and misses its photo, against `frontend/src/pages/Scan.tsx:70`. |
| `violation_logout` | A user logs out; the cookie is not deleted, since `logout` returns another response than the one it deletes it on. `/auth/refresh` does not look at the blocklist and issues a new token for it, against the docstring of `logout`. |

One more disagreement shows in a run that passes: `ProbesAreLive` holds in
`retrieval`, and `SignalsMeanMovement` for every upload, although the comment at
`cv_pipeline/liveness.py:46` calls the blink optional. Without the anti-spoofing model
a scan passes exactly if the blink is detected.

Observations that are no properties: the interceptor's renewal can help a request whose
token was revoked or just ran out, but revives no session whose token has expired when
the renewal is checked; the frontend has no call of `/auth/logout`.

## Proofs

All proofs are for every value of the constants that meets the named assumptions of
the module (for `Indexing`: finite `Files`, types of the constants, bounds in `Nat`).

**Any number of workers, kills and failed saves** (`IndexingProofs`):

- `TypeCorrect`: `Spec => []TypeOK`.
- `ReferencesAlwaysHold`: `Spec => []ReferencesHold`. The property is not
  inductive: a task carries rows to delete and to add from `DetectAndAdd` to
  `CommitFile`, and deletions come in between. `RefInv` adds that the rows a task carries are of its
  file in hand, that every file row is owned by an event, and that rows go before the
  index file. The commit then
  preserves the references because it is refused when the event or the file's row is
  gone, and a deletion because of the foreign keys.
- `OthersAlwaysKeepTheirFaces`: by a case for each action, from typing.

**One worker, no kills, no failed saves** (`IndexingSerialProofs`, assumption
`Serial`; any events, files, requests, deletions, edits, fetch and pipeline
failures, and retries):

- `SerialCorrect`: `[]SerialInv`, the inductive invariant. It says at every
  point of a task how the index file relates to the rows: equal until a file is taken
  in hand, without the file's old faces after `RemoveOldEmbeddings`, with its new ones
  after `DetectAndAdd`; that the copy in memory is the file; that the ids given out are
  above all rows'; and that the `drive_files` rows the task will update are its event's.
  The last part is what makes the argument close: a commit can then fail only because
  the event itself was deleted, so no failed commit ever leaves the stores apart.
- `StoresAgreeSerially` and `NeverCrossWired` follow from it.

`violation_crosswired` shows that the assumption of no kills is needed, and the
concurrent model has behaviours against `StoresAgree`, so the serial assumption is
not an accident of the proof.

Under the same assumption `Indexing` implements `FaceAlbum`
(`ImplementsAlbumSerially`): one lemma per action shows that it is one step of the
album or leaves it as it is. `SerialInv` supplies most of it, for `Close` above all
that the rows and the file agree; what had to be added is that the event of a
running task is INDEXING while it exists (`EventIsOpen`). `AlbumGuaranteesSerially` then
carries over the theorems of `FaceAlbumProofs` through the refinement mapping.

**One worker, with kills and failed saves** (`IndexingReadyProofs`, assumption
`OneWorker`):

- `CountsAreKept` and `ReadyMeansComplete`: the files a task has counted and those
  pending (to fetch, fetched, in hand) add up to its folder at every step. The sum is
  of cardinalities of sets that the actions move files between.
- `ReadyInvCorrect` and `ReadyAccountsForAll`, if `FlagsSpeak`: no image is embedded
  from its thumbnail, or no two events share a file. `ReadyInv` says what a task has
  planned for each file and why, that the open transaction replaces all rows of a file
  by those of one version or does not touch them, that a count of 0 was found by
  detection, and that the rows of an unflagged file are whole. `violation_thumbnails`
  shows that `FlagsSpeak` is needed: the flag is of a file, the rows are of an event.
- `SearchInvCorrect` and `SearchableAlways`, if `Unshared`: no two events share a file.
  A kill or a failed save leaves vectors missing, and the code does not undo it; what
  saves the property is that a task only takes a file in hand if its rows are not
  marked `full`, so that the next task takes it again (`StickingIsKept`), and that
  removal by ids takes no vector of another row (`RowIdsUnique`). The assumption is
  needed too: with a shared file a failed save flags the row `error` while one event's
  vectors are missing, the other event then indexes the file and sets it to `full`, and
  the first has unflagged rows without vectors.

**Search and media routes** (`RetrievalProofs`; any events, folders, users, requests,
cache sizes and lifetimes):

- `TypeCorrect`: with the type goes that a request between two steps is of a user and
  of an event (`Named`), without which the type is not inductive.
- `DeletedStaySilent`: a request checks its event long before it writes; the foreign
  key refuses the row.
- `NoLinksAfterDeletion`: from the fact that a file row is only ever of an event that
  exists (`OwnersLive`).
- `AccessStaysScoped`: `ScopedInv` follows a deadline from the stored result
  (`ResultsTell`) over the request that has read it (`RequestsTell`) to the link.
- `SearchesAlbums`: the albums of `Retrieval` behave as `FaceAlbum`, so the inductive
  invariant of `FaceAlbumProofs` holds there. `FreshScansExact` rests on it: a calm
  request is of an album that is ready (`CalmIsReady`), whose stores therefore agree, so
  that the best matches of a current copy are rows, and each id leads to its own face.
- `LeftoversStaySilent` rests on it too: a deleted album has no rows (`RowsAreOwned`), so
  the ids found in what is left of its index lead nowhere.
- `ProbesStayLive`: every probe is of a passing scan, and of these
  `ScanPipelineProofs` shows, for any number of frames and faces and levels in steps of
  any size: `SignalsMeanMovement`, the weighted sum passes without the model exactly if
  the blink is detected, and with it only if two neighbouring frames differ by 245/253
  of a level and whenever two differ by a whole one. It needs a bound on the sum of the differences
  (`SumBound`) and that a finite set has a largest element. Neither can cite an
  induction theorem, which takes an operator as a parameter; they go by a least
  counterexample instead (`LeastNumber`, from the well-foundedness of `<`), which also
  shows that the recursive functions in `Decoded` and in the library's fold
  exist (`KeptExists`, `SumExists`).

**Drive client** (`DriveClientProofs`): `TypeCorrect`, `TwoChancesAlways` and
`RequestsAreBounded`, for any number of coroutines, plans, attempts, delays, pages
and expired tokens. The invariant of a coroutine (`Good`) ties `attempt` to the
refusals and waits so far, from which `TwoChances` follows. The quota needs an
argument across coroutines: let `k` be the passes of a download that a 401 of the
stream has cut short. Each such 401 was answered to an expired token, but that
token may be overwritten by another coroutine, and an expired one may be assigned
later. What never grows faster than `expiries` is `k`, plus the expired tokens in
hands (`Hands`), plus one if the field is expired or a refused pass of this
coroutine is about to restart (`Owed`). With `Spent`, what a pass has sent so far by
stage, it gives the quota.

**Sessions** (`SessionProofs`): `TypeCorrect`, `RenewedOnce`, `OneRenewal`,
`Unbroken`, `OneSignIn`, `OnlyLive`, for any number of tabs, requests, states and
tokens. The invariant adds to the properties that a renewal counted is one marked
`_retry` (`RetriesCounted`), which request has the flag of a tab set (`FlagTells`),
that a state which has signed in is gone (`StatesSpent`) and was consumed by the one
callback that has it (`ExchangesKnown`), that a renewal between its check and its token
was checked in the life of the old token (`ChecksKnown`), and that an entry of the
blocklist lasts to the second before its token's `exp` (`Outlives`).

**Album** (`FaceAlbumProofs`, if `None` is neither a file nor an event):
`OneFileApart`, `IdsAreFaithful`, `RowsStayOwned`. This is what `Indexing`
promises to `Retrieval` through `ImplementsAlbum`.

Only model-checked: liveness (`TasksEnd`, `FetchesEnd`), which
with ENABLED is out of the prover's reach. Every invariant and action property of the
passing runs is stated by a theorem; `ReadyIsComplete`, `ReadyAccountsForEveryFile`
and `SearchableUnlessFlagged` only under the assumptions above, which the runs that
check them meet. With several workers `ReferencesHold` and `OthersKeepTheirFaces` are
proved; `StoresAgree`, `NoCrossWiring`, `ReadyIsComplete`, `ReadyAccountsForEveryFile`
and `SearchableUnlessFlagged` are then false: on the instance of `indexing_concurrent`
TLC finds a behaviour against each. No module declares a RECURSIVE operator.

## Not modelled

- Progress messages (`_publish_progress`): published, read by nothing in the repository.
- `incremental_reindex` and the Drive webhook: stubs without effect on state.
- Encryption, detection, alignment, embedding: numerical code, abstracted to
  a number of faces or to the people in them.
- Buckets of results by score: every match above the threshold is in one of them.
- The locks of `FAISSIndexManager`: no manager of the application is used by two
  threads; each task and each deletion makes one of its own, routes run in
  the event loop.
- The rate limiter and the audit log: no route of the application calls them. The
  chain of the log can fork under concurrent writers, the limiter counts two
  requests of one microsecond once.
- The table of users and the stored Drive refresh token: a sign-in finds or inserts
  the user, the failure of the insert is `CallbackFails`.
- The allocation of event codes: a collision is refused by the unique constraint.
- Joining an event and its status routes: they only read.
- Pages and store of the frontend, scripts, configuration.

## Plan

1. An abstract album with kills: what `SearchInv` leaves of the agreement of the two
   stores, as a specification that `Indexing` implements with one worker and kills.
2. Several workers: the parts of `ReadyInv` that a task keeps if no other task is of its
   event, stated with that condition in the invariant, since the code does not
   enforce it (`reindex_event` does not look at the status).
3. The audit chain and the limiter, should a route come to call them: today none does, so
   they are listed as components that are not modelled and carry no hazard.

## Commands

```
tlc -workers 2 -config indexing_serial.cfg MCIndexing.tla
tlc -workers 2 -config retrieval.cfg MCRetrieval.tla
tlc -workers 2 -config drive_client.cfg MCDriveClient.tla
tlc -workers 2 -config session.cfg MCSession.tla
tlapm IndexingProofs.tla
tlapm IndexingSerialProofs.tla
tlapm IndexingReadyProofs.tla
tlapm FaceAlbumProofs.tla
tlapm DriveClientProofs.tla
tlapm SessionProofs.tla
tlapm ScanPipelineProofs.tla
tlapm RetrievalProofs.tla
```
