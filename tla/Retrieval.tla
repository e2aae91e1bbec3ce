----------------------------- MODULE Retrieval ------------------------------
(***************************************************************************)
(* Finding one's photos (backend/app/search/router.py, the media routes of *)
(* drive/router.py): the API process answers scans from the copy of an     *)
(* index it loaded at some time, looks the matches up in the database of   *)
(* now, stores what it found, and hands out links that expire.             *)
(*                                                                         *)
(* The albums it searches are those of FaceAlbum, changed by indexing      *)
(* tasks and deletions at any time.  A request is a sequence of steps, cut *)
(* where the code awaits the database; any number of requests are between  *)
(* two of their steps.  The person of a face is what its embedding tells.  *)
(***************************************************************************)
EXTENDS Integers, Sequences, FiniteSets, ScanPipeline

CONSTANTS
  Events, Files, None,
  Users, People,
  Folder,            \* Folder[e]: the files of e
  Photos,            \* Photos[f]: who may be found in f, as sequences of people
  Captures,          \* the uploads people make: sequences of camera frames
  HasModel,          \* the anti-spoofing model file is there
  Requests,          \* bound: the requests made, each used once
  CacheSize,         \* max_cached_indexes of the API's FAISSIndexManager
  TopK,              \* top_k of a search
  ResultTTL, ProbeTTL, UrlTTL, ThumbTTL,     \* lifetimes, in ticks of the clock
  MaxTime, MaxId, MaxReindexes               \* bounds

ASSUME CapturesAssumption ==
  \A c \in Captures : /\ IsUpload(c)
                      /\ ProbeOf(c, HasModel) \subseteq People
                      /\ Cardinality(ProbeOf(c, HasModel)) <= 1
ASSUME ModelAssumption == HasModel \in BOOLEAN
ASSUME NoneAssumption == None \notin Events /\ None \notin Files
ASSUME FolderAssumption == Folder \in [Events -> SUBSET Files]
ASSUME PhotosAssumption == \A f \in Files : Photos[f] \subseteq Seq(People)
ASSUME LimitsAssumption ==
  /\ CacheSize \in Nat \ {0} /\ TopK \in Nat \ {0}
  /\ ResultTTL \in Nat \ {0} /\ {ProbeTTL, UrlTTL, ThumbTTL} \subseteq Nat
  /\ {MaxTime, MaxId, MaxReindexes} \subseteq Nat

VARIABLES
  life, owner, rows, index, hand,      \* the albums
  working,      \* the event whose task the worker runs, or None
  todo,         \* the files that task has neither taken nor skipped
  reindexes,                           \* used of the bound
  cache,        \* the events whose index the API holds, oldest use first
  copy,         \* copy[e]: the vectors it holds
  current,      \* current[e]: no save of e's index since copy[e] was loaded
  probes,       \* user_probe_embeddings
  results,      \* search_results
  req,          \* the local state of each request
  links,        \* links[u][f]: when the last thumb and media link to f that
                \* u was given expire; an earlier link opens no longer
  thumbs,       \* files with a thumbnail in the disk cache
  found,        \* found[u][f]: when a stored result of u last had f
  now           \* the clock

albumVars == <<life, owner, rows, index, hand>>
apiVars == <<cache, copy, current>>
tableVars == <<probes, results>>
linkVars == <<links, thumbs, found>>
taskVars == <<working, todo, reindexes>>
vars == <<albumVars, taskVars, apiVars, tableVars, req, linkVars, now>>

Album == INSTANCE FaceAlbum

Face == [id : 1..MaxId, file : Files, who : People]
Never == -1 - ResultTTL - ThumbTTL - UrlTTL

Probe == [id : Requests, user : Users, event : Events, scan : Captures, exp : Nat]
Result == [at : Nat, user : Users, event : Events, files : SUBSET Files, exp : Nat]
Expiries == [thumb : Nat \cup {Never}, media : Nat \cup {Never}]

\* calm and fresh are history: no step of the album since the request began,
\* and a current copy searched.
Request ==
  [pc : {"new", "pipeline", "probed", "read", "matched", "found", "cached", "done"},
   user : Users \cup {None}, event : Events \cup {None}, who : SUBSET People,
   ids : SUBSET (1..MaxId), files : SUBSET Files, at : Nat, exp : Nat,
   calm : BOOLEAN, fresh : BOOLEAN]
NewRequest ==
  [pc |-> "new", user |-> None, event |-> None, who |-> {}, ids |-> {},
   files |-> {}, at |-> 0, exp |-> 0, calm |-> FALSE, fresh |-> FALSE]

Init ==
  /\ Album!Init
  /\ working = None /\ todo = {} /\ reindexes = 0
  /\ cache = <<>>
  /\ copy = [e \in Events |-> {}]
  /\ current = [e \in Events |-> FALSE]
  /\ probes = {} /\ results = {}
  /\ req = [q \in Requests |-> NewRequest]
  /\ links = [u \in Users |-> [f \in Files |-> [thumb |-> Never, media |-> Never]]]
  /\ thumbs = {}
  /\ found = [u \in Users |-> [f \in Files |-> Never]]
  /\ now = 0

-----------------------------------------------------------------------------
(* The albums change *)

\* Bookkeeping of history: a step of album e, with or without a save.
Disturb(e, saved) ==
  /\ req' = [q \in Requests |-> IF req[q].event = e THEN [req[q] EXCEPT !.calm = FALSE]
                                                    ELSE req[q]]
  /\ current' = IF saved THEN [current EXCEPT ![e] = FALSE] ELSE current
  /\ UNCHANGED <<cache, copy, linkVars, now>>

\* The ids after the largest of the table, as Indexing gives them out.
AllIds == UNION {{r.id : r \in rows[e]} : e \in Events}
LargestIds == {n \in {0} \cup AllIds : \A i \in AllIds : i <= n}
FacesIn(f, people, n) ==
  {[id |-> n + i, file |-> f, who |-> people[i]] : i \in DOMAIN people}

\* The worker runs one task at a time: pass 1 gives it the files to do, each of
\* which it may take or skip.
StartTask(e) == working = None /\ working' = e /\ todo' = Folder[e]
EndTask == working' = None /\ todo' = {}

IndexingStep(e) ==
  \/ /\ Album!Create(e)
     /\ Disturb(e, FALSE) /\ UNCHANGED taskVars
  \/ /\ Album!Open(e)
     /\ working = None
     /\ reindexes < MaxReindexes /\ reindexes' = reindexes + 1
     /\ Disturb(e, FALSE) /\ UNCHANGED <<working, todo>>
  \/ /\ Album!Adopt(e, Folder[e]) /\ StartTask(e)
     /\ Disturb(e, FALSE) /\ UNCHANGED reindexes
  \/ /\ working = e
     /\ \E f \in todo : Album!Take(e, f) /\ todo' = todo \ {f}
     /\ Disturb(e, index'[e] # index[e]) /\ UNCHANGED <<working, reindexes>>
  \/ /\ hand[e] # None
     /\ \E people \in Photos[hand[e]], n \in LargestIds :
          /\ n + Len(people) <= MaxId
          /\ Album!Put(e, FacesIn(hand[e], people, n))
     /\ Disturb(e, TRUE) /\ UNCHANGED taskVars
  \/ /\ Album!Settle(e)
     /\ Disturb(e, FALSE) /\ UNCHANGED taskVars
  \/ /\ working = e
     /\ Album!Close(e) /\ EndTask
     /\ Disturb(e, FALSE) /\ UNCHANGED reindexes

\* delete_event: the rows of every table in one transaction.  The API's copy of
\* the index stays; so may the index file, which a task still at work can save
\* again after delete_index.
OthersRow(row, e) == row.event # e
DeleteEvent(e) ==
  /\ Album!Delete(e)
  /\ probes' = {p \in probes : OthersRow(p, e)}
  /\ results' = {r \in results : OthersRow(r, e)}
  /\ IF working = e THEN EndTask ELSE UNCHANGED <<working, todo>>
  /\ Disturb(e, FALSE)
  /\ UNCHANGED reindexes

-----------------------------------------------------------------------------
(* A scan *)

Step(q, r) == req' = [req EXCEPT ![q] = r]
\* The response is sent, or an error is: the request is over.
EndRequest(q) == Step(q, [NewRequest EXCEPT !.pc = "done"])

\* The foreign keys of probes and results: an INSERT for an event that was
\* deleted fails.
UnreferencedBug(e) == TRUE
ReferenceHolds(e) == Album!Live(e)

\* scan_faces up to its first await: only a READY event can be searched.
BeginScan(q, u, e) ==
  /\ req[q].pc = "new"
  /\ life[e] = "ready"
  /\ Step(q, [NewRequest EXCEPT !.pc = "pipeline", !.user = u, !.event = e,
                                !.calm = TRUE])
  /\ UNCHANGED <<albumVars, taskVars, apiVars, tableVars, linkVars, now>>

\* The upload is read and goes through the pipeline; the probe of a scan that
\* passes is committed, unless the event was deleted meanwhile (foreign key).
ThreeToSeven(c) == Len(c) \in 3..7
PassingScans == {c \in Captures : ThreeToSeven(c) /\ ProbeOf(c, HasModel) # {}}
VerifyScan(q) ==
  /\ req[q].pc = "pipeline"
  /\ \/ /\ PassingScans # Captures \/ ~ReferenceHolds(req[q].event)
        /\ EndRequest(q)
        /\ UNCHANGED probes
     \/ /\ ReferenceHolds(req[q].event)
        /\ \E c \in PassingScans :
             /\ probes' = probes \cup
                  {[id |-> q, user |-> req[q].user, event |-> req[q].event,
                    scan |-> c, exp |-> now + ProbeTTL]}
             /\ Step(q, [req[q] EXCEPT !.pc = "probed", !.who = ProbeOf(c, HasModel)])
  /\ UNCHANGED <<albumVars, taskVars, apiVars, results, linkVars, now>>

\* get_or_create_index: the copy held, else the file; the least recently used
\* copies go when there are more than CacheSize.
Held(e) == \E i \in DOMAIN cache : cache[i] = e
LoadedIndex(e) == IF Held(e) THEN copy[e] ELSE index[e]
NoEvictionBug(order) == order
Newer(order) ==
  IF Len(order) <= CacheSize THEN order
  ELSE SubSeq(order, Len(order) - CacheSize + 1, Len(order))
WithoutItem(s, i) == SubSeq(s, 1, i - 1) \o SubSeq(s, i + 1, Len(s))
OthersHeld(e) ==
  IF Held(e) THEN WithoutItem(cache, CHOOSE i \in DOMAIN cache : cache[i] = e)
             ELSE cache
Used(e) == Newer(Append(OthersHeld(e), e))
LoadIndex(e) ==
  /\ cache' = Used(e)
  /\ copy' = [d \in Events |-> IF d = e THEN LoadedIndex(e)
                               ELSE IF \E i \in DOMAIN Used(e) : Used(e)[i] = d
                                 THEN copy[d] ELSE {}]
  /\ current' = [d \in Events |-> IF d = e THEN Held(e) => current[e]
                                  ELSE current[d] /\ copy'[d] = copy[d]]

\* index.search: the ids of the TopK best matches above the threshold.
NoThresholdBug(S, who) == {{x.id : x \in S}}
BestMatches(S, who) ==
  LET matching == {x \in S : x.who \in who}
  IN {{x.id : x \in best} :
        best \in {T \in SUBSET matching :
                    Cardinality(T) = Min({TopK, Cardinality(matching)})}}

\* db.refresh reads the probe back, which starts the transaction whose time stamps
\* the result; it raises if the event, and so the probe, has been deleted.
Stamps == {r.at : r \in results} \cup {req[p].at : p \in Requests}
NextStamps ==
  {n \in {1} \cup {i + 1 : i \in Stamps} : \A i \in Stamps : i < n}
ProbeThere(q) == \E p \in probes : p.id = q
ReadProbe(q) ==
  /\ req[q].pc = "probed"
  /\ \/ /\ ~ProbeThere(q)
        /\ EndRequest(q)
     \/ /\ ProbeThere(q)
        /\ \E n \in NextStamps : Step(q, [req[q] EXCEPT !.pc = "read", !.at = n])
  /\ UNCHANGED <<albumVars, taskVars, apiVars, tableVars, linkVars, now>>

\* The index is loaded and searched when the answer of the database is there: of an
\* event deleted since it was given, the copy or the file may still be.
SearchIndex(q) ==
  LET e == req[q].event IN
  /\ req[q].pc = "read"
  /\ LoadIndex(e)
  /\ \E ids \in BestMatches(LoadedIndex(e), req[q].who) :
       Step(q, [req[q] EXCEPT !.pc = "matched", !.ids = ids, !.fresh = current'[e]])
  /\ UNCHANGED <<albumVars, taskVars, tableVars, linkVars, now>>

\* The ids are looked up among the rows the event has now, the thumbnail links
\* of the response are signed.
AnyEventBug(e) == {r \in UNION {rows[d] : d \in Events} : owner[r.file] # None}
RowsFor(e) == {r \in rows[e] : owner[r.file] # None}
LookUp(q) ==
  LET e == req[q].event IN
  /\ req[q].pc = "matched"
  /\ Step(q, [req[q] EXCEPT
                !.pc = "found", !.ids = {}, !.exp = now + ThumbTTL,
                !.files = {r.file : r \in {s \in RowsFor(e) : s.id \in req[q].ids}}])
  /\ UNCHANGED <<albumVars, taskVars, apiVars, tableVars, linkVars, now>>

Renewed(expiries, exp) == [expiries EXCEPT !.thumb = Max({@, exp})]
ThumbLinks(u, F, exp) ==
  links' = [links EXCEPT ![u] =
              [f \in Files |-> IF f \in F THEN Renewed(@[f], exp) ELSE @[f]]]

\* The result is committed, unless the event was deleted meanwhile, and only
\* then does the response with its links leave.
StoreResult(q) ==
  LET r == req[q] IN
  /\ r.pc = "found"
  /\ \/ /\ ~ReferenceHolds(r.event)
        /\ UNCHANGED <<results, links, found>>
     \/ /\ ReferenceHolds(r.event)
        /\ results' = results \cup {[at |-> r.at, user |-> r.user, event |-> r.event,
                                     files |-> r.files, exp |-> now + ResultTTL]}
        /\ ThumbLinks(r.user, r.files, r.exp)
        /\ found' = [found EXCEPT ![r.user] =
                       [f \in Files |-> IF f \in r.files THEN now ELSE @[f]]]
  /\ EndRequest(q)
  /\ UNCHANGED <<albumVars, taskVars, apiVars, probes, thumbs, now>>

-----------------------------------------------------------------------------
(* What was found is asked for again *)

Unexpired(row) == row.exp > now
ResultsOf(u, e) == {r \in results : r.user = u /\ r.event = e /\ Unexpired(r)}
Newest(S) == {r \in S : \A s \in S : s.at <= r.at}

\* get_search_results and search_matches: the probe names the event, and the
\* newest result of the user there is read.
ReadResult(q, u) ==
  /\ req[q].pc = "new"
  /\ \E p \in probes :
       /\ p.user = u /\ Unexpired(p)
       /\ LET newest == Newest(ResultsOf(u, p.event)) IN
          \/ /\ \A r \in newest : r.files = {}
             /\ EndRequest(q)
          \/ \E r \in newest :
               /\ r.files # {}
               /\ Step(q, [NewRequest EXCEPT !.pc = "cached", !.user = u,
                             !.event = p.event, !.files = r.files])
  /\ UNCHANGED <<albumVars, taskVars, apiVars, tableVars, linkVars, now>>

\* Its files are looked up, whichever event has them now, and links are signed.
RespondCached(q) ==
  LET r == req[q] IN
  /\ r.pc = "cached"
  /\ ThumbLinks(r.user, {f \in r.files : owner[f] # None}, now + ThumbTTL)
  /\ EndRequest(q)
  /\ UNCHANGED <<albumVars, taskVars, apiVars, tableVars, thumbs, found, now>>

\* get_file_url: any unexpired result of the user, of any event.
AnyonesBug(u, f) == \E r \in results : Unexpired(r) /\ f \in r.files
Allowed(u, f) == \E r \in results : r.user = u /\ Unexpired(r) /\ f \in r.files
GetFileUrl(q, u, f) ==
  /\ req[q].pc = "new"
  /\ Allowed(u, f)
  /\ links' = [links EXCEPT ![u][f].media = now + UrlTTL]
  /\ EndRequest(q)
  /\ UNCHANGED <<albumVars, taskVars, apiVars, tableVars, thumbs, found, now>>

\* get_file_thumbnail, the first time for a file: nothing removes it again.
TokenValid(exp) == exp >= now
OpenThumb(q, u, f) ==
  /\ req[q].pc = "new"
  /\ TokenValid(links[u][f].thumb)
  /\ f \notin thumbs
  /\ owner[f] # None
  /\ thumbs' = thumbs \cup {f}
  /\ EndRequest(q)
  /\ UNCHANGED <<albumVars, taskVars, apiVars, tableVars, links, found, now>>

\* A request is short against a tick of many minutes: none is in progress.
Tick ==
  /\ now < MaxTime
  /\ \A q \in Requests : req[q].pc \in {"new", "done"}
  /\ now' = now + 1
  /\ UNCHANGED <<albumVars, taskVars, apiVars, tableVars, req, linkVars>>

Next ==
  \/ \E e \in Events : IndexingStep(e) /\ UNCHANGED tableVars
  \/ \E e \in Events : DeleteEvent(e)
  \/ \E q \in Requests :
       \/ \E u \in Users, e \in Events : BeginScan(q, u, e)
       \/ VerifyScan(q)
       \/ ReadProbe(q)
       \/ SearchIndex(q)
       \/ LookUp(q)
       \/ StoreResult(q)
       \/ \E u \in Users : ReadResult(q, u)
       \/ RespondCached(q)
       \/ \E u \in Users, f \in Files : GetFileUrl(q, u, f) \/ OpenThumb(q, u, f)
  \/ Tick

Spec == Init /\ [][Next]_vars

-----------------------------------------------------------------------------
(* Properties *)

\* Every variable keeps its type.
TypeOK ==
  /\ life \in [Events -> {"none", "open", "ready", "deleted"}]
  /\ owner \in [Files -> Events \cup {None}]
  /\ rows \in [Events -> SUBSET Face] /\ index \in [Events -> SUBSET Face]
  /\ hand \in [Events -> Files \cup {None}]
  /\ cache \in Seq(Events) /\ Len(cache) <= CacheSize
  /\ copy \in [Events -> SUBSET Face]
  /\ current \in [Events -> BOOLEAN]
  /\ probes \subseteq Probe /\ results \subseteq Result
  /\ req \in [Requests -> Request]
  /\ links \in [Users -> [Files -> Expiries]] /\ thumbs \subseteq Files
  /\ found \in [Users -> [Files -> 0..MaxTime \cup {Never}]]
  /\ working \in Events \cup {None} /\ todo \subseteq Files
  /\ now \in 0..MaxTime /\ reindexes \in 0..MaxReindexes

FilesShowing(e, who) == {r.file : r \in {s \in rows[e] : s.who \in who}}
FoundBy(q) == req[q].pc = "matched" /\ req'[q].pc = "found"
Crowded(e, who) == Cardinality({x \in rows[e] : x.who \in who}) > TopK

\* A scan of an album nothing happens to, answered from a copy loaded since its
\* last save, finds exactly the photos of the event that show the person,
\* unless they are more than one search returns.
FreshScansAreExact ==
  [][\A q \in Requests :
       FoundBy(q) /\ req[q].calm /\ req[q].fresh
                  /\ ~Crowded(req[q].event, req[q].who) =>
         req'[q].files = FilesShowing(req[q].event, req[q].who)]_vars

\* "One scan finds every photo of you in this album": a scan of an album that is
\* READY, and that nothing happens to while the scan runs, misses no photo.
ReadyScansAreComplete ==
  [][\A q \in Requests :
       FoundBy(q) /\ req[q].calm /\ ~Crowded(req[q].event, req[q].who) =>
         FilesShowing(req[q].event, req[q].who) \subseteq req'[q].files]_vars

\* Access to files is scoped and ends: a user only holds links to files that a
\* stored result of his had, and such a link expires within the lifetime of the
\* result and its own.  The thumbnails on disk are of files that someone found.
AccessIsScoped ==
  /\ \A u \in Users, f \in Files :
       LET l == links[u][f] IN
       /\ l.thumb # Never => l.thumb < found[u][f] + ResultTTL + ThumbTTL
       /\ l.media # Never => l.media < found[u][f] + ResultTTL + UrlTTL
  /\ \A f \in thumbs : \E u \in Users : found[u][f] # Never

\* A search of what a deletion left of an index, in the API's copy or in a file that
\* a running task saved again, finds no photo, although the ids of its vectors may
\* have gone to faces of other events since.
LeftoversFindNothing ==
  [][\A q \in Requests :
       FoundBy(q) /\ ~Album!Live(req[q].event) => req'[q].files = {}]_vars

\* No row outlives its event, although requests are between two of their steps
\* when it is deleted.
DeletedEventsAreSilent == \A row \in probes \cup results : Album!Live(row.event)

\* Nor does a new link: a request that answers after the deletion only links to
\* files that another event has now.
NoLinkAfterDeletion ==
  [][\A q \in Requests :
       req[q].pc \in {"found", "cached"} /\ ~Album!Live(req[q].event)
         /\ req'[q] # req[q] =>
            \A u \in Users, f \in Files :
              links'[u][f] # links[u][f] =>
                owner[f] # None /\ Album!Live(owner[f])]_vars

\* Whoever has a probe showed a face and moved: a sharp face is in a frame that
\* decodes, and two neighbouring frames differ; without the model by more than 5
\* levels, which is the blink signal that a comment calls optional
\* (cv_pipeline/liveness.py:46).
ProbesAreLive ==
  \A p \in probes :
    /\ ReferenceLiveness(Decoded(p.scan), HasModel)
    /\ \E i \in DOMAIN p.scan : \E d \in p.scan[i].faces :
         p.scan[i].readable /\ QualityPassed(d)

=============================================================================
