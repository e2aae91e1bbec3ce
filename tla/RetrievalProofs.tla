--------------------------- MODULE RetrievalProofs ---------------------------
(***************************************************************************)
(* Proofs about Retrieval, for every number of events, files, users and    *)
(* requests, every cache size and every lifetime.                          *)
(***************************************************************************)
EXTENDS Retrieval, ScanPipelineProofs, FiniteSetTheorems, TLAPS

LEMMA Constants ==
  /\ CacheSize \in Nat /\ CacheSize > 0 /\ TopK \in Nat /\ TopK > 0
  /\ ResultTTL \in Nat /\ ResultTTL > 0
  /\ ProbeTTL \in Nat /\ UrlTTL \in Nat /\ ThumbTTL \in Nat
  /\ MaxTime \in Nat /\ MaxId \in Nat /\ MaxReindexes \in Nat
  /\ Never \in Int /\ Never < 0
BY LimitsAssumption DEF Never

\* A request in progress is of a user and of an event.
Named ==
  \A q \in Requests :
    req[q].pc \notin {"new", "done"} => req[q].user \in Users /\ req[q].event \in Events

Typed == TypeOK /\ Named

-----------------------------------------------------------------------------
(* Typing of requests *)

LEMMA NewRequestTyped ==
  /\ NewRequest \in Request
  /\ [NewRequest EXCEPT !.pc = "done"] \in Request
  /\ [NewRequest EXCEPT !.pc = "done"].pc = "done"
  /\ [NewRequest EXCEPT !.pc = "done"].calm = FALSE
BY DEF NewRequest, Request

\* A request taken a step further is the only one that changes.
LEMMA StepTyped ==
  ASSUME Typed, NEW q \in Requests, NEW r \in Request, Step(q, r),
         r.pc \notin {"new", "done"} => r.user \in Users /\ r.event \in Events
  PROVE  /\ req' \in [Requests -> Request] /\ Named'
         /\ \A p \in Requests : req'[p] = IF p = q THEN r ELSE req[p]
BY DEF Step, Typed, TypeOK, Named

LEMMA EndRequestTyped ==
  ASSUME Typed, NEW q \in Requests, EndRequest(q)
  PROVE  /\ req' \in [Requests -> Request] /\ Named'
         /\ \A p \in Requests :
              p # q => req'[p] = req[p]
         /\ req'[q].pc = "done" /\ ~req'[q].calm
BY StepTyped, NewRequestTyped DEF EndRequest

\* What a step of an album does to the requests.
LEMMA DisturbTyped ==
  ASSUME Typed, NEW e \in Events, NEW saved \in BOOLEAN, Disturb(e, saved)
  PROVE  /\ req' \in [Requests -> Request] /\ Named'
         /\ \A q \in Requests :
              /\ req'[q].pc = req[q].pc /\ req'[q].user = req[q].user
              /\ req'[q].event = req[q].event /\ req'[q].who = req[q].who
              /\ req'[q].ids = req[q].ids /\ req'[q].files = req[q].files
              /\ req'[q].at = req[q].at /\ req'[q].exp = req[q].exp
              /\ req'[q].fresh = req[q].fresh
              /\ req'[q].calm = (req[q].calm /\ req[q].event # e)
         /\ current' \in [Events -> BOOLEAN]
         /\ \A d \in Events : current'[d] = (current[d] /\ ~(saved /\ d = e))
         /\ UNCHANGED <<cache, copy, linkVars, now>>
<1>1. ASSUME NEW q \in Requests
      PROVE  req[q] \in Request /\ [req[q] EXCEPT !.calm = FALSE] \in Request
  <2>1. req[q] \in Request
    BY DEF Typed, TypeOK
  <2> QED BY <2>1 DEF Request
<1>2. /\ req' = [q \in Requests |-> IF req[q].event = e
                                     THEN [req[q] EXCEPT !.calm = FALSE] ELSE req[q]]
      /\ current' = IF saved THEN [current EXCEPT ![e] = FALSE] ELSE current
      /\ UNCHANGED <<cache, copy, linkVars, now>>
  BY DEF Disturb
<1>3. ASSUME NEW q \in Requests
      PROVE  /\ req'[q].pc = req[q].pc /\ req'[q].user = req[q].user
             /\ req'[q].event = req[q].event /\ req'[q].who = req[q].who
             /\ req'[q].ids = req[q].ids /\ req'[q].files = req[q].files
             /\ req'[q].at = req[q].at /\ req'[q].exp = req[q].exp
             /\ req'[q].fresh = req[q].fresh
             /\ req'[q].calm = (req[q].calm /\ req[q].event # e)
  BY <1>1, <1>2 DEF Request
<1>4. req' \in [Requests -> Request]
  BY <1>1, <1>2
<1>5. Named'
  BY <1>3 DEF Typed, Named
<1>6. current' \in [Events -> BOOLEAN]
      /\ \A d \in Events : current'[d] = (current[d] /\ ~(saved /\ d = e))
  BY <1>2 DEF Typed, TypeOK
<1> QED BY <1>2, <1>3, <1>4, <1>5, <1>6

-----------------------------------------------------------------------------
(* Typing of albums *)

AlbumTyped ==
  /\ life \in [Events -> {"none", "open", "ready", "deleted"}]
  /\ owner \in [Files -> Events \cup {None}]
  /\ rows \in [Events -> SUBSET Face] /\ index \in [Events -> SUBSET Face]
  /\ hand \in [Events -> Files \cup {None}]
  /\ working \in Events \cup {None} /\ todo \subseteq Files
  /\ reindexes \in 0..MaxReindexes

LEMMA LargestIsId ==
  ASSUME Typed, NEW n \in LargestIds
  PROVE  n \in Nat
<1>1. AllIds \subseteq 1..MaxId
  BY DEF AllIds, Typed, TypeOK, Face
<1> QED BY <1>1, Constants DEF LargestIds

LEMMA NewFacesTyped ==
  ASSUME Typed, NEW f \in Files, NEW people \in Photos[f], NEW n \in LargestIds,
         n + Len(people) <= MaxId
  PROVE  FacesIn(f, people, n) \subseteq Face
<1>1. people \in Seq(People) /\ Len(people) \in Nat /\ DOMAIN people = 1..Len(people)
  BY PhotosAssumption
<1>2. n \in Nat
  BY LargestIsId
<1>3. ASSUME NEW i \in 1..Len(people) PROVE n + i \in 1..MaxId /\ people[i] \in People
  BY <1>1, <1>2, <1>3, Constants
<1> QED BY <1>1, <1>3 DEF FacesIn, Face

LEMMA IndexingTyped ==
  ASSUME Typed, NEW e \in Events, IndexingStep(e)
  PROVE  AlbumTyped' /\ \E saved \in BOOLEAN : Disturb(e, saved)
<1> DEFINE Goal == AlbumTyped' /\ \E saved \in BOOLEAN : Disturb(e, saved)
<1> SUFFICES Goal
  OBVIOUS
<1>a. AlbumTyped
  BY DEF Typed, TypeOK, AlbumTyped
<1>1. CASE Album!Create(e) /\ Disturb(e, FALSE) /\ UNCHANGED taskVars
  BY <1>a, <1>1 DEF Album!Create, taskVars, AlbumTyped
<1>2. CASE /\ Album!Open(e) /\ reindexes < MaxReindexes /\ reindexes' = reindexes + 1
           /\ Disturb(e, FALSE) /\ UNCHANGED <<working, todo>>
  <2>1. reindexes' \in 0..MaxReindexes
    BY <1>a, <1>2, Constants DEF AlbumTyped
  <2> QED BY <1>a, <1>2, <2>1 DEF Album!Open, AlbumTyped
<1>3. CASE /\ Album!Adopt(e, Folder[e]) /\ StartTask(e)
           /\ Disturb(e, FALSE) /\ UNCHANGED reindexes
  BY <1>a, <1>3, FolderAssumption DEF Album!Adopt, StartTask, AlbumTyped
<1>4. ASSUME NEW f \in todo, Album!Take(e, f), todo' = todo \ {f},
             Disturb(e, index'[e] # index[e]), UNCHANGED <<working, reindexes>>
      PROVE  Goal
  BY <1>a, <1>4 DEF Album!Take, Album!FacesOf, AlbumTyped
<1>5. ASSUME hand[e] # None, NEW people \in Photos[hand[e]], NEW n \in LargestIds,
             n + Len(people) <= MaxId, Album!Put(e, FacesIn(hand[e], people, n)),
             Disturb(e, TRUE), UNCHANGED taskVars
      PROVE  Goal
  <2>1. FacesIn(hand[e], people, n) \subseteq Face
    BY <1>a, <1>5, NewFacesTyped DEF AlbumTyped
  <2>2. index' \in [Events -> SUBSET Face]
    BY <1>a, <1>5, <2>1 DEF Album!Put, AlbumTyped
  <2> QED BY <1>a, <1>5, <2>2 DEF Album!Put, taskVars, AlbumTyped
<1>6. CASE Album!Settle(e) /\ Disturb(e, FALSE) /\ UNCHANGED taskVars
  BY <1>a, <1>6 DEF Album!Settle, taskVars, AlbumTyped
<1>7. CASE Album!Close(e) /\ EndTask /\ Disturb(e, FALSE) /\ UNCHANGED reindexes
  BY <1>a, <1>7 DEF Album!Close, EndTask, AlbumTyped
<1> HIDE DEF Goal
<1> QED BY <1>1, <1>2, <1>3, <1>4, <1>5, <1>6, <1>7 DEF IndexingStep

LEMMA DeleteTyped ==
  ASSUME Typed, NEW e \in Events, DeleteEvent(e)
  PROVE  AlbumTyped' /\ Disturb(e, FALSE)
         /\ probes' \subseteq probes /\ results' \subseteq results
<1>a. AlbumTyped
  BY DEF Typed, TypeOK, AlbumTyped
<1>1. working' \in Events \cup {None} /\ todo' \subseteq Files
  BY <1>a DEF DeleteEvent, EndTask, AlbumTyped
<1> QED BY <1>a, <1>1 DEF DeleteEvent, Album!Delete, AlbumTyped

-----------------------------------------------------------------------------
(* Typing of the cache of indexes *)

LEMMA WithoutItemTyped ==
  ASSUME NEW S, NEW s \in Seq(S), NEW i \in DOMAIN s
  PROVE  WithoutItem(s, i) \in Seq(S) /\ Len(WithoutItem(s, i)) = Len(s) - 1
<1>1. Len(s) \in Nat /\ i \in 1..Len(s) /\ i \in Int
  OBVIOUS
<1> DEFINE before == SubSeq(s, 1, i - 1)
           after == SubSeq(s, i + 1, Len(s))
<1>2. before \in Seq(S) /\ Len(before) = i - 1
  BY <1>1
<1>3. after \in Seq(S) /\ Len(after) = Len(s) - i
  BY <1>1
<1>4. WithoutItem(s, i) = before \o after
  BY DEF WithoutItem
<1> HIDE DEF before, after
<1> QED BY <1>1, <1>2, <1>3, <1>4

LEMMA UsedTyped ==
  ASSUME Typed, NEW e \in Events
  PROVE  Used(e) \in Seq(Events) /\ Len(Used(e)) <= CacheSize
<1>1. cache \in Seq(Events) /\ Len(cache) \in Nat
  BY DEF Typed, TypeOK
<1>2. OthersHeld(e) \in Seq(Events)
  BY <1>1, WithoutItemTyped DEF OthersHeld, Held
<1> DEFINE order == Append(OthersHeld(e), e)
<1>3. order \in Seq(Events) /\ Len(order) \in Nat
  BY <1>2
<1> HIDE DEF order
<1>4. Newer(order) \in Seq(Events) /\ Len(Newer(order)) <= CacheSize
  BY <1>3, Constants DEF Newer
<1> QED BY <1>4 DEF Used, order

LEMMA LoadTyped ==
  ASSUME Typed, NEW e \in Events, LoadIndex(e)
  PROVE  /\ cache' \in Seq(Events) /\ Len(cache') <= CacheSize
         /\ copy' \in [Events -> SUBSET Face]
         /\ current' \in [Events -> BOOLEAN]
         /\ LoadedIndex(e) \in SUBSET Face
         /\ copy'[e] = LoadedIndex(e)
         /\ \A d \in Events : d # e => copy'[d] \in {copy[d], {}}
         /\ current'[e] = (Held(e) => current[e])
         /\ \A d \in Events : d # e => current'[d] = (current[d] /\ copy'[d] = copy[d])
<1>1. LoadedIndex(e) \in SUBSET Face
  BY DEF LoadedIndex, Typed, TypeOK
<1>2. copy' \in [Events -> SUBSET Face]
  BY <1>1 DEF LoadIndex, Typed, TypeOK
<1>3. current' \in [Events -> BOOLEAN]
  BY DEF LoadIndex, Typed, TypeOK
<1> QED BY <1>1, <1>2, <1>3, UsedTyped DEF LoadIndex

LEMMA MatchesTyped ==
  ASSUME NEW S \in SUBSET Face, NEW who, NEW ids \in BestMatches(S, who)
  PROVE  ids \in SUBSET (1..MaxId)
<1>1. PICK best \in SUBSET S : ids = {x.id : x \in best}
  BY DEF BestMatches
<1> QED BY <1>1 DEF Face

LEMMA StampTyped ==
  ASSUME Typed, NEW n \in NextStamps
  PROVE  n \in Nat
<1>1. Stamps \subseteq Nat
  BY DEF Stamps, Typed, TypeOK, Result, Request
<1> QED BY <1>1 DEF NextStamps

-----------------------------------------------------------------------------
(* Typing of links *)

\* A thumbnail link is renewed to the later of its two ends, other links stay.
LEMMA ThumbLinksTyped ==
  ASSUME Typed, NEW u \in Users, NEW F, NEW exp \in Nat, ThumbLinks(u, F, exp)
  PROVE  /\ links' \in [Users -> [Files -> Expiries]]
         /\ \A v \in Users, f \in Files :
              /\ links'[v][f].media = links[v][f].media
              /\ \/ links'[v][f] = links[v][f]
                 \/ v = u /\ f \in F /\ links'[v][f].thumb = exp
<1> DEFINE later(f) == Renewed(links[u][f], exp)
           mine == [f \in Files |-> IF f \in F THEN later(f) ELSE links[u][f]]
<1>1. links \in [Users -> [Files -> Expiries]]
  BY DEF Typed, TypeOK
<1>2. ASSUME NEW f \in Files
      PROVE  /\ later(f) \in Expiries /\ later(f).media = links[u][f].media
             /\ later(f) = links[u][f] \/ later(f).thumb = exp
  <2>1. /\ links[u][f] \in Expiries
        /\ links[u][f].thumb \in Nat \cup {Never} /\ links[u][f].thumb \in Int
    BY <1>1, Constants DEF Expiries
  <2>2. Max({links[u][f].thumb, exp}) \in {links[u][f].thumb, exp}
    BY <2>1, MaxOfTwo
  <2> QED BY <2>1, <2>2 DEF Expiries, Renewed
<1>3. links' = [links EXCEPT ![u] = mine]
  BY <1>1 DEF ThumbLinks
<1>4. mine \in [Files -> Expiries]
  BY <1>1, <1>2
<1>5. \A f \in Files : mine[f] = IF f \in F THEN later(f) ELSE links[u][f]
  OBVIOUS
<1> HIDE DEF mine, later
<1>6. links' \in [Users -> [Files -> Expiries]]
      /\ \A v \in Users : links'[v] = IF v = u THEN mine ELSE links[v]
  BY <1>1, <1>3, <1>4
<1> QED BY <1>2, <1>5, <1>6

\* A new media link ends at its own time, other links stay.
LEMMA MediaLinkTyped ==
  ASSUME Typed, NEW u \in Users, NEW f \in Files, NEW exp \in Nat,
         links' = [links EXCEPT ![u][f].media = exp]
  PROVE  /\ links' \in [Users -> [Files -> Expiries]]
         /\ \A v \in Users, g \in Files :
              /\ links'[v][g].thumb = links[v][g].thumb
              /\ \/ links'[v][g] = links[v][g]
                 \/ v = u /\ g = f /\ links'[v][g].media = exp
<1> DEFINE new == [links[u][f] EXCEPT !.media = exp]
<1>1. links \in [Users -> [Files -> Expiries]]
  BY DEF Typed, TypeOK
<1>2. links[u][f] \in Expiries
  BY <1>1
<1>3. new \in Expiries /\ new.thumb = links[u][f].thumb /\ new.media = exp
  BY <1>2 DEF Expiries
<1>4. links' = [links EXCEPT ![u] = [links[u] EXCEPT ![f] = new]]
  OBVIOUS
<1> HIDE DEF new
<1>5. \A v \in Users, g \in Files :
        links'[v][g] = IF v = u /\ g = f THEN new ELSE links[v][g]
  BY <1>1, <1>4
<1>6. links' \in [Users -> [Files -> Expiries]]
  BY <1>1, <1>3, <1>4
<1> QED BY <1>3, <1>5, <1>6

-----------------------------------------------------------------------------
(* The type invariant *)

ApiTyped ==
  /\ cache \in Seq(Events) /\ Len(cache) <= CacheSize
  /\ copy \in [Events -> SUBSET Face] /\ current \in [Events -> BOOLEAN]
TablesTyped == probes \subseteq Probe /\ results \subseteq Result
RequestsTyped == req \in [Requests -> Request] /\ Named
LinksTyped ==
  /\ links \in [Users -> [Files -> Expiries]] /\ thumbs \subseteq Files
  /\ found \in [Users -> [Files -> 0..MaxTime \cup {Never}]]
  /\ now \in 0..MaxTime

LEMMA TypedParts ==
  Typed <=> AlbumTyped /\ ApiTyped /\ TablesTyped /\ RequestsTyped /\ LinksTyped
BY DEF Typed, TypeOK, AlbumTyped, ApiTyped, TablesTyped, RequestsTyped, LinksTyped

LEMMA TypedPartsNext ==
  AlbumTyped' /\ ApiTyped' /\ TablesTyped' /\ RequestsTyped' /\ LinksTyped' => Typed'
BY DEF Typed, TypeOK, AlbumTyped, ApiTyped, TablesTyped, RequestsTyped, LinksTyped

\* The parts that a step leaves alone.
LEMMA PartsKept ==
  ASSUME Typed
  PROVE  /\ UNCHANGED <<albumVars, taskVars>> => AlbumTyped'
         /\ UNCHANGED apiVars => ApiTyped'
         /\ UNCHANGED tableVars => TablesTyped'
         /\ UNCHANGED req => RequestsTyped'
         /\ UNCHANGED <<linkVars, now>> => LinksTyped'
BY TypedParts DEF AlbumTyped, ApiTyped, TablesTyped, RequestsTyped, LinksTyped, Named,
     albumVars, taskVars, apiVars, tableVars, linkVars

LEMMA InitTyped == Init => Typed
<1> SUFFICES ASSUME Init PROVE Typed
  OBVIOUS
<1>1. AlbumTyped
  BY Constants DEF Init, Album!Init, AlbumTyped
<1>2. ApiTyped
  BY Constants DEF Init, ApiTyped
<1>3. TablesTyped
  BY DEF Init, TablesTyped
<1>4. RequestsTyped
  <2>1. NewRequest.pc = "new"
    BY DEF NewRequest
  <2> QED BY <2>1, NewRequestTyped DEF Init, RequestsTyped, Named
<1>5. LinksTyped
  <2>1. [thumb |-> Never, media |-> Never] \in Expiries
    BY DEF Expiries
  <2> QED BY <2>1, Constants DEF Init, LinksTyped
<1> QED BY <1>1, <1>2, <1>3, <1>4, <1>5, TypedParts

LEMMA BeginScanTyped ==
  ASSUME Typed, NEW q \in Requests, NEW u \in Users, NEW e \in Events, BeginScan(q, u, e)
  PROVE  Typed'
<1> DEFINE r == [NewRequest EXCEPT !.pc = "pipeline", !.user = u, !.event = e,
                                   !.calm = TRUE]
<1>1. r \in Request /\ r.user \in Users /\ r.event \in Events
  BY DEF NewRequest, Request
<1>2. Step(q, r)
  BY DEF BeginScan
<1> HIDE DEF r
<1>3. RequestsTyped'
  BY <1>1, <1>2, StepTyped DEF RequestsTyped
<1> QED BY <1>3, PartsKept, TypedPartsNext DEF BeginScan

LEMMA VerifyScanTyped ==
  ASSUME Typed, NEW q \in Requests, VerifyScan(q)
  PROVE  Typed'
<1>1. req[q] \in Request /\ req[q].user \in Users /\ req[q].event \in Events
  BY DEF Typed, TypeOK, Named, VerifyScan
<1>2. /\ UNCHANGED <<albumVars, taskVars, apiVars, linkVars, now>>
      /\ UNCHANGED results
  BY DEF VerifyScan
<1>3. ASSUME EndRequest(q), UNCHANGED probes PROVE TablesTyped' /\ RequestsTyped'
  BY <1>2, <1>3, PartsKept, EndRequestTyped DEF RequestsTyped, tableVars
<1>4. ASSUME NEW c \in PassingScans,
             probes' = probes \cup
               {[id |-> q, user |-> req[q].user, event |-> req[q].event,
                 scan |-> c, exp |-> now + ProbeTTL]},
             Step(q, [req[q] EXCEPT !.pc = "probed", !.who = ProbeOf(c, HasModel)])
      PROVE  TablesTyped' /\ RequestsTyped'
  <2>1. c \in Captures /\ ProbeOf(c, HasModel) \in SUBSET People
    BY <1>4, CapturesAssumption DEF PassingScans
  <2>2. now + ProbeTTL \in Nat
    BY Constants DEF Typed, TypeOK
  <2>3. TablesTyped'
    BY <1>1, <1>2, <1>4, <2>1, <2>2, TypedParts DEF TablesTyped, Probe
  <2> DEFINE r == [req[q] EXCEPT !.pc = "probed", !.who = ProbeOf(c, HasModel)]
  <2>4. r \in Request /\ r.user \in Users /\ r.event \in Events
    BY <1>1, <2>1 DEF Request
  <2>5. Step(q, r)
    BY <1>4
  <2> HIDE DEF r
  <2>6. RequestsTyped'
    BY <2>4, <2>5, StepTyped DEF RequestsTyped
  <2> QED BY <2>3, <2>6
<1>5. TablesTyped' /\ RequestsTyped'
  BY <1>3, <1>4 DEF VerifyScan
<1> QED BY <1>2, <1>5, PartsKept, TypedPartsNext

LEMMA ReadProbeTyped ==
  ASSUME Typed, NEW q \in Requests, ReadProbe(q)
  PROVE  Typed'
<1>1. req[q] \in Request /\ req[q].user \in Users /\ req[q].event \in Events
  BY DEF Typed, TypeOK, Named, ReadProbe
<1>2. UNCHANGED <<albumVars, taskVars, apiVars, tableVars, linkVars, now>>
  BY DEF ReadProbe
<1>3. ASSUME EndRequest(q) PROVE RequestsTyped'
  BY <1>3, EndRequestTyped DEF RequestsTyped
<1>4. ASSUME NEW n \in NextStamps, Step(q, [req[q] EXCEPT !.pc = "read", !.at = n])
      PROVE  RequestsTyped'
  <2> DEFINE r == [req[q] EXCEPT !.pc = "read", !.at = n]
  <2>1. n \in Nat
    BY StampTyped
  <2>2. r \in Request /\ r.user \in Users /\ r.event \in Events
    BY <1>1, <2>1 DEF Request
  <2>3. Step(q, r)
    BY <1>4
  <2> HIDE DEF r
  <2> QED BY <2>2, <2>3, StepTyped DEF RequestsTyped
<1> QED BY <1>2, <1>3, <1>4, PartsKept, TypedPartsNext DEF ReadProbe

LEMMA SearchIndexTyped ==
  ASSUME Typed, NEW q \in Requests, SearchIndex(q)
  PROVE  Typed'
<1> DEFINE e == req[q].event
<1>1. req[q] \in Request /\ req[q].user \in Users /\ e \in Events
  BY DEF Typed, TypeOK, Named, SearchIndex
<1>2. UNCHANGED <<albumVars, taskVars, tableVars, linkVars, now>> /\ LoadIndex(e)
  BY DEF SearchIndex
<1>3. ApiTyped' /\ LoadedIndex(e) \in SUBSET Face
  BY <1>1, <1>2, LoadTyped DEF ApiTyped
<1>4. ASSUME NEW ids \in BestMatches(LoadedIndex(e), req[q].who),
             Step(q, [req[q] EXCEPT !.pc = "matched", !.ids = ids, !.fresh = current'[e]])
      PROVE  RequestsTyped'
  <2>1. ids \in SUBSET (1..MaxId) /\ current'[e] \in BOOLEAN
    BY <1>1, <1>3, MatchesTyped DEF ApiTyped
  <2> DEFINE r == [req[q] EXCEPT !.pc = "matched", !.ids = ids, !.fresh = current'[e]]
  <2>2. r \in Request /\ r.user \in Users /\ r.event \in Events
    BY <1>1, <2>1 DEF Request
  <2>3. Step(q, r)
    BY <1>4
  <2> HIDE DEF r
  <2> QED BY <2>2, <2>3, StepTyped DEF RequestsTyped
<1>5. RequestsTyped'
  BY <1>4 DEF SearchIndex
<1> QED BY <1>2, <1>3, <1>5, PartsKept, TypedPartsNext

LEMMA LookUpTyped ==
  ASSUME Typed, NEW q \in Requests, LookUp(q)
  PROVE  Typed'
<1>1. req[q] \in Request /\ req[q].user \in Users /\ req[q].event \in Events
  BY DEF Typed, TypeOK, Named, LookUp
<1> DEFINE files == {r.file : r \in {s \in RowsFor(req[q].event) : s.id \in req[q].ids}}
           rec == [req[q] EXCEPT !.pc = "found", !.ids = {}, !.exp = now + ThumbTTL,
                                 !.files = files]
<1>2. files \in SUBSET Files
  BY <1>1 DEF RowsFor, Typed, TypeOK, Face
<1>3. now + ThumbTTL \in Nat
  BY Constants DEF Typed, TypeOK
<1>4. Step(q, rec)
  BY DEF LookUp
<1> HIDE DEF files
<1>5. rec \in Request /\ rec.user \in Users /\ rec.event \in Events
  BY <1>1, <1>2, <1>3 DEF Request
<1> HIDE DEF rec
<1>6. RequestsTyped'
  BY <1>4, <1>5, StepTyped DEF RequestsTyped
<1> QED BY <1>6, PartsKept, TypedPartsNext DEF LookUp

LEMMA StoreResultTyped ==
  ASSUME Typed, NEW q \in Requests, StoreResult(q)
  PROVE  Typed'
<1>1. req[q] \in Request /\ req[q].user \in Users /\ req[q].event \in Events
  BY DEF Typed, TypeOK, Named, StoreResult
<1>2. /\ UNCHANGED <<albumVars, taskVars, apiVars, probes, thumbs, now>>
      /\ EndRequest(q)
  BY DEF StoreResult
<1>3. now \in Nat /\ now \in 0..MaxTime /\ now + ResultTTL \in Nat
  BY Constants DEF Typed, TypeOK
<1>4. ASSUME UNCHANGED <<results, links, found>> PROVE TablesTyped' /\ LinksTyped'
  BY <1>2, <1>4, PartsKept DEF tableVars, linkVars
<1>5. ASSUME results' = results \cup
               {[at |-> req[q].at, user |-> req[q].user, event |-> req[q].event,
                 files |-> req[q].files, exp |-> now + ResultTTL]},
             ThumbLinks(req[q].user, req[q].files, req[q].exp),
             found' = [found EXCEPT ![req[q].user] =
                         [f \in Files |-> IF f \in req[q].files THEN now ELSE @[f]]]
      PROVE  TablesTyped' /\ LinksTyped'
  <2>1. req[q].at \in Nat /\ req[q].files \in SUBSET Files /\ req[q].exp \in Nat
    BY <1>1 DEF Request
  <2>2. TablesTyped'
    BY <1>1, <1>2, <1>3, <1>5, <2>1, TypedParts DEF TablesTyped, Result
  <2>3. found' \in [Users -> [Files -> 0..MaxTime \cup {Never}]]
    BY <1>1, <1>3, <1>5 DEF Typed, TypeOK
  <2>4. links' \in [Users -> [Files -> Expiries]]
    BY <1>1, <1>5, <2>1, ThumbLinksTyped
  <2> QED BY <1>2, <2>2, <2>3, <2>4, TypedParts DEF LinksTyped
<1>6. TablesTyped' /\ LinksTyped'
  BY <1>4, <1>5 DEF StoreResult
<1>7. RequestsTyped'
  BY <1>2, EndRequestTyped DEF RequestsTyped
<1> QED BY <1>2, <1>6, <1>7, PartsKept, TypedPartsNext

LEMMA ReadResultTyped ==
  ASSUME Typed, NEW q \in Requests, NEW u \in Users, ReadResult(q, u)
  PROVE  Typed'
<1>1. ASSUME NEW p \in probes, NEW r \in Newest(ResultsOf(u, p.event)),
             Step(q, [NewRequest EXCEPT !.pc = "cached", !.user = u,
                                        !.event = p.event, !.files = r.files])
      PROVE  RequestsTyped'
  <2>1. p.event \in Events /\ r.files \in SUBSET Files
    BY TypedParts DEF TablesTyped, Probe, Result, Newest, ResultsOf
  <2> DEFINE rec == [NewRequest EXCEPT !.pc = "cached", !.user = u,
                                       !.event = p.event, !.files = r.files]
  <2>2. rec \in Request /\ rec.user \in Users /\ rec.event \in Events
    BY <2>1 DEF NewRequest, Request
  <2>3. Step(q, rec)
    BY <1>1
  <2> HIDE DEF rec
  <2> QED BY <2>2, <2>3, StepTyped DEF RequestsTyped
<1>2. EndRequest(q) => RequestsTyped'
  BY EndRequestTyped DEF RequestsTyped
<1>3. RequestsTyped'
  BY <1>1, <1>2 DEF ReadResult
<1> QED BY <1>3, PartsKept, TypedPartsNext DEF ReadResult

LEMMA RespondCachedTyped ==
  ASSUME Typed, NEW q \in Requests, RespondCached(q)
  PROVE  Typed'
<1>1. req[q].user \in Users /\ now + ThumbTTL \in Nat
  BY Constants DEF Typed, TypeOK, Named, RespondCached
<1>2. links' \in [Users -> [Files -> Expiries]]
  BY <1>1, ThumbLinksTyped DEF RespondCached
<1>3. LinksTyped'
  BY <1>2, TypedParts DEF RespondCached, LinksTyped
<1>4. RequestsTyped'
  BY EndRequestTyped DEF RespondCached, RequestsTyped
<1> QED BY <1>3, <1>4, PartsKept, TypedPartsNext DEF RespondCached

LEMMA MediaTyped ==
  ASSUME Typed, NEW q \in Requests, NEW u \in Users, NEW f \in Files,
         GetFileUrl(q, u, f) \/ OpenThumb(q, u, f)
  PROVE  Typed'
<1>1. CASE GetFileUrl(q, u, f)
  <2>1. now + UrlTTL \in Nat
    BY Constants DEF Typed, TypeOK
  <2>2. links' \in [Users -> [Files -> Expiries]]
    BY <1>1, <2>1, MediaLinkTyped DEF GetFileUrl
  <2>3. LinksTyped'
    BY <1>1, <2>2, TypedParts DEF GetFileUrl, LinksTyped
  <2>4. RequestsTyped'
    BY <1>1, EndRequestTyped DEF GetFileUrl, RequestsTyped
  <2> QED BY <1>1, <2>3, <2>4, PartsKept, TypedPartsNext DEF GetFileUrl
<1>2. CASE OpenThumb(q, u, f)
  <2>1. LinksTyped'
    BY <1>2, TypedParts DEF OpenThumb, LinksTyped
  <2>2. RequestsTyped'
    BY <1>2, EndRequestTyped DEF OpenThumb, RequestsTyped
  <2> QED BY <1>2, <2>1, <2>2, PartsKept, TypedPartsNext DEF OpenThumb
<1> QED BY <1>1, <1>2

LEMMA AlbumStepTyped ==
  ASSUME Typed, NEW e \in Events,
         \/ IndexingStep(e) /\ UNCHANGED tableVars
         \/ DeleteEvent(e)
  PROVE  Typed'
<1>1. AlbumTyped' /\ TablesTyped' /\ \E saved \in BOOLEAN : Disturb(e, saved)
  <2>1. CASE IndexingStep(e) /\ UNCHANGED tableVars
    BY <2>1, IndexingTyped, PartsKept
  <2>2. CASE DeleteEvent(e)
    BY <2>2, DeleteTyped, TypedParts DEF TablesTyped
  <2> QED BY <2>1, <2>2
<1>2. PICK saved \in BOOLEAN : Disturb(e, saved)
  BY <1>1
<1>3. RequestsTyped' /\ current' \in [Events -> BOOLEAN]
      /\ UNCHANGED <<cache, copy, linkVars, now>>
  BY <1>2, DisturbTyped DEF RequestsTyped
<1>4. ApiTyped' /\ LinksTyped'
  BY <1>3, PartsKept, TypedParts DEF ApiTyped
<1> QED BY <1>1, <1>3, <1>4, TypedPartsNext

LEMMA TickTyped ==
  ASSUME Typed, Tick
  PROVE  Typed'
<1>1. now' \in 0..MaxTime
  BY Constants DEF Tick, Typed, TypeOK
<1>2. LinksTyped'
  BY <1>1, TypedParts DEF Tick, LinksTyped, linkVars
<1> QED BY <1>2, PartsKept, TypedPartsNext DEF Tick

LEMMA TypedStep ==
  ASSUME Typed, [Next]_vars
  PROVE  Typed'
<1>1. CASE UNCHANGED vars
  BY <1>1, PartsKept, TypedPartsNext DEF vars
<1> QED
  BY <1>1, AlbumStepTyped, BeginScanTyped, VerifyScanTyped, ReadProbeTyped,
     SearchIndexTyped, LookUpTyped, StoreResultTyped, ReadResultTyped, RespondCachedTyped, MediaTyped,
     TickTyped DEF Next

\* Every variable keeps its type: requests under way have a user and an event, the
\* cache never holds more indexes than max_cached_indexes, ids stay in the table's
\* range, a link's end is a time.
THEOREM TypeCorrect == Spec => []TypeOK
<1>1. Typed => TypeOK
  BY DEF Typed
<1> QED BY <1>1, InitTyped, TypedStep, PTL DEF Spec

LEMMA TypedAlways == Spec => []Typed
BY InitTyped, TypedStep, PTL DEF Spec

-----------------------------------------------------------------------------
(* What each step does to its request *)

OthersSame(q) == \A p \in Requests : p # q => req'[p] = req[p]
Ended(q) == req'[q].pc = "done" /\ ~req'[q].calm

LEMMA BeginScanEffect ==
  ASSUME Typed, NEW q \in Requests, NEW u \in Users, NEW e \in Events, BeginScan(q, u, e)
  PROVE  /\ OthersSame(q) /\ req[q].pc = "new" /\ life[e] = "ready"
         /\ req'[q].pc = "pipeline" /\ req'[q].event = e
BY DEF BeginScan, Step, NewRequest, OthersSame, Typed, TypeOK

LEMMA VerifyScanEffect ==
  ASSUME Typed, NEW q \in Requests, VerifyScan(q)
  PROVE  /\ OthersSame(q) /\ req[q].pc = "pipeline" /\ req[q].event \in Events
         /\ req[q].user \in Users
         /\ \/ Ended(q) /\ probes' = probes
            \/ /\ Album!Live(req[q].event)
               /\ req'[q].pc = "probed" /\ req'[q].event = req[q].event
               /\ req'[q].calm = req[q].calm /\ req'[q].user = req[q].user
               /\ \E p : /\ probes' = probes \cup {p} /\ p.id = q
                         /\ p.user = req[q].user /\ p.event = req[q].event
                         /\ p.scan \in PassingScans
<1>1. req[q] \in Request /\ req[q].user \in Users /\ req[q].event \in Events
  BY DEF Typed, TypeOK, Named, VerifyScan
<1>2. CASE EndRequest(q) /\ UNCHANGED probes
  BY <1>1, <1>2, EndRequestTyped DEF VerifyScan, Ended, OthersSame
<1>3. ASSUME NEW c \in PassingScans, ReferenceHolds(req[q].event),
             probes' = probes \cup
               {[id |-> q, user |-> req[q].user, event |-> req[q].event,
                 scan |-> c, exp |-> now + ProbeTTL]},
             Step(q, [req[q] EXCEPT !.pc = "probed", !.who = ProbeOf(c, HasModel)])
      PROVE  /\ OthersSame(q) /\ Album!Live(req[q].event)
             /\ req'[q].pc = "probed" /\ req'[q].event = req[q].event
             /\ req'[q].calm = req[q].calm /\ req'[q].user = req[q].user
             /\ \E p : /\ probes' = probes \cup {p} /\ p.id = q
                       /\ p.user = req[q].user /\ p.event = req[q].event
                       /\ p.scan \in PassingScans
  <2>1. /\ OthersSame(q)
        /\ req'[q] = [req[q] EXCEPT !.pc = "probed", !.who = ProbeOf(c, HasModel)]
    BY <1>3 DEF Step, OthersSame, Typed, TypeOK
  <2> DEFINE p == [id |-> q, user |-> req[q].user, event |-> req[q].event,
                   scan |-> c, exp |-> now + ProbeTTL]
  <2>2. /\ probes' = probes \cup {p} /\ p.id = q
        /\ p.user = req[q].user /\ p.event = req[q].event /\ p.scan \in PassingScans
    BY <1>3
  <2> HIDE DEF p
  <2> QED BY <1>1, <1>3, <2>1, <2>2 DEF Request, ReferenceHolds
<1> QED BY <1>1, <1>2, <1>3 DEF VerifyScan

LEMMA ReadProbeEffect ==
  ASSUME Typed, NEW q \in Requests, ReadProbe(q)
  PROVE  /\ OthersSame(q) /\ req[q].pc = "probed"
         /\ \/ Ended(q)
            \/ /\ req'[q].pc = "read" /\ req'[q].event = req[q].event
               /\ req'[q].calm = req[q].calm
<1>1. req[q] \in Request
  BY DEF Typed, TypeOK
<1>2. CASE EndRequest(q)
  BY <1>2, EndRequestTyped DEF ReadProbe, Ended, OthersSame
<1>3. ASSUME NEW n \in NextStamps, Step(q, [req[q] EXCEPT !.pc = "read", !.at = n])
      PROVE  /\ OthersSame(q)
             /\ req'[q].pc = "read" /\ req'[q].event = req[q].event
             /\ req'[q].calm = req[q].calm
  <2>1. OthersSame(q) /\ req'[q] = [req[q] EXCEPT !.pc = "read", !.at = n]
    BY <1>3 DEF Step, OthersSame, Typed, TypeOK
  <2> QED BY <1>1, <2>1 DEF Request
<1> QED BY <1>2, <1>3 DEF ReadProbe

LEMMA SearchIndexEffect ==
  ASSUME Typed, NEW q \in Requests, SearchIndex(q)
  PROVE  /\ OthersSame(q) /\ req[q].pc = "read" /\ req[q].event \in Events
         /\ LoadIndex(req[q].event)
         /\ req'[q].pc = "matched" /\ req'[q].event = req[q].event
         /\ req'[q].who = req[q].who /\ req'[q].calm = req[q].calm
         /\ req'[q].fresh = current'[req[q].event]
         /\ req'[q].ids \in BestMatches(LoadedIndex(req[q].event), req[q].who)
<1>1. req[q] \in Request /\ req[q].event \in Events
  BY DEF Typed, TypeOK, Named, SearchIndex
<1>2. PICK ids \in BestMatches(LoadedIndex(req[q].event), req[q].who) :
        Step(q, [req[q] EXCEPT !.pc = "matched", !.ids = ids,
                               !.fresh = current'[req[q].event]])
  BY DEF SearchIndex
<1>3. /\ OthersSame(q)
      /\ req'[q] = [req[q] EXCEPT !.pc = "matched", !.ids = ids,
                                  !.fresh = current'[req[q].event]]
  BY <1>2 DEF Step, OthersSame, Typed, TypeOK
<1>4. /\ req'[q].pc = "matched" /\ req'[q].event = req[q].event
      /\ req'[q].who = req[q].who /\ req'[q].calm = req[q].calm
      /\ req'[q].fresh = current'[req[q].event] /\ req'[q].ids = ids
  BY <1>1, <1>3 DEF Request
<1> QED BY <1>1, <1>2, <1>3, <1>4 DEF SearchIndex

LEMMA LookUpEffect ==
  ASSUME Typed, NEW q \in Requests, LookUp(q)
  PROVE  /\ OthersSame(q) /\ req[q].pc = "matched" /\ req[q].event \in Events
         /\ req'[q].pc = "found" /\ req'[q].event = req[q].event
         /\ req'[q].calm = req[q].calm /\ req'[q].user = req[q].user
         /\ req'[q].exp = now + ThumbTTL
         /\ req'[q].files =
              {r.file : r \in {s \in RowsFor(req[q].event) : s.id \in req[q].ids}}
<1>1. req[q] \in Request /\ req[q].event \in Events
  BY DEF Typed, TypeOK, Named, LookUp
<1> DEFINE files == {r.file : r \in {s \in RowsFor(req[q].event) : s.id \in req[q].ids}}
<1>2. /\ OthersSame(q) /\ req[q].pc = "matched"
      /\ req'[q] = [req[q] EXCEPT !.pc = "found", !.ids = {}, !.exp = now + ThumbTTL,
                                 !.files = files]
  BY DEF LookUp, Step, OthersSame, Typed, TypeOK
<1> HIDE DEF files
<1>3. /\ req'[q].pc = "found" /\ req'[q].event = req[q].event
      /\ req'[q].calm = req[q].calm /\ req'[q].user = req[q].user
      /\ req'[q].exp = now + ThumbTTL /\ req'[q].files = files
  BY <1>1, <1>2 DEF Request
<1> QED BY <1>1, <1>2, <1>3 DEF files

LEMMA StoreResultEffect ==
  ASSUME Typed, NEW q \in Requests, StoreResult(q)
  PROVE  /\ OthersSame(q) /\ req[q].pc = "found" /\ req[q].event \in Events
         /\ req[q].user \in Users /\ Ended(q)
         /\ \/ ~Album!Live(req[q].event) /\ UNCHANGED <<results, links, found>>
            \/ /\ Album!Live(req[q].event)
               /\ \E r : /\ results' = results \cup {r} /\ r.user = req[q].user
                         /\ r.event = req[q].event /\ r.files = req[q].files
                         /\ r.exp = now + ResultTTL
               /\ ThumbLinks(req[q].user, req[q].files, req[q].exp)
               /\ \A u \in Users, f \in Files :
                    found'[u][f] = IF u = req[q].user /\ f \in req[q].files
                                     THEN now ELSE found[u][f]
<1>1. req[q].user \in Users /\ req[q].event \in Events
  BY DEF Typed, TypeOK, Named, StoreResult
<1>2. OthersSame(q) /\ Ended(q)
  BY EndRequestTyped DEF StoreResult, OthersSame, Ended
<1>3. ASSUME results' = results \cup
               {[at |-> req[q].at, user |-> req[q].user, event |-> req[q].event,
                 files |-> req[q].files, exp |-> now + ResultTTL]}
      PROVE  \E r : /\ results' = results \cup {r} /\ r.user = req[q].user
                    /\ r.event = req[q].event /\ r.files = req[q].files
                    /\ r.exp = now + ResultTTL
  <2> DEFINE r == [at |-> req[q].at, user |-> req[q].user, event |-> req[q].event,
                   files |-> req[q].files, exp |-> now + ResultTTL]
  <2>1. /\ results' = results \cup {r} /\ r.user = req[q].user
        /\ r.event = req[q].event /\ r.files = req[q].files /\ r.exp = now + ResultTTL
    BY <1>3
  <2> HIDE DEF r
  <2> QED BY <2>1
<1>4. ASSUME found' = [found EXCEPT ![req[q].user] =
                         [f \in Files |-> IF f \in req[q].files THEN now ELSE @[f]]]
      PROVE  \A u \in Users, f \in Files :
               found'[u][f] = IF u = req[q].user /\ f \in req[q].files
                                THEN now ELSE found[u][f]
  BY <1>1, <1>4 DEF Typed, TypeOK
<1> QED BY <1>1, <1>2, <1>3, <1>4 DEF StoreResult, ReferenceHolds

LEMMA ReadResultEffect ==
  ASSUME Typed, NEW q \in Requests, NEW u \in Users, ReadResult(q, u)
  PROVE  /\ OthersSame(q) /\ req[q].pc = "new"
         /\ \/ Ended(q)
            \/ /\ req'[q].pc = "cached" /\ ~req'[q].calm /\ req'[q].user = u
               /\ \E r \in results : /\ r.user = u /\ Unexpired(r)
                                     /\ req'[q].files = r.files
<1>1. ASSUME NEW p \in probes, NEW r \in Newest(ResultsOf(u, p.event)),
             Step(q, [NewRequest EXCEPT !.pc = "cached", !.user = u,
                                        !.event = p.event, !.files = r.files])
      PROVE  /\ OthersSame(q) /\ req'[q].pc = "cached" /\ ~req'[q].calm
             /\ req'[q].user = u /\ req'[q].files = r.files
             /\ r \in results /\ r.user = u /\ Unexpired(r)
  BY <1>1 DEF Step, OthersSame, NewRequest, Newest, ResultsOf, Typed, TypeOK
<1>2. EndRequest(q) => OthersSame(q) /\ Ended(q)
  BY EndRequestTyped DEF OthersSame, Ended
<1> QED BY <1>1, <1>2 DEF ReadResult

LEMMA RespondCachedEffect ==
  ASSUME Typed, NEW q \in Requests, RespondCached(q)
  PROVE  OthersSame(q) /\ Ended(q) /\ req[q].pc = "cached" /\ req[q].user \in Users
<1>1. OthersSame(q) /\ Ended(q)
  BY EndRequestTyped DEF RespondCached, OthersSame, Ended
<1> QED BY <1>1 DEF RespondCached, Typed, Named

LEMMA MediaEffect ==
  ASSUME Typed, NEW q \in Requests, NEW u \in Users, NEW f \in Files,
         GetFileUrl(q, u, f) \/ OpenThumb(q, u, f)
  PROVE  OthersSame(q) /\ Ended(q) /\ req[q].pc = "new"
<1>1. EndRequest(q) => OthersSame(q) /\ Ended(q)
  BY EndRequestTyped DEF OthersSame, Ended
<1> QED BY <1>1 DEF GetFileUrl, OpenThumb

-----------------------------------------------------------------------------
(* What each step does to the life of albums *)

LEMMA IndexingLife ==
  ASSUME Typed, NEW e \in Events, IndexingStep(e)
  PROVE  /\ \A d \in Events : Album!Live(d) => Album!Live(d)'
         /\ \A d \in Events : d # e => life'[d] = life[d]
         /\ \A f \in Files : \/ owner'[f] = owner[f]
                             \/ owner'[f] = e /\ Album!Live(e)'
<1>a. AlbumTyped
  BY TypedParts
<1>1. CASE Album!Create(e) \/ Album!Open(e) \/ Album!Close(e)
  BY <1>a, <1>1 DEF Album!Create, Album!Open, Album!Close, Album!Live, AlbumTyped
<1>2. CASE Album!Adopt(e, Folder[e])
  BY <1>a, <1>2 DEF Album!Adopt, Album!Live, AlbumTyped
<1>3. CASE UNCHANGED <<life, owner>>
  BY <1>3 DEF Album!Live
<1> QED
  BY <1>1, <1>2, <1>3 DEF IndexingStep, Album!Take, Album!Put, Album!Settle

LEMMA DeleteLife ==
  ASSUME Typed, NEW e \in Events, DeleteEvent(e)
  PROVE  /\ \A d \in Events : life'[d] = IF d = e THEN "deleted" ELSE life[d]
         /\ \A d \in Events : Album!Live(d)' <=> Album!Live(d) /\ d # e
         /\ \A f \in Files : owner'[f] = IF owner[f] = e THEN None ELSE owner[f]
<1>1. /\ life' = [life EXCEPT ![e] = "deleted"]
      /\ owner' = [f \in Files |-> IF owner[f] = e THEN None ELSE owner[f]]
  BY DEF DeleteEvent, Album!Delete
<1>2. \A d \in Events : life'[d] = IF d = e THEN "deleted" ELSE life[d]
  BY <1>1 DEF Typed, TypeOK
<1> QED BY <1>1, <1>2 DEF Album!Live

\* A request's own steps leave the albums alone.
LEMMA RequestsLeaveAlbums ==
  ASSUME NEW q \in Requests,
         \/ \E u \in Users, e \in Events : BeginScan(q, u, e)
         \/ VerifyScan(q) \/ ReadProbe(q) \/ SearchIndex(q) \/ LookUp(q) \/ StoreResult(q)
         \/ \E u \in Users : ReadResult(q, u)
         \/ RespondCached(q)
         \/ \E u \in Users, f \in Files : GetFileUrl(q, u, f) \/ OpenThumb(q, u, f)
  PROVE  UNCHANGED <<life, owner, rows, index, hand>>
BY DEF BeginScan, VerifyScan, ReadProbe, SearchIndex, LookUp, StoreResult, ReadResult,
       RespondCached, GetFileUrl, OpenThumb, albumVars

-----------------------------------------------------------------------------
(* No row outlives its event *)

LEMMA SilentStep ==
  ASSUME Typed, DeletedEventsAreSilent, [Next]_vars
  PROVE  DeletedEventsAreSilent'
<1>r. \A row \in probes \cup results : row.event \in Events /\ Album!Live(row.event)
  BY TypedParts DEF TablesTyped, Probe, Result, DeletedEventsAreSilent
<1>1. ASSUME NEW e \in Events, IndexingStep(e), UNCHANGED tableVars
      PROVE  DeletedEventsAreSilent'
  <2>1. \A row \in probes' \cup results' : Album!Live(row.event)'
    BY <1>r, <1>1, IndexingLife DEF tableVars
  <2> QED BY <2>1 DEF DeletedEventsAreSilent, Album!Live
<1>2. ASSUME NEW e \in Events, DeleteEvent(e) PROVE DeletedEventsAreSilent'
  <2>1. probes' \cup results' \subseteq probes \cup results
        /\ \A row \in probes' \cup results' : row.event # e
    BY <1>2 DEF DeleteEvent, OthersRow
  <2>2. \A row \in probes' \cup results' : Album!Live(row.event)'
    BY <1>r, <1>2, <2>1, DeleteLife
  <2> QED BY <2>2 DEF DeletedEventsAreSilent, Album!Live
<1>3. ASSUME UNCHANGED life,
             \A row \in probes' \cup results' :
               row \in probes \cup results \/ Album!Live(row.event)
      PROVE  DeletedEventsAreSilent'
  BY <1>r, <1>3 DEF DeletedEventsAreSilent, Album!Live
<1>4. ASSUME NEW q \in Requests, VerifyScan(q) PROVE DeletedEventsAreSilent'
  <2>1. UNCHANGED <<life, results>>
    BY <1>4, RequestsLeaveAlbums DEF VerifyScan
  <2>2. \A p \in probes' : p \in probes \/ Album!Live(p.event)
    BY <1>4, VerifyScanEffect
  <2> QED BY <1>3, <2>1, <2>2
<1>5. ASSUME NEW q \in Requests, StoreResult(q) PROVE DeletedEventsAreSilent'
  BY <1>3, <1>5, StoreResultEffect, RequestsLeaveAlbums DEF StoreResult
<1>6. ASSUME NEW q \in Requests,
             \/ \E u \in Users, e \in Events : BeginScan(q, u, e)
             \/ ReadProbe(q) \/ SearchIndex(q) \/ LookUp(q)
             \/ \E u \in Users : ReadResult(q, u)
             \/ RespondCached(q)
             \/ \E u \in Users, f \in Files : GetFileUrl(q, u, f) \/ OpenThumb(q, u, f)
      PROVE  UNCHANGED <<life, probes, results>>
  BY <1>6 DEF BeginScan, ReadProbe, SearchIndex, LookUp, ReadResult, RespondCached,
              GetFileUrl, OpenThumb, albumVars, tableVars
<1>7. CASE Tick \/ UNCHANGED vars
  BY <1>3, <1>7 DEF Tick, vars, albumVars, tableVars
<1> QED BY <1>1, <1>2, <1>3, <1>4, <1>5, <1>6, <1>7 DEF Next

\* No probe and no stored result outlives its event, although requests that
\* checked the event before its deletion write them after it: the rows go with the
\* event, and a later INSERT violates a foreign key.
THEOREM DeletedStaySilent == Spec => []DeletedEventsAreSilent
<1>1. Init => DeletedEventsAreSilent
  BY DEF Init, DeletedEventsAreSilent
<1> QED BY <1>1, SilentStep, TypedAlways, PTL DEF Spec

-----------------------------------------------------------------------------
(* Probes of live people *)

ScansPass == \A p \in probes : p.scan \in PassingScans

\* Only the pipeline's last step adds a probe; no step changes one.
LEMMA ScansPassStep ==
  ASSUME Typed, ScansPass, [Next]_vars
  PROVE  ScansPass'
<1>1. ASSUME NEW e \in Events,
             \/ IndexingStep(e) /\ UNCHANGED tableVars
             \/ DeleteEvent(e)
      PROVE  ScansPass'
  BY <1>1, DeleteTyped DEF ScansPass, PassingScans, tableVars
<1>2. ASSUME NEW q \in Requests, VerifyScan(q) PROVE ScansPass'
  BY <1>2, VerifyScanEffect DEF ScansPass, PassingScans
<1>3. ASSUME UNCHANGED probes PROVE ScansPass'
  BY <1>3 DEF ScansPass, PassingScans
<1>4. ASSUME NEW q \in Requests,
             \/ \E u \in Users, e \in Events : BeginScan(q, u, e)
             \/ ReadProbe(q) \/ SearchIndex(q) \/ LookUp(q) \/ StoreResult(q)
             \/ \E u \in Users : ReadResult(q, u)
             \/ RespondCached(q)
             \/ \E u \in Users, f \in Files : GetFileUrl(q, u, f) \/ OpenThumb(q, u, f)
      PROVE  UNCHANGED probes
  BY <1>4 DEF BeginScan, ReadProbe, SearchIndex, LookUp, StoreResult, ReadResult, RespondCached,
              GetFileUrl, OpenThumb, tableVars
<1>5. CASE Tick \/ UNCHANGED vars
  BY <1>3, <1>5 DEF Tick, vars, tableVars
<1> QED BY <1>1, <1>2, <1>3, <1>4, <1>5 DEF Next

\* No probe comes from a scan of a still picture or of faces too poor to tell: the weights
\* of the three signals cannot add up to a pass unless neighbouring frames differ, and the
\* averaged faces are of readable frames.
THEOREM ProbesStayLive == Spec => []ProbesAreLive
<1>1. Init => ScansPass
  BY DEF Init, ScansPass
<1>2. ScansPass => ProbesAreLive
  <2>1. ASSUME NEW c \in PassingScans
        PROVE  /\ ReferenceLiveness(Decoded(c), HasModel)
               /\ \E i \in DOMAIN c : \E d \in c[i].faces :
                    c[i].readable /\ QualityPassed(d)
    <3>1. IsUpload(c) /\ ProbeOf(c, HasModel) # {}
      BY CapturesAssumption DEF PassingScans
    <3> QED BY <3>1, ModelAssumption, PassingIsLive
  <2> QED BY <2>1 DEF ScansPass, ProbesAreLive
<1> QED BY <1>1, <1>2, ScansPassStep, TypedAlways, PTL DEF Spec

-----------------------------------------------------------------------------
(* No new link of a deleted event *)

\* A drive_files row is of an event that exists.
OwnersLive == \A f \in Files : owner[f] # None => Album!Live(owner[f])

LEMMA OwnersStep ==
  ASSUME Typed, OwnersLive, [Next]_vars
  PROVE  OwnersLive'
<1>o. \A f \in Files : owner[f] \in Events \cup {None}
  BY DEF Typed, TypeOK
<1>1. ASSUME NEW e \in Events, IndexingStep(e) PROVE OwnersLive'
  BY <1>o, <1>1, IndexingLife DEF OwnersLive, Album!Live
<1>2. ASSUME NEW e \in Events, DeleteEvent(e) PROVE OwnersLive'
  BY <1>o, <1>2, DeleteLife DEF OwnersLive, Album!Live
<1>3. ASSUME UNCHANGED <<life, owner>> PROVE OwnersLive'
  BY <1>3 DEF OwnersLive, Album!Live
<1> QED
  BY <1>1, <1>2, <1>3, RequestsLeaveAlbums DEF Next, Tick, vars, albumVars

LEMMA OwnersAlways == Spec => []OwnersLive
<1>1. Init => OwnersLive
  BY NoneAssumption DEF Init, Album!Init, OwnersLive
<1> QED BY <1>1, OwnersStep, TypedAlways, PTL DEF Spec

\* A request that answers after the deletion of its event, with a result it holds,
\* only gives links to files that another event has taken over.
THEOREM NoLinksAfterDeletion == Spec => NoLinkAfterDeletion
<1>1. ASSUME Typed, OwnersLive, [Next]_vars, NEW q \in Requests,
             req[q].pc \in {"found", "cached"}, ~Album!Live(req[q].event),
             req'[q] # req[q], NEW u \in Users, NEW f \in Files,
             links'[u][f] # links[u][f]
      PROVE  owner[f] # None /\ Album!Live(owner[f])
  <2>1. ASSUME NEW e \in Events, IndexingStep(e) \/ DeleteEvent(e) PROVE FALSE
    BY <1>1, <2>1, IndexingTyped, DeleteTyped, DisturbTyped DEF linkVars
  <2>2. CASE StoreResult(q)
    BY <1>1, <2>2, StoreResultEffect
  <2>3. CASE RespondCached(q)
    <3>1. ThumbLinks(req[q].user, {g \in req[q].files : owner[g] # None}, now + ThumbTTL)
      BY <2>3 DEF RespondCached
    <3>2. req[q].user \in Users /\ now + ThumbTTL \in Nat
      BY <1>1, <2>3, RespondCachedEffect, Constants DEF Typed, TypeOK
    <3>3. owner[f] # None
      BY <1>1, <3>1, <3>2, ThumbLinksTyped
    <3> QED BY <1>1, <3>3 DEF OwnersLive
  <2>4. ASSUME NEW p \in Requests, p # q, OthersSame(p) PROVE FALSE
    BY <1>1, <2>4 DEF OthersSame
  <2>5. ASSUME NEW p \in Requests,
               \/ \E v \in Users, e \in Events : BeginScan(p, v, e)
               \/ VerifyScan(p) \/ ReadProbe(p) \/ SearchIndex(p) \/ LookUp(p)
               \/ \E v \in Users : ReadResult(p, v)
               \/ \E v \in Users, g \in Files : GetFileUrl(p, v, g) \/ OpenThumb(p, v, g)
        PROVE  FALSE
    <3>1. p = q
      BY <1>1, <2>4, <2>5, BeginScanEffect, VerifyScanEffect, ReadProbeEffect,
         SearchIndexEffect, LookUpEffect, ReadResultEffect, MediaEffect
    <3> QED BY <1>1, <2>5, <3>1, BeginScanEffect, VerifyScanEffect, ReadProbeEffect,
               SearchIndexEffect, LookUpEffect, ReadResultEffect, MediaEffect
  <2>6. ASSUME NEW p \in Requests, p # q, StoreResult(p) \/ RespondCached(p) PROVE FALSE
    BY <1>1, <2>4, <2>6, StoreResultEffect, RespondCachedEffect
  <2>7. ~Tick /\ ~UNCHANGED vars
    BY <1>1 DEF Tick, vars
  <2> QED BY <1>1, <2>1, <2>2, <2>3, <2>5, <2>6, <2>7 DEF Next
<1>2. Typed /\ OwnersLive /\ [Next]_vars =>
        [\A q \in Requests :
           req[q].pc \in {"found", "cached"} /\ ~Album!Live(req[q].event)
             /\ req'[q] # req[q] =>
                \A u \in Users, f \in Files :
                  links'[u][f] # links[u][f] =>
                    owner[f] # None /\ Album!Live(owner[f])]_vars
  BY <1>1
<1> QED BY <1>2, TypedAlways, OwnersAlways, PTL DEF Spec, NoLinkAfterDeletion

-----------------------------------------------------------------------------
(* Access is scoped and ends *)

\* A stored result, and the files a request is about to link to, are accounted for
\* in what the user has found.
FoundByNow == \A u \in Users, f \in Files : found[u][f] <= now
ResultsTell ==
  \A r \in results : \A f \in r.files : r.exp <= found[r.user][f] + ResultTTL
RequestsTell ==
  \A q \in Requests :
    /\ req[q].pc = "found" => req[q].exp <= now + ThumbTTL
    /\ req[q].pc = "cached" =>
         \A f \in req[q].files : now < found[req[q].user][f] + ResultTTL

ScopedInv == AccessIsScoped /\ FoundByNow /\ ResultsTell /\ RequestsTell

LEMMA LinkFacts ==
  ASSUME Typed
  PROVE  /\ now \in Nat
         /\ \A u \in Users, f \in Files :
              /\ found[u][f] \in Int /\ (found[u][f] # Never => found[u][f] >= 0)
              /\ links[u][f].thumb \in Int
              /\ links[u][f].thumb # Never => links[u][f].thumb >= 0
              /\ links[u][f].media \in Int
         /\ \A r \in results : r.exp \in Nat /\ r.files \subseteq Files /\ r.user \in Users
         /\ \A q \in Requests : req[q].exp \in Nat /\ req[q].files \subseteq Files
<1>1. ASSUME NEW u \in Users, NEW f \in Files
      PROVE  /\ found[u][f] \in Int /\ (found[u][f] # Never => found[u][f] >= 0)
             /\ links[u][f].thumb \in Int
             /\ links[u][f].thumb # Never => links[u][f].thumb >= 0
             /\ links[u][f].media \in Int
  <2>1. links[u][f] \in Expiries /\ found[u][f] \in 0..MaxTime \cup {Never}
    BY TypedParts DEF LinksTyped
  <2> QED BY <2>1, Constants DEF Expiries
<1>2. now \in Nat
  BY TypedParts DEF LinksTyped
<1>3. \A r \in results : r.exp \in Nat /\ r.files \subseteq Files /\ r.user \in Users
  BY TypedParts DEF TablesTyped, Result
<1>4. \A q \in Requests : req[q].exp \in Nat /\ req[q].files \subseteq Files
  BY TypedParts DEF RequestsTyped, Request
<1> QED BY <1>1, <1>2, <1>3, <1>4

\* A time of which a limit for links is known is one at which the file was found.
LEMMA FoundOnce ==
  ASSUME Typed, NEW u \in Users, NEW f \in Files
  PROVE  /\ now < found[u][f] + ResultTTL => found[u][f] # Never
         /\ \A n \in Nat : n < found[u][f] + ResultTTL + ThumbTTL => found[u][f] # Never
BY LinkFacts, Constants DEF Never

\* What a step that only renews what was found keeps.
LEMMA ScopeGrows ==
  ASSUME Typed, ScopedInv,
         \A u \in Users, f \in Files : found'[u][f] \in {found[u][f], now}
  PROVE  \A u \in Users, f \in Files :
           /\ found[u][f] <= found'[u][f] /\ found'[u][f] <= now
           /\ found'[u][f] \in Int
           /\ found[u][f] # Never => found'[u][f] # Never
BY LinkFacts, Constants DEF ScopedInv, FoundByNow

LEMMA LinksStayScoped ==
  ASSUME Typed, Typed', ScopedInv, UNCHANGED thumbs,
         \A u \in Users, f \in Files : found'[u][f] \in {found[u][f], now},
         \A u \in Users, f \in Files :
           /\ \/ links'[u][f].thumb = links[u][f].thumb
              \/ links'[u][f].thumb < found'[u][f] + ResultTTL + ThumbTTL
           /\ \/ links'[u][f].media = links[u][f].media
              \/ links'[u][f].media < found'[u][f] + ResultTTL + UrlTTL
  PROVE  AccessIsScoped'
<1>1. ASSUME NEW u \in Users, NEW f \in Files
      PROVE  /\ links'[u][f].thumb # Never =>
                  links'[u][f].thumb < found'[u][f] + ResultTTL + ThumbTTL
             /\ links'[u][f].media # Never =>
                  links'[u][f].media < found'[u][f] + ResultTTL + UrlTTL
  <2>1. found[u][f] <= found'[u][f] /\ found[u][f] \in Int /\ found'[u][f] \in Int
    BY ScopeGrows, LinkFacts
  <2>2. links[u][f].thumb \in Int /\ links[u][f].media \in Int
    BY LinkFacts
  <2>3. /\ links[u][f].thumb # Never =>
             links[u][f].thumb < found[u][f] + ResultTTL + ThumbTTL
        /\ links[u][f].media # Never =>
             links[u][f].media < found[u][f] + ResultTTL + UrlTTL
    BY DEF ScopedInv, AccessIsScoped
  <2>4. links[u][f].thumb # Never =>
          links[u][f].thumb < found'[u][f] + ResultTTL + ThumbTTL
    BY <2>1, <2>2, <2>3, Constants
  <2>5. links[u][f].media # Never =>
          links[u][f].media < found'[u][f] + ResultTTL + UrlTTL
    BY <2>1, <2>2, <2>3, Constants
  <2> QED BY <2>4, <2>5
<1>2. \A f \in thumbs' : \E u \in Users : found'[u][f] # Never
  <2>1. \A f \in thumbs : f \in Files
    BY TypedParts DEF LinksTyped
  <2> QED BY <2>1, ScopeGrows DEF ScopedInv, AccessIsScoped
<1> QED BY <1>1, <1>2 DEF AccessIsScoped, Never

LEMMA FoundStays ==
  ASSUME Typed, ScopedInv, UNCHANGED now,
         \A u \in Users, f \in Files : found'[u][f] \in {found[u][f], now}
  PROVE  FoundByNow'
BY ScopeGrows DEF FoundByNow

LEMMA ResultsStayTold ==
  ASSUME Typed, ScopedInv, results' \subseteq results,
         \A u \in Users, f \in Files : found'[u][f] \in {found[u][f], now}
  PROVE  ResultsTell'
<1>1. ASSUME NEW r \in results', NEW f \in r.files
      PROVE  r.exp <= found'[r.user][f] + ResultTTL
  <2>1. r.exp \in Nat /\ r.user \in Users /\ f \in Files
    BY <1>1, LinkFacts
  <2>2. r.exp <= found[r.user][f] + ResultTTL
    BY <1>1 DEF ScopedInv, ResultsTell
  <2>3. /\ found[r.user][f] <= found'[r.user][f]
        /\ found[r.user][f] \in Int /\ found'[r.user][f] \in Int
    BY <2>1, ScopeGrows, LinkFacts
  <2> QED BY <2>1, <2>2, <2>3, Constants
<1> QED BY <1>1 DEF ResultsTell

LEMMA RequestsStayTold ==
  ASSUME Typed, ScopedInv, UNCHANGED now,
         \A u \in Users, f \in Files : found'[u][f] \in {found[u][f], now},
         \A q \in Requests :
           \/ /\ req'[q].pc = req[q].pc /\ req'[q].exp = req[q].exp
              /\ req'[q].user = req[q].user /\ req'[q].files = req[q].files
           \/ req'[q].pc \notin {"found", "cached"}
           \/ req'[q].pc = "found" /\ req'[q].exp <= now + ThumbTTL
           \/ /\ req'[q].pc = "cached"
              /\ \A f \in req'[q].files : now < found'[req'[q].user][f] + ResultTTL
  PROVE  RequestsTell'
<1>1. ASSUME NEW q \in Requests, req[q].pc = "cached", NEW f \in req[q].files
      PROVE  now < found'[req[q].user][f] + ResultTTL
  <2>1. req[q].user \in Users /\ f \in Files /\ now \in Nat
    BY <1>1, LinkFacts DEF Typed, Named
  <2>2. now < found[req[q].user][f] + ResultTTL
    BY <1>1 DEF ScopedInv, RequestsTell
  <2>3. /\ found[req[q].user][f] <= found'[req[q].user][f]
        /\ found[req[q].user][f] \in Int /\ found'[req[q].user][f] \in Int
    BY <2>1, ScopeGrows, LinkFacts
  <2> QED BY <2>1, <2>2, <2>3, Constants
<1>2. \A q \in Requests : req[q].pc = "found" => req[q].exp <= now + ThumbTTL
  BY DEF ScopedInv, RequestsTell
<1> QED BY <1>1, <1>2 DEF RequestsTell

\* A step that gives no link and stores no result.
LEMMA ScopeUntouched ==
  ASSUME Typed, Typed', ScopedInv, UNCHANGED <<linkVars, now>>, results' \subseteq results,
         \A q \in Requests :
           \/ /\ req'[q].pc = req[q].pc /\ req'[q].exp = req[q].exp
              /\ req'[q].user = req[q].user /\ req'[q].files = req[q].files
           \/ req'[q].pc \notin {"found", "cached"}
           \/ req'[q].pc = "found" /\ req'[q].exp <= now + ThumbTTL
           \/ /\ req'[q].pc = "cached"
              /\ \A f \in req'[q].files : now < found'[req'[q].user][f] + ResultTTL
  PROVE  ScopedInv'
<1>1. \A u \in Users, f \in Files : found'[u][f] \in {found[u][f], now}
  BY DEF linkVars
<1>2. AccessIsScoped'
  BY <1>1, LinksStayScoped DEF linkVars
<1>3. FoundByNow' /\ ResultsTell' /\ RequestsTell'
  BY <1>1, FoundStays, ResultsStayTold, RequestsStayTold
<1> QED BY <1>2, <1>3 DEF ScopedInv

LEMMA StoreResultScoped ==
  ASSUME Typed, Typed', ScopedInv, NEW q \in Requests, StoreResult(q)
  PROVE  ScopedInv'
<1>1. /\ OthersSame(q) /\ req[q].pc = "found" /\ Ended(q) /\ req[q].user \in Users
      /\ UNCHANGED <<thumbs, now>>
  BY StoreResultEffect DEF StoreResult
<1>2. \A p \in Requests :
           \/ /\ req'[p].pc = req[p].pc /\ req'[p].exp = req[p].exp
              /\ req'[p].user = req[p].user /\ req'[p].files = req[p].files
           \/ req'[p].pc \notin {"found", "cached"}
  BY <1>1 DEF OthersSame, Ended
<1>3. CASE UNCHANGED <<results, links, found>>
  BY <1>1, <1>2, <1>3, ScopeUntouched DEF linkVars
<1>4. ASSUME NEW r, results' = results \cup {r}, r.user = req[q].user,
             r.files = req[q].files, r.exp = now + ResultTTL,
             ThumbLinks(req[q].user, req[q].files, req[q].exp),
             \A u \in Users, f \in Files :
               found'[u][f] = IF u = req[q].user /\ f \in req[q].files
                                THEN now ELSE found[u][f]
      PROVE  ScopedInv'
  <2>1. \A u \in Users, f \in Files : found'[u][f] \in {found[u][f], now}
    BY <1>4
  <2>2. /\ req[q].exp \in Nat /\ req[q].files \subseteq Files /\ now \in Nat
        /\ req[q].exp <= now + ThumbTTL
    BY <1>1, LinkFacts DEF ScopedInv, RequestsTell
  <2>3. req[q].exp < now + ResultTTL + ThumbTTL
    BY <2>2, Constants
  <2>4. \A u \in Users, f \in Files :
           /\ \/ links'[u][f].thumb = links[u][f].thumb
              \/ links'[u][f].thumb < found'[u][f] + ResultTTL + ThumbTTL
           /\ \/ links'[u][f].media = links[u][f].media
              \/ links'[u][f].media < found'[u][f] + ResultTTL + UrlTTL
    BY <1>1, <1>4, <2>2, <2>3, ThumbLinksTyped
  <2>5. AccessIsScoped'
    BY <1>1, <2>1, <2>4, LinksStayScoped
  <2>6. FoundByNow' /\ RequestsTell'
    BY <1>1, <1>2, <2>1, FoundStays, RequestsStayTold
  <2>7. ResultsTell'
    <3>1. ASSUME NEW s \in results, NEW f \in s.files
          PROVE  s.exp <= found'[s.user][f] + ResultTTL
      <4>1. s.exp \in Nat /\ s.user \in Users /\ f \in Files
        BY <3>1, LinkFacts
      <4>2. s.exp <= found[s.user][f] + ResultTTL
        BY <3>1 DEF ScopedInv, ResultsTell
      <4>3. /\ found[s.user][f] <= found'[s.user][f]
            /\ found[s.user][f] \in Int /\ found'[s.user][f] \in Int
        BY <2>1, <4>1, ScopeGrows, LinkFacts
      <4> QED BY <4>1, <4>2, <4>3, Constants
    <3>2. ASSUME NEW f \in r.files PROVE r.exp <= found'[r.user][f] + ResultTTL
      <4>1. f \in Files /\ found'[r.user][f] = now
        BY <1>1, <1>4, <2>2, <3>2
      <4> QED BY <1>4, <2>2, <4>1, Constants
    <3> QED BY <1>4, <3>1, <3>2 DEF ResultsTell
  <2> QED BY <2>5, <2>6, <2>7 DEF ScopedInv
<1> QED BY <1>3, <1>4, StoreResultEffect

LEMMA ReadResultScoped ==
  ASSUME Typed, Typed', ScopedInv, NEW q \in Requests, NEW u \in Users, ReadResult(q, u)
  PROVE  ScopedInv'
<1>1. UNCHANGED <<linkVars, now>> /\ results' = results /\ OthersSame(q)
  BY ReadResultEffect DEF ReadResult, tableVars
<1>2. ASSUME NEW r \in results, r.user = u, Unexpired(r), NEW f \in r.files
      PROVE  now < found'[u][f] + ResultTTL
  <2>1. r.exp \in Nat /\ f \in Files /\ now \in Nat /\ found[u][f] \in Int
    BY <1>2, LinkFacts
  <2>2. r.exp <= found[u][f] + ResultTTL /\ r.exp > now
    BY <1>2 DEF ScopedInv, ResultsTell, Unexpired
  <2>3. found'[u][f] = found[u][f]
    BY <1>1 DEF linkVars
  <2> QED BY <2>1, <2>2, <2>3, Constants
<1>3. \/ req'[q].pc \notin {"found", "cached"}
      \/ /\ req'[q].pc = "cached"
         /\ \A f \in req'[q].files : now < found'[req'[q].user][f] + ResultTTL
  BY <1>2, ReadResultEffect DEF Ended
<1> QED BY <1>1, <1>3, ScopeUntouched DEF OthersSame

LEMMA LinkingScoped ==
  ASSUME Typed, Typed', ScopedInv, NEW q \in Requests,
         \/ RespondCached(q)
         \/ \E u \in Users, f \in Files : GetFileUrl(q, u, f)
  PROVE  ScopedInv'
<1>1. /\ OthersSame(q) /\ Ended(q) /\ UNCHANGED <<thumbs, found, now, results>>
  BY RespondCachedEffect, MediaEffect DEF RespondCached, GetFileUrl, tableVars
<1>n. now \in Nat /\ now + ThumbTTL \in Nat /\ now + UrlTTL \in Nat
  BY LinkFacts, Constants
<1>2. \A p \in Requests :
           \/ /\ req'[p].pc = req[p].pc /\ req'[p].exp = req[p].exp
              /\ req'[p].user = req[p].user /\ req'[p].files = req[p].files
           \/ req'[p].pc \notin {"found", "cached"}
  BY <1>1 DEF OthersSame, Ended
<1>3. \A v \in Users, g \in Files :
           /\ \/ links'[v][g].thumb = links[v][g].thumb
              \/ links'[v][g].thumb < found[v][g] + ResultTTL + ThumbTTL
           /\ \/ links'[v][g].media = links[v][g].media
              \/ links'[v][g].media < found[v][g] + ResultTTL + UrlTTL
  <2>1. CASE RespondCached(q)
    <3>1. /\ ThumbLinks(req[q].user, {g \in req[q].files : owner[g] # None},
                        now + ThumbTTL)
          /\ req[q].user \in Users /\ req[q].pc = "cached"
      BY <2>1, RespondCachedEffect DEF RespondCached
    <3>2. ASSUME NEW g \in Files, g \in req[q].files
          PROVE  now + ThumbTTL < found[req[q].user][g] + ResultTTL + ThumbTTL
      <4>1. now < found[req[q].user][g] + ResultTTL
        BY <3>1, <3>2 DEF ScopedInv, RequestsTell
      <4>2. found[req[q].user][g] \in Int
        BY <3>1, LinkFacts
      <4> QED BY <1>n, <4>1, <4>2, Constants
    <3> QED BY <1>n, <3>1, <3>2, ThumbLinksTyped
  <2>2. ASSUME NEW u \in Users, NEW f \in Files, GetFileUrl(q, u, f)
        PROVE  \A v \in Users, g \in Files :
                 /\ \/ links'[v][g].thumb = links[v][g].thumb
                    \/ links'[v][g].thumb < found[v][g] + ResultTTL + ThumbTTL
                 /\ \/ links'[v][g].media = links[v][g].media
                    \/ links'[v][g].media < found[v][g] + ResultTTL + UrlTTL
    <3>1. links' = [links EXCEPT ![u][f].media = now + UrlTTL] /\ Allowed(u, f)
      BY <2>2 DEF GetFileUrl
    <3>2. now + UrlTTL < found[u][f] + ResultTTL + UrlTTL
      <4>1. PICK r \in results : r.user = u /\ r.exp > now /\ f \in r.files
        BY <3>1 DEF Allowed, Unexpired
      <4>2. r.exp <= found[u][f] + ResultTTL
        BY <4>1 DEF ScopedInv, ResultsTell
      <4>3. r.exp \in Nat /\ found[u][f] \in Int
        BY <4>1, LinkFacts
      <4> QED BY <1>n, <4>1, <4>2, <4>3, Constants
    <3> QED BY <1>n, <3>1, <3>2, MediaLinkTyped
  <2> QED BY <2>1, <2>2
<1>4. \A v \in Users, g \in Files : found'[v][g] = found[v][g]
  BY <1>1
<1>5. \A v \in Users, g \in Files : found'[v][g] \in {found[v][g], now}
  BY <1>4
<1>6. AccessIsScoped'
  BY <1>1, <1>3, <1>4, <1>5, LinksStayScoped
<1>7. FoundByNow' /\ ResultsTell' /\ RequestsTell'
  BY <1>1, <1>2, <1>5, FoundStays, ResultsStayTold, RequestsStayTold
<1> QED BY <1>6, <1>7 DEF ScopedInv

LEMMA OpenThumbScoped ==
  ASSUME Typed, Typed', ScopedInv, NEW q \in Requests, NEW u \in Users, NEW f \in Files,
         OpenThumb(q, u, f)
  PROVE  ScopedInv'
<1>1. /\ OthersSame(q) /\ Ended(q) /\ UNCHANGED <<links, found, now, results>>
      /\ thumbs' = thumbs \cup {f} /\ links[u][f].thumb >= now
  BY MediaEffect DEF OpenThumb, tableVars, TokenValid
<1>2. \A p \in Requests :
           \/ /\ req'[p].pc = req[p].pc /\ req'[p].exp = req[p].exp
              /\ req'[p].user = req[p].user /\ req'[p].files = req[p].files
           \/ req'[p].pc \notin {"found", "cached"}
  BY <1>1 DEF OthersSame, Ended
<1>3. \A v \in Users, g \in Files : found'[v][g] \in {found[v][g], now}
  BY <1>1
<1>4. found[u][f] # Never
  <2>1. links[u][f].thumb # Never /\ links[u][f].thumb \in Nat
    BY <1>1, LinkFacts, Constants
  <2>2. links[u][f].thumb < found[u][f] + ResultTTL + ThumbTTL
    BY <2>1 DEF ScopedInv, AccessIsScoped
  <2> QED BY <2>1, <2>2, FoundOnce
<1>5. AccessIsScoped'
  BY <1>1, <1>4 DEF ScopedInv, AccessIsScoped, Never
<1>6. FoundByNow' /\ ResultsTell' /\ RequestsTell'
  BY <1>1, <1>2, <1>3, FoundStays, ResultsStayTold, RequestsStayTold
<1> QED BY <1>5, <1>6 DEF ScopedInv

LEMMA TickScoped ==
  ASSUME Typed, ScopedInv, Tick
  PROVE  ScopedInv'
<1>1. /\ now' = now + 1 /\ UNCHANGED <<results, req, links, thumbs, found>>
      /\ \A q \in Requests : req[q].pc \in {"new", "done"}
  BY DEF Tick, tableVars, linkVars
<1>2. FoundByNow'
  <2>1. \A u \in Users, f \in Files : found[u][f] <= now /\ found[u][f] \in Int
    BY LinkFacts DEF ScopedInv, FoundByNow
  <2>2. now \in Nat
    BY LinkFacts
  <2> QED BY <1>1, <2>1, <2>2 DEF FoundByNow
<1>3. AccessIsScoped' /\ ResultsTell'
  BY <1>1 DEF ScopedInv, AccessIsScoped, ResultsTell, Never
<1>4. RequestsTell'
  BY <1>1 DEF RequestsTell
<1> QED BY <1>2, <1>3, <1>4 DEF ScopedInv

LEMMA ScopedStep ==
  ASSUME Typed, Typed', ScopedInv, [Next]_vars
  PROVE  ScopedInv'
<1>1. ASSUME NEW e \in Events,
             \/ IndexingStep(e) /\ UNCHANGED tableVars
             \/ DeleteEvent(e)
      PROVE  ScopedInv'
  <2>1. results' \subseteq results
    BY <1>1 DEF DeleteEvent, tableVars
  <2>2. /\ \A q \in Requests :
             /\ req'[q].pc = req[q].pc /\ req'[q].exp = req[q].exp
             /\ req'[q].user = req[q].user /\ req'[q].files = req[q].files
        /\ UNCHANGED <<linkVars, now>>
    BY <1>1, IndexingTyped, DeleteTyped, DisturbTyped
  <2> QED BY <2>1, <2>2, ScopeUntouched
<1>2. ASSUME NEW q \in Requests,
             \/ \E u \in Users, e \in Events : BeginScan(q, u, e)
             \/ VerifyScan(q) \/ ReadProbe(q) \/ SearchIndex(q) \/ LookUp(q)
      PROVE  ScopedInv'
  <2>1. UNCHANGED <<linkVars, now>> /\ results' = results
    BY <1>2 DEF BeginScan, VerifyScan, ReadProbe, SearchIndex, LookUp, tableVars
  <2>2. OthersSame(q)
    BY <1>2, BeginScanEffect, VerifyScanEffect, ReadProbeEffect, SearchIndexEffect,
       LookUpEffect
  <2>3. now + ThumbTTL \in Nat
    BY LinkFacts, Constants
  <2>4. \/ req'[q].pc \notin {"found", "cached"}
        \/ req'[q].pc = "found" /\ req'[q].exp <= now + ThumbTTL
    BY <1>2, <2>3, BeginScanEffect, VerifyScanEffect, ReadProbeEffect, SearchIndexEffect,
       LookUpEffect DEF Ended
  <2> QED BY <2>1, <2>2, <2>4, ScopeUntouched DEF OthersSame
<1>3. CASE UNCHANGED vars
  BY <1>3, ScopeUntouched DEF vars, tableVars
<1> QED
  BY <1>1, <1>2, <1>3, StoreResultScoped, ReadResultScoped, LinkingScoped, OpenThumbScoped,
     TickScoped DEF Next

\* A user only ever holds links to files that a stored result of his own had, and none
\* outlives that result by more than its own lifetime, whatever is indexed, deleted
\* and asked for in between; a thumbnail on disk is of a file somebody found.
THEOREM AccessStaysScoped == Spec => []AccessIsScoped
<1>1. Init => ScopedInv
  <2>1. ASSUME Init PROVE ScopedInv
    <3>1. NewRequest.pc = "new"
      BY DEF NewRequest
    <3> QED BY <2>1, <3>1, Constants
            DEF Init, ScopedInv, AccessIsScoped, FoundByNow, ResultsTell, RequestsTell
  <2> QED BY <2>1
<1>2. ScopedInv => AccessIsScoped
  BY DEF ScopedInv
<1> QED BY <1>1, <1>2, ScopedStep, TypedStep, InitTyped, PTL DEF Spec

-----------------------------------------------------------------------------
(* The albums are those of FaceAlbum *)

LEMMA PutStep ==
  ASSUME Typed, NEW e \in Events, NEW new, Album!Put(e, new)
  PROVE  Album!Put(e, index'[e] \ index[e])
<1>1. index' = [index EXCEPT ![e] = @ \cup new] /\ index \in [Events -> SUBSET Face]
  BY DEF Album!Put, Typed, TypeOK
<1>2. index'[e] = index[e] \cup new
  BY <1>1
<1> DEFINE added == index'[e] \ index[e]
<1>3. added \subseteq new /\ index[e] \cup added = index[e] \cup new
  BY <1>2
<1>4. index' = [index EXCEPT ![e] = @ \cup added]
  BY <1>1, <1>3
<1> HIDE DEF added
<1>5. Album!Put(e, added)
  BY <1>3, <1>4 DEF Album!Put, Album!Unused, Album!OneFaceEach
<1> QED BY <1>5 DEF added

LEMMA AlbumStep ==
  ASSUME Typed, [Next]_vars
  PROVE  [Album!Next]_Album!vars
<1>1. ASSUME NEW e \in Events, IndexingStep(e) PROVE Album!Next
  <2>1. CASE Album!Create(e) \/ Album!Open(e) \/ Album!Settle(e) \/ Album!Close(e)
    BY <2>1 DEF Album!Next
  <2>2. CASE Album!Adopt(e, Folder[e])
    BY <2>2, FolderAssumption DEF Album!Next
  <2>3. ASSUME NEW f \in todo, Album!Take(e, f) PROVE Album!Next
    <3>1. f \in Files
      BY <2>3 DEF Typed, TypeOK
    <3> QED BY <2>3, <3>1 DEF Album!Next
  <2>4. ASSUME NEW new, Album!Put(e, new) PROVE Album!Next
    <3>1. Album!Put(e, index'[e] \ index[e])
      BY <2>4, PutStep
    <3> QED BY <3>1 DEF Album!Next
  <2> QED BY <1>1, <2>1, <2>2, <2>3, <2>4 DEF IndexingStep
<1>2. ASSUME NEW e \in Events, DeleteEvent(e) PROVE Album!Next
  BY <1>2 DEF DeleteEvent, Album!Next
<1>3. CASE Tick \/ UNCHANGED vars
  BY <1>3 DEF Tick, vars, albumVars, Album!vars
<1> QED
  BY <1>1, <1>2, <1>3, RequestsLeaveAlbums DEF Next, Album!vars

\* Whatever requests do, the albums they search go through the steps of FaceAlbum
\* and no others, which Indexing implements.
THEOREM SearchesAlbums == Spec => Album!Spec
<1>1. Init => Album!Init
  BY DEF Init
<1> QED BY <1>1, AlbumStep, TypedAlways, PTL DEF Spec, Album!Spec

\* So the guarantees of an album hold in every search.
Guarantees == INSTANCE FaceAlbumProofs

LEMMA AlbumsKeepTheirWord ==
  Spec => [](Guarantees!IInv /\ Guarantees!StoresDifferInHand
               /\ Guarantees!IdsStandForFaces /\ Guarantees!RowsAreOwned)
<1>1. Album!Init => Guarantees!Init
  BY DEF Album!Init, Guarantees!Init
<1>2. [Album!Next]_Album!vars => [Guarantees!Next]_Guarantees!vars
  BY DEF Album!vars, Guarantees!vars, Album!Next, Guarantees!Next,
         Album!Create, Album!Open, Album!Adopt, Album!Take, Album!Put, Album!Settle,
         Album!Close, Album!Delete, Album!Scraps, Album!HandsFree, Album!FacesOf,
         Album!Unused, Album!OneFaceEach, Album!Live, Album!Referenced,
         Guarantees!Create, Guarantees!Open, Guarantees!Adopt, Guarantees!Take,
         Guarantees!Put, Guarantees!Settle, Guarantees!Close, Guarantees!Delete,
         Guarantees!Scraps, Guarantees!HandsFree, Guarantees!FacesOf, Guarantees!Unused,
         Guarantees!OneFaceEach, Guarantees!Live, Guarantees!Referenced
<1>3. Album!Spec => Guarantees!Spec
  BY <1>1, <1>2, PTL DEF Album!Spec, Guarantees!Spec
<1> QED BY <1>3, SearchesAlbums, NoneAssumption, Guarantees!OneFileApart,
           Guarantees!IdsAreFaithful, Guarantees!RowsStayOwned, Guarantees!Inductive, PTL

\* What a search relies on: in an album that is ready and has no file in hand the
\* index is the rows, an id is that of one face, and a row's file has an owner.
LEMMA ReadyAlbum ==
  ASSUME Guarantees!IInv, NEW e \in Events, life[e] = "ready"
  PROVE  /\ index[e] = rows[e]
         /\ \A r, s \in rows[e] : r.id = s.id => r = s
         /\ \A r \in rows[e] : owner[r.file] # None
<1>1. hand[e] = None
  BY DEF Guarantees!IInv, Guarantees!OneInHand
<1>2. index[e] = rows[e]
  BY <1>1, NoneAssumption, Guarantees!StoresEqual DEF Guarantees!Live
<1> QED BY <1>2 DEF Guarantees!IInv, Guarantees!RowIds, Guarantees!OfFiles

\* A request finds its files in one way.
LEMMA FoundInLookUp ==
  ASSUME Typed, [Next]_vars, NEW q \in Requests, FoundBy(q)
  PROVE  LookUp(q)
<1>1. req[q].pc = "matched" /\ req'[q].pc = "found"
  BY DEF FoundBy
<1>2. ASSUME NEW p \in Requests, p # q, OthersSame(p) PROVE FALSE
  BY <1>1, <1>2 DEF OthersSame
<1>3. ASSUME NEW e \in Events, IndexingStep(e) \/ DeleteEvent(e) PROVE FALSE
  BY <1>1, <1>3, IndexingTyped, DeleteTyped, DisturbTyped
<1>4. ~Tick /\ ~UNCHANGED vars
  BY <1>1 DEF Tick, vars
<1>5. ASSUME NEW p \in Requests,
         \/ \E u \in Users, e \in Events : BeginScan(p, u, e)
         \/ VerifyScan(p) \/ ReadProbe(p) \/ SearchIndex(p) \/ StoreResult(p)
         \/ \E u \in Users : ReadResult(p, u)
         \/ RespondCached(p)
         \/ \E u \in Users, f \in Files : GetFileUrl(p, u, f) \/ OpenThumb(p, u, f)
      PROVE  FALSE
  <2>1. OthersSame(p) /\ req[p].pc # "matched"
    BY <1>5, BeginScanEffect, VerifyScanEffect, ReadProbeEffect, SearchIndexEffect,
       StoreResultEffect, ReadResultEffect, RespondCachedEffect, MediaEffect
  <2> QED BY <1>1, <1>2, <2>1
<1>6. PICK p \in Requests : LookUp(p)
  BY <1>3, <1>4, <1>5 DEF Next
<1>7. p = q
  BY <1>2, <1>6, LookUpEffect
<1> QED BY <1>6, <1>7

\* A search of what a deletion left of an index, in the API's copy or in a file that a
\* running task saved again, finds no photo: its ids are looked up among the rows of
\* the event, and those are gone, whoever has the ids now.
THEOREM LeftoversStaySilent == Spec => LeftoversFindNothing
<1>1. ASSUME Typed, Guarantees!RowsAreOwned, [Next]_vars,
             NEW q \in Requests, FoundBy(q), ~Album!Live(req[q].event)
      PROVE  req'[q].files = {}
  <2>1. LookUp(q)
    BY <1>1, FoundInLookUp
  <2>2. req[q].event \in Events
        /\ req'[q].files =
             {r.file : r \in {s \in RowsFor(req[q].event) : s.id \in req[q].ids}}
    BY <1>1, <2>1, LookUpEffect
  <2>3. rows[req[q].event] = {}
    BY <1>1, <2>2 DEF Guarantees!RowsAreOwned, Guarantees!Live, Album!Live
  <2> QED BY <2>2, <2>3 DEF RowsFor
<1>2. Typed /\ Guarantees!RowsAreOwned /\ [Next]_vars =>
        [\A q \in Requests :
           FoundBy(q) /\ ~Album!Live(req[q].event) => req'[q].files = {}]_vars
  BY <1>1
<1> QED BY <1>2, TypedAlways, AlbumsKeepTheirWord, PTL DEF Spec, LeftoversFindNothing

-----------------------------------------------------------------------------
(* Fresh scans are exact *)

\* A current copy is the index; a calm scan is of an album that is still ready, and
\* one that is also fresh has found the ids of best matches among its rows.
CopiesAreCurrent == \A e \in Events : current[e] => copy[e] = index[e]
CalmIsReady ==
  \A q \in Requests : req[q].calm =>
    /\ req[q].pc \in {"pipeline", "probed", "read", "matched", "found"}
    /\ life[req[q].event] = "ready"
FreshIsBest ==
  \A q \in Requests : req[q].pc = "matched" /\ req[q].calm /\ req[q].fresh =>
    req[q].ids \in BestMatches(rows[req[q].event], req[q].who)

FreshInv == CopiesAreCurrent /\ CalmIsReady /\ FreshIsBest

\* Only a step of an album changes what searches see of it.
LEMMA IndexingOfOne ==
  ASSUME Typed, NEW e \in Events, IndexingStep(e) \/ DeleteEvent(e)
  PROVE  /\ \A d \in Events : d # e =>
              life'[d] = life[d] /\ rows'[d] = rows[d] /\ index'[d] = index[d]
         /\ \E saved \in BOOLEAN :
              Disturb(e, saved) /\ (index'[e] # index[e] => saved)
<1>a. AlbumTyped
  BY TypedParts
<1>1. CASE Album!Create(e) \/ Album!Open(e) \/ Album!Close(e) \/ Album!Settle(e)
             \/ Album!Adopt(e, Folder[e]) \/ Album!Delete(e)
  <2>1. /\ \A d \in Events : d # e =>
             life'[d] = life[d] /\ rows'[d] = rows[d] /\ index'[d] = index[d]
        /\ index' = index
    BY <1>a, <1>1 DEF Album!Create, Album!Open, Album!Close, Album!Settle, Album!Adopt,
                      Album!Delete, AlbumTyped
  <2>2. \E saved \in BOOLEAN : Disturb(e, saved)
    BY IndexingTyped, DeleteTyped
  <2> QED BY <2>1, <2>2
<1>2. ASSUME NEW f \in todo, Album!Take(e, f), Disturb(e, index'[e] # index[e])
      PROVE  /\ \A d \in Events : d # e =>
                  life'[d] = life[d] /\ rows'[d] = rows[d] /\ index'[d] = index[d]
             /\ \E saved \in BOOLEAN :
                  Disturb(e, saved) /\ (index'[e] # index[e] => saved)
  BY <1>a, <1>2 DEF Album!Take, AlbumTyped
<1>3. ASSUME NEW new, Album!Put(e, new), Disturb(e, TRUE)
      PROVE  /\ \A d \in Events : d # e =>
                  life'[d] = life[d] /\ rows'[d] = rows[d] /\ index'[d] = index[d]
             /\ \E saved \in BOOLEAN :
                  Disturb(e, saved) /\ (index'[e] # index[e] => saved)
  BY <1>a, <1>3 DEF Album!Put, AlbumTyped
<1> QED BY <1>1, <1>2, <1>3 DEF IndexingStep, DeleteEvent

LEMMA CurrentStep ==
  ASSUME Typed, CopiesAreCurrent, [Next]_vars
  PROVE  CopiesAreCurrent'
<1>1. ASSUME NEW e \in Events, IndexingStep(e) \/ DeleteEvent(e) PROVE CopiesAreCurrent'
  <2>1. PICK saved \in BOOLEAN : Disturb(e, saved) /\ (index'[e] # index[e] => saved)
    BY <1>1, IndexingOfOne
  <2>2. /\ \A d \in Events : current'[d] = (current[d] /\ ~(saved /\ d = e))
        /\ copy' = copy
    BY <2>1, DisturbTyped
  <2>3. \A d \in Events : d # e => index'[d] = index[d]
    BY <1>1, IndexingOfOne
  <2> QED BY <2>1, <2>2, <2>3 DEF CopiesAreCurrent
<1>2. ASSUME NEW q \in Requests, SearchIndex(q) PROVE CopiesAreCurrent'
  <2> DEFINE e == req[q].event
  <2>1. index' = index
    BY <1>2, RequestsLeaveAlbums
  <2>2. e \in Events /\ LoadIndex(e)
    BY <1>2, SearchIndexEffect
  <2>3. \A d \in Events : d # e /\ current'[d] => copy'[d] = index[d]
    BY <2>2, LoadTyped DEF CopiesAreCurrent
  <2>4. current'[e] => LoadedIndex(e) = index[e]
    BY <2>2, LoadTyped DEF CopiesAreCurrent, LoadedIndex
  <2>5. copy'[e] = LoadedIndex(e)
    BY <2>2, LoadTyped
  <2> QED BY <2>1, <2>3, <2>4, <2>5 DEF CopiesAreCurrent
<1>3. ASSUME UNCHANGED <<apiVars, index>> PROVE CopiesAreCurrent'
  BY <1>3 DEF apiVars, CopiesAreCurrent
<1> QED
  BY <1>1, <1>2, <1>3, RequestsLeaveAlbums
     DEF Next, BeginScan, VerifyScan, ReadProbe, LookUp, StoreResult, ReadResult,
         RespondCached, GetFileUrl, OpenThumb, Tick, vars, albumVars

\* What a fresh and calm search returns are best matches among the rows.
LEMMA SearchIsBest ==
  ASSUME Typed, CopiesAreCurrent, CalmIsReady, Guarantees!IInv,
         NEW q \in Requests, SearchIndex(q),
         req'[q].pc = "matched", req'[q].calm, req'[q].fresh
  PROVE  req'[q].ids \in BestMatches(rows[req'[q].event], req'[q].who)
<1> DEFINE e == req[q].event
<1>1. /\ LoadIndex(e) /\ e \in Events /\ req'[q].event = e /\ req'[q].who = req[q].who
      /\ req[q].calm /\ current'[e]
      /\ req'[q].ids \in BestMatches(LoadedIndex(e), req[q].who)
  BY SearchIndexEffect
<1>2. LoadedIndex(e) = index[e]
  BY <1>1, LoadTyped DEF CopiesAreCurrent, LoadedIndex
<1>3. index[e] = rows[e]
  BY <1>1, ReadyAlbum DEF CalmIsReady
<1> QED BY <1>1, <1>2, <1>3

LEMMA FreshStep ==
  ASSUME Typed, FreshInv, Guarantees!IInv, [Next]_vars
  PROVE  FreshInv'
<1>c. CopiesAreCurrent /\ CalmIsReady /\ FreshIsBest
  BY DEF FreshInv
<1>d. CopiesAreCurrent'
  BY <1>c, CurrentStep
<1>1. ASSUME NEW e \in Events, IndexingStep(e) \/ DeleteEvent(e)
      PROVE  CalmIsReady' /\ FreshIsBest'
  <2>1. \A q \in Requests :
          /\ req'[q].pc = req[q].pc /\ req'[q].event = req[q].event
          /\ req'[q].who = req[q].who /\ req'[q].ids = req[q].ids
          /\ req'[q].fresh = req[q].fresh
          /\ req'[q].calm = (req[q].calm /\ req[q].event # e)
    BY <1>1, IndexingTyped, DeleteTyped, DisturbTyped
  <2>2. \A d \in Events : d # e => life'[d] = life[d] /\ rows'[d] = rows[d]
    BY <1>1, IndexingOfOne
  <2>3. \A q \in Requests : req[q].calm => req[q].event \in Events
    BY <1>c DEF CalmIsReady, Typed, Named
  <2>4. CalmIsReady'
    <3>1. ASSUME NEW q \in Requests, req'[q].calm
          PROVE  /\ req'[q].pc \in {"pipeline", "probed", "read", "matched", "found"}
                 /\ life'[req'[q].event] = "ready"
      <4>1. req[q].calm /\ req[q].event # e /\ req[q].event \in Events
        BY <2>1, <2>3, <3>1
      <4> QED BY <1>c, <2>1, <2>2, <4>1 DEF CalmIsReady
    <3> QED BY <3>1 DEF CalmIsReady
  <2>5. ASSUME NEW q \in Requests, req'[q].pc = "matched", req'[q].calm, req'[q].fresh
        PROVE  req'[q].ids \in BestMatches(rows'[req'[q].event], req'[q].who)
    <3>1. req[q].ids \in BestMatches(rows[req[q].event], req[q].who)
      BY <1>c, <2>1, <2>5 DEF FreshIsBest
    <3>2. rows'[req'[q].event] = rows[req[q].event]
      BY <2>1, <2>2, <2>3, <2>5
    <3> QED BY <2>1, <3>1, <3>2
  <2> QED BY <2>4, <2>5 DEF FreshIsBest, BestMatches
<1>2. ASSUME NEW q \in Requests, OthersSame(q), UNCHANGED <<life, rows>>,
             req'[q].calm =>
               /\ req'[q].pc \in {"pipeline", "probed", "read", "matched", "found"}
               /\ life[req'[q].event] = "ready",
             req'[q].pc = "matched" /\ req'[q].calm /\ req'[q].fresh =>
               req'[q].ids \in BestMatches(rows[req'[q].event], req'[q].who)
      PROVE  CalmIsReady' /\ FreshIsBest'
  <2>1. CalmIsReady'
    BY <1>c, <1>2 DEF CalmIsReady, OthersSame
  <2>2. ASSUME NEW p \in Requests, req'[p].pc = "matched", req'[p].calm, req'[p].fresh
        PROVE  req'[p].ids \in BestMatches(rows'[req'[p].event], req'[p].who)
    BY <1>c, <1>2, <2>2 DEF FreshIsBest, OthersSame
  <2> QED BY <2>1, <2>2 DEF FreshIsBest, BestMatches
<1>3. ASSUME NEW q \in Requests,
         \/ \E u \in Users, e \in Events : BeginScan(q, u, e)
         \/ VerifyScan(q) \/ ReadProbe(q) \/ LookUp(q) \/ StoreResult(q)
         \/ \E u \in Users : ReadResult(q, u)
         \/ RespondCached(q)
         \/ \E u \in Users, f \in Files : GetFileUrl(q, u, f) \/ OpenThumb(q, u, f)
      PROVE  CalmIsReady' /\ FreshIsBest'
  <2>1. OthersSame(q)
    BY <1>3, BeginScanEffect, VerifyScanEffect, ReadProbeEffect, LookUpEffect,
       StoreResultEffect, ReadResultEffect, RespondCachedEffect, MediaEffect
  <2>2. /\ req'[q].pc # "matched"
        /\ req'[q].calm =>
             /\ req'[q].pc \in {"pipeline", "probed", "read", "matched", "found"}
             /\ life[req'[q].event] = "ready"
    BY <1>c, <1>3, BeginScanEffect, VerifyScanEffect, ReadProbeEffect, LookUpEffect,
       StoreResultEffect, ReadResultEffect, RespondCachedEffect, MediaEffect
       DEF Ended, CalmIsReady
  <2> QED BY <1>2, <1>3, <2>1, <2>2, RequestsLeaveAlbums
<1>4. ASSUME NEW q \in Requests, SearchIndex(q) PROVE CalmIsReady' /\ FreshIsBest'
  <2>1. OthersSame(q) /\ UNCHANGED <<life, rows>>
    BY <1>4, SearchIndexEffect, RequestsLeaveAlbums
  <2>2. req'[q].calm =>
          /\ req'[q].pc \in {"pipeline", "probed", "read", "matched", "found"}
          /\ life[req'[q].event] = "ready"
    BY <1>c, <1>4, SearchIndexEffect DEF CalmIsReady
  <2>3. req'[q].pc = "matched" /\ req'[q].calm /\ req'[q].fresh =>
          req'[q].ids \in BestMatches(rows[req'[q].event], req'[q].who)
    BY <1>c, <1>4, SearchIsBest
  <2> QED BY <1>2, <2>1, <2>2, <2>3
<1>5. ASSUME Tick \/ UNCHANGED vars PROVE CalmIsReady' /\ FreshIsBest'
  <2>1. UNCHANGED <<life, rows, req>>
    BY <1>5 DEF Tick, vars, albumVars
  <2>2. CalmIsReady'
    BY <1>c, <2>1 DEF CalmIsReady
  <2>3. ASSUME NEW p \in Requests, req'[p].pc = "matched", req'[p].calm, req'[p].fresh
        PROVE  req'[p].ids \in BestMatches(rows'[req'[p].event], req'[p].who)
    BY <1>c, <2>1, <2>3 DEF FreshIsBest
  <2> QED BY <2>2, <2>3 DEF FreshIsBest, BestMatches
<1> QED BY <1>d, <1>1, <1>3, <1>4, <1>5 DEF Next, FreshInv

LEMMA FacesAreFinite ==
  ASSUME NEW S \in SUBSET Face, \A r, s \in S : r.id = s.id => r = s
  PROVE  IsFiniteSet(S)
<1> DEFINE idOf == [x \in S |-> x.id]
<1>1. idOf \in Injection(S, 1..MaxId)
  BY DEF Injection, IsInjective, Face
<1>2. IsFiniteSet(1..MaxId)
  BY Constants, FS_Interval
<1> HIDE DEF idOf
<1> QED BY <1>1, <1>2, FS_Injection

\* As long as top_k is not exceeded, the best matches are all matches.
LEMMA BestOfFew ==
  ASSUME NEW S \in SUBSET Face, \A r, s \in S : r.id = s.id => r = s, NEW who,
         Cardinality({x \in S : x.who \in who}) <= TopK,
         NEW ids \in BestMatches(S, who)
  PROVE  ids = {x.id : x \in {y \in S : y.who \in who}}
<1> DEFINE matching == {x \in S : x.who \in who}
<1>1. IsFiniteSet(matching) /\ Cardinality(matching) \in Nat
  BY FacesAreFinite, FS_Subset, FS_CardinalityType
<1>2. PICK best \in SUBSET matching :
        /\ ids = {x.id : x \in best}
        /\ Cardinality(best) = Min({TopK, Cardinality(matching)})
  BY DEF BestMatches
<1>3. Min({TopK, Cardinality(matching)}) = Cardinality(matching)
  <2>1. \A a, b \in Int : a <= b => Min({b, a}) = a
    BY DEF Min
  <2>2. Cardinality(matching) <= TopK
    OBVIOUS
  <2> HIDE DEF matching
  <2> QED BY <1>1, <2>1, <2>2, Constants
<1>4. best = matching
  <2> HIDE DEF matching
  <2> QED BY <1>1, <1>2, <1>3, FS_Subset
<1> QED BY <1>2, <1>4

\* A scan of an album that is ready and left alone, answered from a copy loaded since
\* its last save, returns exactly the photos that show the person, unless top_k is
\* exceeded: whatever happens to other albums, in any cache and with any files shared.
THEOREM FreshScansExact == Spec => FreshScansAreExact
<1>1. ASSUME Typed, FreshInv, Guarantees!IInv, [Next]_vars, NEW q \in Requests,
             FoundBy(q), req[q].calm, req[q].fresh, ~Crowded(req[q].event, req[q].who)
      PROVE  req'[q].files = FilesShowing(req[q].event, req[q].who)
  <2>1. LookUp(q)
    BY <1>1, FoundInLookUp
  <2> DEFINE e == req[q].event
             who == req[q].who
             matching == {x \in rows[e] : x.who \in who}
  <2>2. e \in Events /\ life[e] = "ready" /\ req[q].ids \in BestMatches(rows[e], who)
    BY <1>1, <2>1, LookUpEffect DEF FreshInv, CalmIsReady, FreshIsBest
  <2>3. /\ rows[e] \in SUBSET Face
        /\ \A r, s \in rows[e] : r.id = s.id => r = s
        /\ \A r \in rows[e] : owner[r.file] # None
    BY <1>1, <2>2, ReadyAlbum DEF Typed, TypeOK
  <2>4. Cardinality(matching) <= TopK
    <3>1. IsFiniteSet(matching)
      BY <2>3, FacesAreFinite, FS_Subset
    <3>2. Cardinality(matching) \in Nat
      BY <3>1, FS_CardinalityType
    <3> QED BY <1>1, <3>2, Constants DEF Crowded
  <2>5. req[q].ids = {x.id : x \in matching}
    BY <2>2, <2>3, <2>4, BestOfFew
  <2>6. {s \in RowsFor(e) : s.id \in req[q].ids} = matching
    BY <2>3, <2>5 DEF RowsFor
  <2>7. req'[q].files = {r.file : r \in {s \in RowsFor(e) : s.id \in req[q].ids}}
    BY <1>1, <2>1, LookUpEffect
  <2> QED BY <2>6, <2>7 DEF FilesShowing
<1>2. Typed /\ FreshInv /\ Guarantees!IInv /\ [Next]_vars =>
        [\A q \in Requests :
           FoundBy(q) /\ req[q].calm /\ req[q].fresh
                      /\ ~Crowded(req[q].event, req[q].who) =>
             req'[q].files = FilesShowing(req[q].event, req[q].who)]_vars
  BY <1>1
<1>3. Init => FreshInv
  BY DEF Init, NewRequest, FreshInv, CopiesAreCurrent, CalmIsReady, FreshIsBest
<1>4. Typed /\ FreshInv /\ Guarantees!IInv /\ [Next]_vars => FreshInv'
  BY FreshStep
<1> QED
  BY <1>2, <1>3, <1>4, TypedAlways, AlbumsKeepTheirWord, PTL DEF Spec, FreshScansAreExact
=============================================================================
