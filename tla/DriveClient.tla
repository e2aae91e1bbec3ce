---------------------------- MODULE DriveClient -----------------------------
(***************************************************************************)
(* The Google Drive client (backend/app/drive/client.py) under a batch of  *)
(* concurrent fetches: the coroutines that asyncio.gather runs share one   *)
(* DriveClient and its access_token, each refreshes the token when a       *)
(* request of its own is refused, and whoever assigns last wins.           *)
(*                                                                         *)
(* One action is one span between two awaits: a request is sent with the   *)
(* token of that moment and Google answers it, the answer is handled, a    *)
(* refresh obtains a token, the token is assigned.                         *)
(***************************************************************************)
EXTENDS Integers, Sequences, FiniteSets

CONSTANTS
  Fetches,         \* the coroutines that share the client, one fetch each
  Plans,           \* of a fetch: what it may try, in order, until one succeeds
  Attempts,        \* of _request_with_retry, 4 in the code: range(4)
  Delays,          \* of download_file, 3 in the code: for delay in (2, 4, 8)
  Pages,           \* number of pages of a folder listing
  HasRefresh,      \* refresh_token_encrypted is set
  HasKey,          \* api_key is set
  MaxExpiries      \* bound: access tokens that expire or are revoked

Operations == {"list", "download", "fresh_thumbnail", "thumbnail"}

ASSUME PlansAssumption ==
  DOMAIN Plans = Fetches /\ \A c \in Fetches : Plans[c] \subseteq Seq(Operations) \ {<<>>}
ASSUME LimitsAssumption == Attempts \in Nat \ {0} /\ Delays \in Nat \ {0}
ASSUME PagesAssumption == Pages \in Nat \ {0}
ASSUME ClientAssumption == HasRefresh \in BOOLEAN /\ HasKey \in BOOLEAN
ASSUME MaxExpiriesAssumption == MaxExpiries \in Nat

VARIABLES
  access_token,    \* the client's, by what Google thinks of it
  expiries,        \* history: how many access tokens have expired
  fetch            \* the local state of each coroutine

vars == <<access_token, expiries, fetch>>

\* A token is in one place at a time (the client's field, or the coroutine that
\* just obtained it), so only its standing needs to be kept.
Standing == {"none", "live", "expired"}

Status == {200, 401, 429, 500}       \* 500: any other error, or a timeout

\* Where a coroutine is in its operation: the stages list, size, link and again
\* go through _request_with_retry, media is the stream, cdn the thumbnail host.
Retried == {"list", "size", "link", "again"}
Stage == Retried \cup {"enter", "media", "cdn"}

\* sent, denied and limited are history: requests of the operation, and of the
\* current _request_with_retry the answers 401 and 429.
Fetch ==
  [pc : {"idle", "request", "answered", "refresh", "assign", "done", "failed"},
   plan : Seq(Operations), stage : Stage, status : Status,
   attempt : 0..Attempts, refreshed : BOOLEAN, page : 1..Pages, delay : 0..Delays,
   token : Standing, sent : Nat, denied : Nat, limited : Nat]

Idle ==
  [pc |-> "idle", plan |-> <<>>, stage |-> "enter", status |-> 200, attempt |-> 0,
   refreshed |-> FALSE, page |-> 1, delay |-> 0, token |-> "none", sent |-> 0,
   denied |-> 0, limited |-> 0]

Init ==
  /\ access_token = "none"
  /\ expiries = 0
  /\ fetch = [c \in Fetches |-> Idle]

-----------------------------------------------------------------------------
(* Where an operation goes on *)

\* A call of _request_with_retry, or a plain request, begins.
NewRequest(r, stage) ==
  [r EXCEPT !.pc = "request", !.stage = stage, !.attempt = 0, !.refreshed = FALSE,
            !.denied = 0, !.limited = 0]

Operation(r) == Head(r.plan)

\* An operation after its _ensure_access.
AfterEnsure(r) ==
  NewRequest(r, CASE Operation(r) = "list" -> "list"
                  [] Operation(r) = "download" -> "size"
                  [] Operation(r) = "fresh_thumbnail" -> "link"
                  [] Operation(r) = "thumbnail" -> "cdn")

\* Only get_thumbnail needs no credential, and no plan comes to it late: without
\* one every operation that is left raises.
Ensured(r, token) ==
  IF Operation(r) = "thumbnail" \/ token # "none" \/ (HasKey /\ ~HasRefresh)
    THEN AfterEnsure(r)
    ELSE IF HasRefresh THEN [r EXCEPT !.pc = "refresh", !.stage = "enter"]
                       ELSE [Idle EXCEPT !.pc = "failed"]

Done(r) == [Idle EXCEPT !.pc = "done"]
\* The operation raises: the except clause of the fetch tries the next one.
Raise(r) ==
  IF Len(r.plan) > 1
    THEN Ensured([Idle EXCEPT !.plan = Tail(r.plan)], access_token)
    ELSE [Idle EXCEPT !.pc = "failed", !.stage = r.stage, !.status = r.status,
                      !.denied = r.denied, !.limited = r.limited]

\* Where _request_with_retry returns to: list_files collects the page,
\* download_file goes on to the stream, the 429 loop of it to its next delay,
\* get_fresh_thumbnail_bytes to the link it got.  A page, a size or a link may
\* also be one that ends the operation.
Returned(r, status) ==
  IF r.stage = "again" /\ status = 429 /\ r.delay < Delays
    THEN {NewRequest([r EXCEPT !.delay = @ + 1], "again")}
  ELSE IF status # 200
    THEN {Raise(r)}
  ELSE CASE r.stage = "list" ->
              IF r.page < Pages THEN {NewRequest([r EXCEPT !.page = @ + 1], "list")}
                                ELSE {Done(r)}
         [] r.stage = "size" -> {NewRequest(r, "media"), Raise(r)}
         [] r.stage = "link" -> {NewRequest(r, "cdn"), Raise(r)}
         [] r.stage = "again" -> {Done(r), Raise(r)}

-----------------------------------------------------------------------------
(* The steps of a coroutine *)

Goes(c, S) == \E r \in S : fetch' = [fetch EXCEPT ![c] = r]

StartFetch(c) ==
  /\ fetch[c].pc = "idle"
  /\ \E plan \in Plans[c] :
       Goes(c, {Ensured([Idle EXCEPT !.plan = plan], access_token)})
  /\ UNCHANGED <<access_token, expiries>>

\* Google refuses a request without a credential or with an expired token; it may
\* limit any request or fail.  The thumbnail host sees no token.
Refused == access_token = "expired" \/ (access_token = "none" /\ ~HasKey)
Answers(stage) ==
  IF stage = "cdn" THEN {200, 500}
  ELSE {429, 500, IF Refused THEN 401 ELSE 200}

Request(c) ==
  /\ fetch[c].pc = "request"
  /\ Goes(c, {[fetch[c] EXCEPT !.pc = "answered", !.status = s, !.sent = @ + 1] :
                s \in Answers(fetch[c].stage)})
  /\ UNCHANGED <<access_token, expiries>>

\* The loop body of _request_with_retry after an answer.
FlagSwappedBug(r) == r.status = 401 /\ r.refreshed /\ HasRefresh
MayRefresh(r) == r.status = 401 /\ ~r.refreshed /\ HasRefresh
NoLimitBug(r) == r.status = 429
MayWait(r) == r.status = 429 /\ r.attempt < Attempts - 1

HandleRetried(c) ==
  LET r == [fetch[c] EXCEPT !.denied = @ + (IF fetch[c].status = 401 THEN 1 ELSE 0),
                            !.limited = @ + (IF fetch[c].status = 429 THEN 1 ELSE 0)]
  IN
  /\ r.pc = "answered" /\ r.stage \in Retried
  /\ \/ MayRefresh(r) /\ Goes(c, {[r EXCEPT !.pc = "refresh"]})
     \/ MayWait(r) /\ Goes(c, {[r EXCEPT !.pc = "request", !.attempt = @ + 1]})
     \/ ~MayRefresh(r) /\ ~MayWait(r) /\ Goes(c, Returned(r, r.status))
  /\ UNCHANGED <<access_token, expiries>>

\* download_file after the stream has answered: a 401 refreshes and downloads
\* again from the start, without a limit; a 429 waits and asks again, three
\* times; a body that grows too large raises.
HandleStream(c) ==
  LET r == fetch[c] IN
  /\ r.pc = "answered" /\ r.stage = "media"
  /\ \/ r.status = 401 /\ HasRefresh /\ Goes(c, {[r EXCEPT !.pc = "refresh"]})
     \/ r.status = 429 /\ Goes(c, {NewRequest([r EXCEPT !.delay = 1], "again")})
     \/ r.status = 200 /\ Goes(c, {Done(r), Raise(r)})
     \/ /\ r.status = 500 \/ (r.status = 401 /\ ~HasRefresh)
        /\ Goes(c, {Raise(r)})
  /\ UNCHANGED <<access_token, expiries>>

HandleThumbnail(c) ==
  LET r == fetch[c] IN
  /\ r.pc = "answered" /\ r.stage = "cdn"
  /\ \/ r.status = 200 /\ Goes(c, {Done(r)})
     \/ r.status # 200 /\ Goes(c, {Raise(r)})
  /\ UNCHANGED <<access_token, expiries>>

\* refresh_access_token: Google issues one more token, or the call raises.
Refresh(c) ==
  /\ fetch[c].pc = "refresh"
  /\ Goes(c, {[fetch[c] EXCEPT !.pc = "assign", !.token = "live"],
              Raise([fetch[c] EXCEPT !.status = 500])})
  /\ UNCHANGED <<access_token, expiries>>

\* self.access_token = ..., whatever another coroutine assigned meanwhile.
\* A refresh on the last attempt leaves the loop with the 401 in hand.
Assign(c) ==
  LET r == [fetch[c] EXCEPT !.token = "none"] IN
  /\ r.pc = "assign"
  /\ access_token' = fetch[c].token
  /\ \/ r.stage = "enter" /\ Goes(c, {AfterEnsure(r)})
     \/ r.stage = "media" /\ Goes(c, {AfterEnsure([r EXCEPT !.delay = 0])})
     \/ /\ r.stage \in Retried /\ r.attempt < Attempts - 1
        /\ Goes(c, {[r EXCEPT !.pc = "request", !.refreshed = TRUE,
                              !.attempt = @ + 1]})
     \/ /\ r.stage \in Retried /\ r.attempt = Attempts - 1
        /\ Goes(c, Returned(r, 401))
  /\ UNCHANGED expiries

\* A token's time is over, or it is revoked.
Expire ==
  /\ expiries < MaxExpiries
  /\ expiries' = expiries + 1
  /\ \/ /\ access_token = "live"
        /\ access_token' = "expired"
        /\ UNCHANGED fetch
     \/ \E c \in Fetches :
          /\ fetch[c].token = "live"
          /\ fetch' = [fetch EXCEPT ![c].token = "expired"]
          /\ UNCHANGED access_token

FetchStep(c) ==
  \/ StartFetch(c)
  \/ Request(c)
  \/ HandleRetried(c)
  \/ HandleStream(c)
  \/ HandleThumbnail(c)
  \/ Refresh(c)
  \/ Assign(c)

Next == (\E c \in Fetches : FetchStep(c)) \/ Expire

Spec == Init /\ [][Next]_vars

\* The event loop runs every coroutine that can go on, and every request is
\* answered or times out.
FairSpec == Spec /\ \A c \in Fetches : WF_vars(FetchStep(c))

-----------------------------------------------------------------------------
(* Properties *)

\* Every variable keeps its type.
TypeOK ==
  /\ access_token \in Standing /\ expiries \in 0..MaxExpiries
  /\ fetch \in [Fetches -> Fetch]

\* Restarting a download has no limit in the code, and still a fetch does not
\* flood Drive.  A listing sends at most Attempts requests for a page; a download
\* sends at most one pass (the size, the stream, the repeats after each delay)
\* and one more for every token that expired meanwhile, whatever tokens the
\* other coroutines assign.
OnePass == Attempts + 1 + Delays * Attempts
Quota(operation) ==
  CASE operation = "list" -> Pages * Attempts
    [] operation = "download" -> (1 + expiries) * OnePass
    [] operation = "fresh_thumbnail" -> Attempts + 1
    [] operation = "thumbnail" -> 1
RequestsBounded ==
  \A c \in Fetches :
    fetch[c].plan # <<>> => fetch[c].sent <= Quota(Operation(fetch[c]))

\* A refused token is no reason to give up: an operation that ends with a 401
\* though the client can refresh was refused twice in one request, or had spent
\* all attempts before the last on 429.
Unauthorized(c) ==
  fetch[c].pc = "failed" /\ fetch[c].status = 401 /\ fetch[c].stage \in Retried
TwoChances ==
  \A c \in Fetches : Unauthorized(c) /\ HasRefresh =>
    fetch[c].denied >= 2 \/ fetch[c].limited = Attempts - 1

\* Every fetch ends, whatever expires under it.
FetchesEnd == \A c \in Fetches : <>(fetch[c].pc \in {"done", "failed"})

=============================================================================
