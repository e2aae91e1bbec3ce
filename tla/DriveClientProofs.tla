------------------------- MODULE DriveClientProofs --------------------------
(***************************************************************************)
(* Proofs about DriveClient, for every number of coroutines, attempts,     *)
(* delays, pages and expired tokens.                                       *)
(***************************************************************************)
EXTENDS DriveClient, FiniteSetTheorems, SequenceTheorems, TLAPS

Active == {"request", "answered", "refresh", "assign"}
Busy(r) == r.pc \in Active

\* The stages of an operation; a delay is under way in the last one.
StageFits(r) ==
  /\ r.stage = "list" => Operation(r) = "list"
  /\ r.stage \in {"size", "media", "again"} => Operation(r) = "download"
  /\ r.stage = "link" => Operation(r) = "fresh_thumbnail"
  /\ r.stage = "cdn" => /\ Operation(r) \in {"fresh_thumbnail", "thumbnail"}
                        /\ r.pc \in {"request", "answered"}
  /\ r.stage = "enter" => r.sent = 0 /\ r.pc \in {"refresh", "assign"}
  /\ r.stage = "again" => r.delay >= 1

\* The attempts of a _request_with_retry are its refusals and its waits, and the
\* first refusal is followed by the refresh.
Chances(r) ==
  r.stage \in Retried =>
    /\ r.attempt < Attempts
    /\ r.pc \in {"request", "answered"} =>
         /\ r.denied = (IF r.refreshed THEN 1 ELSE 0)
         /\ r.attempt = r.limited + r.denied
    /\ r.pc \in {"refresh", "assign"} =>
         r.status = 401 /\ r.denied = 1 /\ r.attempt = r.limited

\* A 401 may end an operation only after these.
GivenUp(r) ==
  r.status = 401 /\ r.stage \in Retried /\ HasRefresh =>
    r.denied >= 2 \/ r.limited = Attempts - 1

\* What is known of a coroutine whatever the others do.
Good(r) ==
  /\ r \in Fetch
  /\ Busy(r) <=> r.plan # <<>>
  /\ r.pc = "assign" <=> r.token # "none"
  /\ Busy(r) => StageFits(r) /\ Chances(r)
  /\ r.pc \in {"refresh", "assign"} => HasRefresh
  /\ r.pc = "failed" => GivenUp(r)

\* A coroutine past its _ensure_access finds a credential, for good.
Equipped(r, token) ==
  Busy(r) /\ r.stage \notin {"enter", "cdn"} =>
    token # "none" \/ (HasKey /\ ~HasRefresh)

LEMMA Constants ==
  /\ Attempts \in Nat \ {0} /\ Delays \in Nat \ {0} /\ Pages \in Nat \ {0}
  /\ HasRefresh \in BOOLEAN /\ HasKey \in BOOLEAN /\ MaxExpiries \in Nat
BY LimitsAssumption, PagesAssumption, ClientAssumption, MaxExpiriesAssumption

LEMMA FirstAndRest ==
  ASSUME NEW plan \in Seq(Operations), plan # <<>>
  PROVE  /\ Head(plan) \in Operations
         /\ Len(plan) \in Nat /\ Len(plan) >= 1
         /\ Len(plan) > 1 => Tail(plan) \in Seq(Operations) /\ Tail(plan) # <<>>
<1>1. Len(plan) \in Nat /\ Len(plan) # 0
  BY EmptySeq
<1>2. /\ Head(plan) \in Operations /\ Tail(plan) \in Seq(Operations)
      /\ Len(Tail(plan)) = Len(plan) - 1
  BY HeadTailProperties
<1>3. Len(plan) > 1 => Len(Tail(plan)) # 0
  BY <1>1, <1>2
<1>4. Len(<<>>) = 0
  OBVIOUS
<1> QED BY <1>1, <1>2, <1>3, <1>4

-----------------------------------------------------------------------------
(* The costs of an operation, in requests *)

PageCost(p) == (p - 1) * Attempts
DelayCost(d) == (d - 1) * Attempts
PassCost(k) == k * OnePass

LEMMA Multiples ==
  ASSUME NEW a \in Nat, NEW i \in Nat, NEW j \in Nat, i <= j
  PROVE  i * a \in Nat /\ i * a <= j * a /\ (i + 1) * a = i * a + a
<1>1. PICK n \in Nat : j = i + n
  <2>1. j - i \in Nat /\ j = i + (j - i)
    OBVIOUS
  <2> QED BY <2>1
<1>2. i * a \in Nat /\ n * a \in Nat /\ (i + n) * a = i * a + n * a
  OBVIOUS
<1>3. (i + 1) * a = i * a + a
  OBVIOUS
<1> QED BY <1>1, <1>2, <1>3

LEMMA OnePassCost ==
  /\ OnePass \in Nat
  /\ OnePass >= Attempts + 1
  /\ \A d \in 1..Delays : DelayCost(d) + 2 * Attempts + 1 <= OnePass
<1> DEFINE D == Delays * Attempts
<1>1. D \in Nat /\ OnePass = Attempts + 1 + D
  BY Constants, Multiples DEF OnePass
<1>2. ASSUME NEW d \in 1..Delays PROVE DelayCost(d) + Attempts <= D
  <2>1. d - 1 \in Nat /\ d \in Nat /\ d <= Delays /\ Attempts \in Nat /\ (d - 1) + 1 = d
    BY Constants
  <2>2. (d - 1) * Attempts + Attempts = d * Attempts
    BY <2>1, Multiples
  <2>3. d * Attempts <= Delays * Attempts
    BY <2>1, Multiples, Constants
  <2> QED BY <2>1, <2>2, <2>3, Multiples DEF DelayCost
<1>3. \A d \in 1..Delays : DelayCost(d) \in Nat
  BY Multiples, Constants DEF DelayCost
<1> HIDE DEF D
<1> QED BY <1>1, <1>2, <1>3, Constants

LEMMA StepCost ==
  /\ \A p \in 1..Pages : PageCost(p) \in Nat /\ PageCost(p + 1) = PageCost(p) + Attempts
                         /\ PageCost(p) + Attempts <= Pages * Attempts
  /\ \A d \in 1..Delays : DelayCost(d) \in Nat
                          /\ DelayCost(d + 1) = DelayCost(d) + Attempts
  /\ PageCost(1) = 0 /\ DelayCost(1) = 0 /\ PassCost(0) = 0
  /\ \A k \in Nat : PassCost(k) \in Nat /\ PassCost(k + 1) = PassCost(k) + OnePass
                    /\ \A n \in Nat : k <= n => PassCost(k) <= PassCost(n)
<1>1. \A p \in Nat \ {0} : p - 1 \in Nat /\ (p - 1) + 1 = p /\ (p + 1) - 1 = p
  OBVIOUS
<1>2. \A n \in Nat \ {0} : /\ (n - 1) * Attempts \in Nat
                           /\ n * Attempts = (n - 1) * Attempts + Attempts
  BY <1>1, Multiples, Constants
<1>3. \A p \in 1..Pages : p * Attempts <= Pages * Attempts
  BY Multiples, Constants
<1>4. \A p \in 1..Pages : PageCost(p) \in Nat /\ PageCost(p + 1) = PageCost(p) + Attempts
                          /\ PageCost(p) + Attempts <= Pages * Attempts
  BY <1>1, <1>2, <1>3, Constants DEF PageCost
<1>5. \A d \in 1..Delays : DelayCost(d) \in Nat /\ DelayCost(d + 1) = DelayCost(d) + Attempts
  BY <1>1, <1>2, Constants DEF DelayCost
<1>6. PageCost(1) = 0 /\ DelayCost(1) = 0 /\ PassCost(0) = 0
  BY Constants, OnePassCost DEF PageCost, DelayCost, PassCost
<1>7. \A k \in Nat : PassCost(k) \in Nat /\ PassCost(k + 1) = PassCost(k) + OnePass
                     /\ \A n \in Nat : k <= n => PassCost(k) <= PassCost(n)
  BY Multiples, OnePassCost DEF PassCost
<1> QED BY <1>4, <1>5, <1>6, <1>7

\* What an operation has sent at most in the pass it is in.
Begun(r) == IF r.pc = "request" THEN 0 ELSE 1
Sent(r, n) == r.sent <= n + Begun(r)
Spent(r, k) ==
  /\ r.stage = "list" => Sent(r, PageCost(r.page) + r.attempt)
  /\ r.stage = "size" => Sent(r, PassCost(k) + r.attempt)
  /\ r.stage = "media" => Sent(r, PassCost(k) + Attempts)
  /\ r.stage = "again" =>
       Sent(r, PassCost(k) + Attempts + 1 + DelayCost(r.delay) + r.attempt)
  /\ r.stage = "link" => Sent(r, r.attempt)
  /\ r.stage = "cdn" => Sent(r, IF Operation(r) = "thumbnail" THEN 0 ELSE Attempts)

\* k passes of a download were cut short by a 401 of the stream.
Paid(r, k) == Busy(r) => Spent(r, k)

\* A stream was refused: the pass will be cut short, unless the refresh fails.
Doomed(r) ==
  /\ r.stage = "media"
  /\ (r.pc = "answered" /\ r.status = 401) \/ r.pc \in {"refresh", "assign"}

\* Expired tokens that still count: those in hand, and the one in the field or the
\* one that the stream of c was refused with, wherever that is now.
Hands == {c \in Fetches : fetch[c].token = "expired"}
Owed(c) == IF access_token = "expired" \/ Doomed(fetch[c]) THEN 1 ELSE 0
Room(c) ==
  \E k \in Nat : Paid(fetch[c], k) /\ k + Cardinality(Hands) + Owed(c) <= expiries

IInv ==
  /\ access_token \in Standing /\ expiries \in 0..MaxExpiries
  /\ fetch = [c \in Fetches |-> fetch[c]]
  /\ \A c \in Fetches : Good(fetch[c]) /\ Equipped(fetch[c], access_token)
  /\ IsFiniteSet(Hands)
  /\ \A c \in Fetches : Room(c)

-----------------------------------------------------------------------------
(* Records that an operation may go on with *)

LEMMA IdleGood == Idle \in Fetch /\ Good(Idle) /\ ~Busy(Idle)
BY Constants DEF Idle, Fetch, Good, Busy, Active, Standing, Stage, Status, Retried

\* A coroutine that starts on an operation or ends.
Fresh(r) ==
  /\ Good(r) /\ Equipped(r, access_token) /\ ~Doomed(r) /\ r.token = "none"
  /\ \A k \in Nat : Paid(r, k)

LEMMA NewRequestGood ==
  ASSUME NEW r \in Fetch, r.plan # <<>>, r.token = "none", NEW stage \in Stage \ {"enter"},
         stage = "again" => r.delay >= 1,
         stage = "list" => Operation(r) = "list",
         stage \in {"size", "media", "again"} => Operation(r) = "download",
         stage = "link" => Operation(r) = "fresh_thumbnail",
         stage = "cdn" => Operation(r) \in {"fresh_thumbnail", "thumbnail"}
  PROVE  LET n == NewRequest(r, stage) IN
         /\ Good(n) /\ ~Doomed(n)
         /\ n.pc = "request" /\ n.stage = stage /\ n.attempt = 0 /\ n.token = "none"
         /\ n.plan = r.plan /\ n.sent = r.sent /\ n.page = r.page /\ n.delay = r.delay
<1> DEFINE n == NewRequest(r, stage)
<1>1. /\ n.pc = "request" /\ n.stage = stage /\ n.attempt = 0 /\ n.token = "none"
      /\ n.plan = r.plan /\ n.sent = r.sent /\ n.page = r.page /\ n.delay = r.delay
      /\ n.refreshed = FALSE /\ n.denied = 0 /\ n.limited = 0
  BY DEF NewRequest, Fetch
<1>2. n \in Fetch
  <2>1. 0 \in 0..Attempts /\ 0 \in Nat /\ stage \in Stage
    BY Constants
  <2> QED BY <2>1 DEF NewRequest, Fetch
<1> HIDE DEF n
<1>3. StageFits(n)
  BY <1>1 DEF StageFits, Operation
<1>4. Chances(n)
  BY <1>1, Constants DEF Chances
<1>5. Good(n) /\ ~Doomed(n)
  BY <1>1, <1>2, <1>3, <1>4 DEF Good, Doomed, Busy, Active
<1> QED BY <1>1, <1>5 DEF n

LEMMA AfterEnsureGood ==
  ASSUME NEW r \in Fetch, r.plan # <<>>, r.token = "none"
  PROVE  LET n == AfterEnsure(r) IN
         /\ Good(n) /\ ~Doomed(n)
         /\ n.pc = "request" /\ n.attempt = 0 /\ n.token = "none"
         /\ n.stage \in {"list", "size", "link", "cdn"}
         /\ Operation(r) = "download" => n.stage = "size"
         /\ Operation(r) = "thumbnail" => n.stage = "cdn"
         /\ n.stage = "cdn" => Operation(r) = "thumbnail"
         /\ n.plan = r.plan /\ n.sent = r.sent /\ n.page = r.page /\ n.delay = r.delay
<1>1. Operation(r) \in Operations
  BY FirstAndRest DEF Operation, Fetch
<1>2. PICK stage \in {"list", "size", "link", "cdn"} :
        /\ AfterEnsure(r) = NewRequest(r, stage)
        /\ stage = "list" <=> Operation(r) = "list"
        /\ stage = "size" <=> Operation(r) = "download"
        /\ stage = "link" <=> Operation(r) = "fresh_thumbnail"
        /\ stage = "cdn" <=> Operation(r) = "thumbnail"
  BY <1>1 DEF AfterEnsure, Operations
<1>3. stage \in Stage \ {"enter"}
  BY DEF Stage, Retried
<1> QED BY <1>2, <1>3, NewRequestGood

LEMMA NothingSent ==
  ASSUME NEW r, Good(r), r.sent = 0
  PROVE  \A k \in Nat : Paid(r, k)
<1> SUFFICES ASSUME Busy(r), NEW k \in Nat PROVE Spent(r, k)
  BY DEF Paid
<1>1. r \in Fetch /\ StageFits(r)
  BY DEF Good
<1>2. r.page \in 1..Pages /\ r.delay \in 0..Delays /\ r.attempt \in 0..Attempts
  BY <1>1 DEF Fetch
<1>3. r.stage = "again" => r.delay \in 1..Delays
  BY <1>1, <1>2, Constants DEF StageFits
<1>4. /\ PageCost(r.page) \in Nat /\ PassCost(k) \in Nat
      /\ r.stage = "again" => DelayCost(r.delay) \in Nat
  BY <1>2, <1>3, StepCost
<1>5. Attempts \in Nat /\ r.attempt \in Nat /\ Begun(r) \in Nat
  BY <1>2, Constants DEF Begun
<1> QED BY <1>4, <1>5 DEF Spent, Sent

LEMMA EnsuredFresh ==
  ASSUME NEW r \in Fetch, r.plan # <<>>, r.sent = 0, r.token = "none"
  PROVE  Fresh(Ensured(r, access_token))
<1> DEFINE n == Ensured(r, access_token)
<1>1. /\ AfterEnsure(r).sent = 0 /\ Good(AfterEnsure(r)) /\ ~Doomed(AfterEnsure(r))
      /\ AfterEnsure(r).token = "none"
      /\ Operation(r) = "thumbnail" => AfterEnsure(r).stage = "cdn"
  BY AfterEnsureGood
<1>2. CASE Operation(r) = "thumbnail" \/ access_token # "none" \/ (HasKey /\ ~HasRefresh)
  <2>1. n = AfterEnsure(r)
    BY <1>2 DEF Ensured
  <2>2. Equipped(AfterEnsure(r), access_token)
    BY <1>1, <1>2 DEF Equipped
  <2>3. \A k \in Nat : Paid(AfterEnsure(r), k)
    BY <1>1, NothingSent
  <2> QED BY <1>1, <2>1, <2>2, <2>3 DEF Fresh
<1>3. CASE /\ ~(Operation(r) = "thumbnail" \/ access_token # "none"
                  \/ (HasKey /\ ~HasRefresh))
           /\ HasRefresh
  <2> DEFINE m == [r EXCEPT !.pc = "refresh", !.stage = "enter"]
  <2>1. n = m
    BY <1>3 DEF Ensured
  <2>2. m \in Fetch /\ m.pc = "refresh" /\ m.stage = "enter" /\ m.plan # <<>>
        /\ m.sent = 0 /\ m.token = "none"
    BY DEF Fetch, Stage
  <2> HIDE DEF m
  <2>3. Good(m) /\ ~Doomed(m) /\ Equipped(m, access_token)
    BY <1>3, <2>2
    DEF Good, Busy, Active, StageFits, Chances, GivenUp, Doomed, Equipped, Retried
  <2>4. \A k \in Nat : Paid(m, k)
    BY <2>2, <2>3, NothingSent
  <2> QED BY <2>1, <2>2, <2>3, <2>4 DEF Fresh
<1>4. CASE /\ ~(Operation(r) = "thumbnail" \/ access_token # "none"
                  \/ (HasKey /\ ~HasRefresh))
           /\ ~HasRefresh
  <2> DEFINE m == [Idle EXCEPT !.pc = "failed"]
  <2>1. n = m
    BY <1>4 DEF Ensured
  <2>2. m \in Fetch /\ m.pc = "failed" /\ m.plan = <<>> /\ m.sent = 0
        /\ m.token = "none" /\ m.status = 200 /\ m.stage = "enter"
    <3>1. m \in Fetch
      BY IdleGood DEF Fetch
    <3> QED BY <3>1 DEF Idle
  <2> HIDE DEF m
  <2>3. Good(m) /\ ~Doomed(m) /\ Equipped(m, access_token)
    BY <2>2 DEF Good, Busy, Active, GivenUp, Doomed, Equipped
  <2>4. \A k \in Nat : Paid(m, k)
    BY <2>2, <2>3, NothingSent
  <2> QED BY <2>1, <2>2, <2>3, <2>4 DEF Fresh
<1> QED BY <1>2, <1>3, <1>4

\* A plan that goes on with an operation.
LEMMA PlanFresh ==
  ASSUME NEW plan \in Seq(Operations), plan # <<>>
  PROVE  Fresh(Ensured([Idle EXCEPT !.plan = plan], access_token))
<1> DEFINE r == [Idle EXCEPT !.plan = plan]
<1>1. r \in Fetch /\ r.plan # <<>> /\ r.sent = 0 /\ r.token = "none"
  BY ZenonT(60), IdleGood DEF Idle, Fetch
<1> HIDE DEF r
<1>2. Fresh(Ensured(r, access_token))
  BY <1>1, EnsuredFresh
<1> QED BY <1>2 DEF r

LEMMA RaiseFresh ==
  ASSUME NEW r \in Fetch, r.plan # <<>>, GivenUp(r)
  PROVE  Fresh(Raise(r))
<1>1. r.plan \in Seq(Operations)
  BY DEF Fetch
<1>2. CASE Len(r.plan) > 1
  <2>1. Tail(r.plan) \in Seq(Operations) /\ Tail(r.plan) # <<>>
    BY <1>1, <1>2, FirstAndRest
  <2> QED BY <1>2, <2>1, PlanFresh DEF Raise
<1>3. CASE ~(Len(r.plan) > 1)
  <2> DEFINE n == [Idle EXCEPT !.pc = "failed", !.stage = r.stage, !.status = r.status,
                               !.denied = r.denied, !.limited = r.limited]
  <2>1. /\ n \in Fetch /\ n.pc = "failed" /\ n.plan = <<>> /\ n.sent = 0
        /\ n.token = "none" /\ n.stage = r.stage /\ n.status = r.status
        /\ n.denied = r.denied /\ n.limited = r.limited
    <3>1. /\ r.stage \in Stage /\ r.status \in Status
          /\ r.denied \in Nat /\ r.limited \in Nat
      BY DEF Fetch
    <3>2. n \in Fetch
      BY <3>1, IdleGood DEF Fetch
    <3>3. /\ n.pc = "failed" /\ n.plan = <<>> /\ n.sent = 0
          /\ n.token = "none" /\ n.stage = r.stage /\ n.status = r.status
          /\ n.denied = r.denied /\ n.limited = r.limited
      BY DEF Idle
    <3> QED BY <3>2, <3>3
  <2>2. Raise(r) = n
    BY <1>3 DEF Raise
  <2> HIDE DEF n
  <2>3. Good(n) /\ ~Doomed(n) /\ Equipped(n, access_token)
    BY <2>1 DEF Good, Busy, Active, GivenUp, Doomed, Equipped
  <2> QED BY <2>1, <2>2, <2>3, NothingSent DEF Fresh
<1> QED BY <1>2, <1>3

LEMMA DoneFresh == \A r : Fresh(Done(r))
<1> DEFINE n == [Idle EXCEPT !.pc = "done"]
<1>1. n \in Fetch /\ n.pc = "done" /\ n.plan = <<>> /\ n.sent = 0 /\ n.token = "none"
  BY ZenonT(60), IdleGood DEF Idle, Fetch
<1>2. \A r : Done(r) = n
  BY DEF Done
<1> HIDE DEF n
<1>3. Good(n) /\ ~Doomed(n) /\ Equipped(n, access_token)
  BY <1>1 DEF Good, Busy, Active, Doomed, Equipped
<1> QED BY <1>1, <1>2, <1>3, NothingSent DEF Fresh

\* An answered request of _request_with_retry whose loop is over.
LEMMA ReturnedGood ==
  ASSUME NEW r \in Fetch, r.plan # <<>>, r.token = "none", StageFits(r), GivenUp(r),
         r.pc = "answered", r.stage \in Retried, r.attempt < Attempts,
         Equipped(r, access_token), NEW n \in Returned(r, r.status)
  PROVE  /\ Good(n) /\ Equipped(n, access_token) /\ ~Doomed(n) /\ n.token = "none"
         /\ \A k \in Nat : Paid(r, k) => Paid(n, k)
<1> SUFFICES \/ Fresh(n)
             \/ /\ Good(n) /\ Equipped(n, access_token) /\ ~Doomed(n) /\ n.token = "none"
                /\ \A k \in Nat : Paid(r, k) => Paid(n, k)
  BY DEF Fresh
<1>0. Fresh(Raise(r)) /\ Fresh(Done(r))
  BY RaiseFresh, DoneFresh
<1>1. /\ r.attempt + 1 <= Attempts /\ r.attempt \in Nat /\ Attempts \in Nat /\ r.sent \in Nat
      /\ r.page \in 1..Pages /\ r.delay \in 0..Delays /\ Begun(r) = 1 /\ Busy(r)
      /\ r.status \in Status
  BY Constants DEF Fetch, Begun, Busy, Active
<1>2. Equipped(r, access_token) /\ Busy(r)
      => access_token # "none" \/ (HasKey /\ ~HasRefresh)
  BY DEF Equipped, Retried
<1>3. \A m : access_token # "none" \/ (HasKey /\ ~HasRefresh) => Equipped(m, access_token)
  BY DEF Equipped
<1>4. CASE r.stage = "again" /\ r.status = 429 /\ r.delay < Delays
  <2> DEFINE q == [r EXCEPT !.delay = @ + 1]
  <2>1. n = NewRequest(q, "again")
    BY <1>4 DEF Returned
  <2>2. q \in Fetch /\ q.plan = r.plan /\ q.token = "none" /\ q.delay = r.delay + 1
        /\ q.sent = r.sent
    <3>1. r.delay + 1 \in 0..Delays /\ r.delay + 1 \in Nat
      BY <1>1, <1>4, Constants
    <3>2. q \in Fetch
      BY <3>1 DEF Fetch
    <3>3. q.plan = r.plan /\ q.token = r.token /\ q.sent = r.sent
      BY DEF Fetch
    <3>4. q.delay = r.delay + 1
      BY DEF Fetch
    <3> QED BY <3>2, <3>3, <3>4
  <2>3. Operation(q) = "download" /\ q.delay >= 1 /\ r.delay \in 1..Delays
    BY <1>1, <1>4, <2>2 DEF StageFits, Operation
  <2> HIDE DEF q
  <2>4. /\ Good(n) /\ ~Doomed(n) /\ n.pc = "request" /\ n.stage = "again"
        /\ n.attempt = 0 /\ n.sent = r.sent /\ n.delay = r.delay + 1 /\ n.token = "none"
    BY <2>1, <2>2, <2>3, NewRequestGood DEF Stage, Retried
  <2>5. DelayCost(r.delay + 1) = DelayCost(r.delay) + Attempts /\ DelayCost(r.delay) \in Nat
    BY <2>3, StepCost
  <2>6. ASSUME NEW k \in Nat, Paid(r, k) PROVE Paid(n, k)
    <3>1. r.sent <= PassCost(k) + Attempts + 1 + DelayCost(r.delay) + r.attempt + 1
      BY <1>1, <1>4, <2>6 DEF Paid, Spent, Sent
    <3>2. Begun(n) = 0 /\ PassCost(k) \in Nat
      BY <2>4, StepCost DEF Begun
    <3>3. n.sent <= PassCost(k) + Attempts + 1 + DelayCost(n.delay) + n.attempt + Begun(n)
      BY SMTT(30), <1>1, <2>4, <2>5, <3>1, <3>2
    <3> QED BY <2>4, <3>3 DEF Paid, Spent, Sent
  <2> QED BY <1>1, <1>2, <1>3, <2>4, <2>6
<1>5. CASE r.stage = "list" /\ r.status = 200 /\ r.page < Pages
  <2> DEFINE q == [r EXCEPT !.page = @ + 1]
  <2>1. n = NewRequest(q, "list")
    BY <1>5 DEF Returned, Fetch
  <2>2. q \in Fetch /\ q.plan = r.plan /\ q.token = "none" /\ q.page = r.page + 1
        /\ q.sent = r.sent
    <3>1. r.page + 1 \in 1..Pages /\ r.page + 1 \in Nat
      BY <1>1, <1>5, Constants
    <3>2. q \in Fetch
      BY <3>1 DEF Fetch
    <3>3. q.plan = r.plan /\ q.token = r.token /\ q.sent = r.sent
      BY DEF Fetch
    <3>4. q.page = r.page + 1
      BY DEF Fetch
    <3> QED BY <3>2, <3>3, <3>4
  <2>3. Operation(q) = "list"
    BY <1>5, <2>2 DEF StageFits, Operation
  <2> HIDE DEF q
  <2>4. /\ Good(n) /\ ~Doomed(n) /\ n.pc = "request" /\ n.stage = "list"
        /\ n.attempt = 0 /\ n.sent = r.sent /\ n.page = r.page + 1 /\ n.token = "none"
    BY <2>1, <2>2, <2>3, NewRequestGood DEF Stage, Retried
  <2>5. PageCost(r.page + 1) = PageCost(r.page) + Attempts /\ PageCost(r.page) \in Nat
    BY <1>1, StepCost
  <2>6. ASSUME NEW k \in Nat, Paid(r, k) PROVE Paid(n, k)
    <3>1. r.sent <= PageCost(r.page) + r.attempt + 1
      BY <1>1, <1>5, <2>6 DEF Paid, Spent, Sent
    <3>2. Begun(n) = 0
      BY <2>4 DEF Begun
    <3>3. n.sent <= PageCost(n.page) + n.attempt + Begun(n)
      BY <1>1, <2>4, <2>5, <3>1, <3>2
    <3> QED BY <2>4, <3>3 DEF Paid, Spent, Sent
  <2> QED BY <1>1, <1>2, <1>3, <2>4, <2>6
<1>6. CASE r.stage = "size" /\ r.status = 200 /\ n = NewRequest(r, "media")
  <2>1. Operation(r) = "download"
    BY <1>6 DEF StageFits
  <2>2. /\ Good(n) /\ ~Doomed(n) /\ n.pc = "request" /\ n.stage = "media"
        /\ n.sent = r.sent /\ n.token = "none"
    BY <1>6, <2>1, NewRequestGood DEF Stage, Retried
  <2>3. ASSUME NEW k \in Nat, Paid(r, k) PROVE Paid(n, k)
    <3>1. r.sent <= PassCost(k) + r.attempt + 1
      BY <1>1, <1>6, <2>3 DEF Paid, Spent, Sent
    <3>2. Begun(n) = 0 /\ PassCost(k) \in Nat
      BY <2>2, StepCost DEF Begun
    <3>3. n.sent <= PassCost(k) + Attempts + Begun(n)
      BY <1>1, <2>2, <3>1, <3>2
    <3> QED BY <2>2, <3>3 DEF Paid, Spent, Sent
  <2> QED BY <1>1, <1>2, <1>3, <2>2, <2>3
<1>7. CASE r.stage = "link" /\ r.status = 200 /\ n = NewRequest(r, "cdn")
  <2>1. Operation(r) = "fresh_thumbnail"
    BY <1>7 DEF StageFits
  <2>2. /\ Good(n) /\ ~Doomed(n) /\ n.pc = "request" /\ n.stage = "cdn"
        /\ n.sent = r.sent /\ n.token = "none" /\ Operation(n) = "fresh_thumbnail"
    BY <1>7, <2>1, NewRequestGood DEF Stage, Retried, Operation
  <2>3. ASSUME NEW k \in Nat, Paid(r, k) PROVE Paid(n, k)
    <3>1. r.sent <= r.attempt + 1
      BY <1>1, <1>7, <2>3 DEF Paid, Spent, Sent
    <3>2. Begun(n) = 0
      BY <2>2 DEF Begun
    <3>3. n.sent <= Attempts + Begun(n)
      BY <1>1, <2>2, <3>1, <3>2
    <3> QED BY <2>2, <3>3 DEF Paid, Spent, Sent
  <2> QED BY <1>1, <1>2, <1>3, <2>2, <2>3
<1>8. CASE n = Raise(r) \/ n = Done(r)
  BY <1>0, <1>8
<1> QED
  <2>1. \/ n = Raise(r) \/ n = Done(r)
        \/ r.stage = "again" /\ r.status = 429 /\ r.delay < Delays
        \/ r.stage = "list" /\ r.status = 200 /\ r.page < Pages
        \/ r.stage = "size" /\ r.status = 200 /\ n = NewRequest(r, "media")
        \/ r.stage = "link" /\ r.status = 200 /\ n = NewRequest(r, "cdn")
    BY <1>1 DEF Returned, Retried
  <2> QED BY <2>1, <1>4, <1>5, <1>6, <1>7, <1>8

-----------------------------------------------------------------------------
(* The steps *)

LEMMA InitIInv == Init => IInv
<1> SUFFICES ASSUME Init PROVE IInv
  OBVIOUS
<1>1. \A c \in Fetches : fetch[c] = Idle
  BY DEF Init
<1>2. Idle.token = "none" /\ Idle.stage = "enter"
  BY DEF Idle
<1>3. Hands = {}
  BY <1>1, <1>2 DEF Hands
<1>4. \A c \in Fetches : Good(fetch[c]) /\ Equipped(fetch[c], access_token)
  BY <1>1, IdleGood DEF Equipped
<1>5. IsFiniteSet(Hands) /\ Cardinality(Hands) = 0
  BY <1>3, FS_EmptySet
<1>6. ASSUME NEW c \in Fetches PROVE Room(c)
  <2>1. Paid(fetch[c], 0) /\ Owed(c) = 0
    BY <1>1, <1>2, IdleGood DEF Paid, Owed, Doomed, Init
  <2> QED BY <1>5, <2>1 DEF Room, Init
<1> QED BY <1>4, <1>5, <1>6, Constants DEF IInv, Init, Standing

\* A step of one coroutine that moves no token.
LEMMA LocalStep ==
  ASSUME IInv, NEW c \in Fetches, NEW rec, fetch' = [fetch EXCEPT ![c] = rec],
         UNCHANGED <<access_token, expiries>>,
         Good(rec), Equipped(rec, access_token),
         rec.token = "expired" <=> fetch[c].token = "expired",
         \A k \in Nat : Paid(fetch[c], k) => Paid(rec, k),
         Doomed(rec) => Doomed(fetch[c]) \/ access_token = "expired"
  PROVE  IInv'
<1>1. fetch' = [d \in Fetches |-> IF d = c THEN rec ELSE fetch[d]]
  BY DEF IInv
<1>2. Hands' = Hands
  BY <1>1 DEF Hands
<1>3. \A d \in Fetches : Good(fetch'[d]) /\ Equipped(fetch'[d], access_token')
  BY <1>1 DEF IInv
<1>4. ASSUME NEW d \in Fetches PROVE Room(d)'
  <2>1. PICK k \in Nat : Paid(fetch[d], k) /\ k + Cardinality(Hands) + Owed(d) <= expiries
    BY DEF IInv, Room
  <2>2. Paid(fetch'[d], k)
    BY <1>1, <2>1
  <2>3. Owed(d)' \in {0, 1} /\ Owed(d) \in {0, 1} /\ Owed(d)' <= Owed(d)
    BY <1>1 DEF Owed
  <2>4. Cardinality(Hands) \in Nat /\ expiries \in Nat
    BY FS_CardinalityType, Constants DEF IInv
  <2>5. k + Cardinality(Hands)' + Owed(d)' <= expiries'
    BY <1>2, <2>1, <2>3, <2>4
  <2> QED BY <2>2, <2>5 DEF Room
<1> QED BY <1>1, <1>2, <1>3, <1>4 DEF IInv

LEMMA FreshStep ==
  ASSUME IInv, NEW c \in Fetches, NEW rec, fetch' = [fetch EXCEPT ![c] = rec],
         UNCHANGED <<access_token, expiries>>,
         Fresh(rec), fetch[c].token = "none"
  PROVE  IInv'
<1>1. rec.token # "expired" /\ fetch[c].token # "expired"
  BY DEF Fresh
<1> QED BY <1>1, LocalStep DEF Fresh

\* What is known of a coroutine that goes on.
LEMMA FetchKnown ==
  ASSUME IInv, NEW c \in Fetches
  PROVE  /\ Good(fetch[c]) /\ Equipped(fetch[c], access_token)
         /\ fetch[c] \in Fetch
         /\ Busy(fetch[c]) => /\ fetch[c].plan # <<>>
                              /\ StageFits(fetch[c]) /\ Chances(fetch[c])
         /\ fetch[c].pc # "assign" => fetch[c].token = "none"
BY DEF IInv, Good

LEMMA StartStep ==
  ASSUME IInv, NEW c \in Fetches, StartFetch(c)
  PROVE  IInv'
<1>1. PICK plan \in Plans[c] :
        fetch' = [fetch EXCEPT ![c] = Ensured([Idle EXCEPT !.plan = plan], access_token)]
  BY DEF StartFetch, Goes
<1>2. plan \in Seq(Operations) /\ plan # <<>>
  BY PlansAssumption
<1> HIDE DEF Idle
<1>3. Fresh(Ensured([Idle EXCEPT !.plan = plan], access_token))
  BY <1>2, PlanFresh
<1>4. fetch[c].token = "none" /\ UNCHANGED <<access_token, expiries>>
  BY FetchKnown DEF StartFetch
<1> QED BY <1>1, <1>3, <1>4, FreshStep

LEMMA RequestStep ==
  ASSUME IInv, NEW c \in Fetches, Request(c)
  PROVE  IInv'
<1> DEFINE r == fetch[c]
<1>1. PICK s \in Answers(r.stage) :
        fetch' = [fetch EXCEPT ![c] = [r EXCEPT !.pc = "answered", !.status = s,
                                                !.sent = @ + 1]]
  BY DEF Request, Goes
<1> DEFINE rec == [r EXCEPT !.pc = "answered", !.status = s, !.sent = @ + 1]
<1>2. /\ r \in Fetch /\ r.pc = "request" /\ r.plan # <<>> /\ StageFits(r) /\ Chances(r)
      /\ r.token = "none" /\ Equipped(r, access_token) /\ r.sent \in Nat
  BY FetchKnown DEF Request, Busy, Active, Fetch
<1> HIDE DEF r
<1>3. s \in Status
  BY DEF Answers, Status
<1>4. /\ rec.pc = "answered" /\ rec.status = s /\ rec.sent = r.sent + 1
      /\ rec.plan = r.plan /\ rec.stage = r.stage /\ rec.attempt = r.attempt
      /\ rec.refreshed = r.refreshed /\ rec.page = r.page /\ rec.delay = r.delay
      /\ rec.token = "none" /\ rec.denied = r.denied /\ rec.limited = r.limited
  BY <1>2 DEF Fetch
<1>5. rec \in Fetch
  <2>1. r.sent + 1 \in Nat
    BY <1>2
  <2> QED BY <1>2, <1>3, <2>1 DEF Fetch
<1> HIDE DEF rec
<1>6. StageFits(rec) /\ Chances(rec)
  BY <1>2, <1>4 DEF StageFits, Chances, Operation
<1>7. Good(rec) /\ Equipped(rec, access_token)
  BY <1>2, <1>4, <1>5, <1>6 DEF Good, Busy, Active, Equipped
<1>8. ASSUME NEW k \in Nat, Paid(r, k) PROVE Paid(rec, k)
  <2>1. Spent(r, k) /\ Begun(r) = 0 /\ Begun(rec) = 1
    BY <1>2, <1>4, <1>8 DEF Paid, Busy, Active, Begun
  <2>2. ASSUME NEW n \in Nat, Sent(r, n) PROVE Sent(rec, n)
    BY <1>2, <1>4, <2>1, <2>2 DEF Sent
  <2>3. /\ PageCost(r.page) \in Nat /\ PassCost(k) \in Nat /\ r.attempt \in Nat
        /\ Attempts \in Nat /\ (r.stage = "again" => DelayCost(r.delay) \in Nat)
    <3>1. r.page \in 1..Pages /\ r.delay \in 0..Delays /\ r.attempt \in 0..Attempts
      BY <1>2 DEF Fetch
    <3>2. r.stage = "again" => r.delay \in 1..Delays
      BY <1>2, <3>1, Constants DEF StageFits
    <3>3. PageCost(r.page) \in Nat /\ PassCost(k) \in Nat
      BY <3>1, StepCost
    <3>4. r.stage = "again" => DelayCost(r.delay) \in Nat
      BY <3>2, StepCost
    <3> QED BY <3>1, <3>3, <3>4, Constants
  <2>4. Operation(rec) = Operation(r)
    BY <1>4 DEF Operation
  <2>5. Spent(rec, k)
    <3> HIDE DEF Sent
    <3>1. CASE r.stage = "list"
      <4>1. PageCost(r.page) + r.attempt \in Nat
        BY <2>3
      <4> QED BY <1>4, <2>1, <2>2, <3>1, <4>1 DEF Spent
    <3>2. CASE r.stage = "size"
      <4>1. PassCost(k) + r.attempt \in Nat
        BY <2>3
      <4> QED BY <1>4, <2>1, <2>2, <3>2, <4>1 DEF Spent
    <3>3. CASE r.stage = "media"
      <4>1. PassCost(k) + Attempts \in Nat
        BY <2>3
      <4> QED BY <1>4, <2>1, <2>2, <3>3, <4>1 DEF Spent
    <3>4. CASE r.stage = "again"
      <4>1. PassCost(k) + Attempts + 1 + DelayCost(r.delay) + r.attempt \in Nat
        BY <2>3, <3>4
      <4> QED BY <1>4, <2>1, <2>2, <3>4, <4>1 DEF Spent
    <3>5. CASE r.stage = "link"
      BY <1>4, <2>1, <2>2, <2>3, <3>5 DEF Spent
    <3>6. CASE r.stage = "cdn"
      <4>1. (IF Operation(r) = "thumbnail" THEN 0 ELSE Attempts) \in Nat
        BY <2>3
      <4> QED BY <1>4, <2>1, <2>2, <2>4, <3>6, <4>1 DEF Spent
    <3>7. r.stage \in {"list", "size", "media", "again", "link", "cdn", "enter"}
      BY <1>2 DEF Fetch, Stage, Retried
    <3>8. r.stage # "enter"
      BY <1>2 DEF StageFits
    <3> QED BY <3>1, <3>2, <3>3, <3>4, <3>5, <3>6, <3>7, <3>8
  <2> QED BY <2>5 DEF Paid
<1>9. Doomed(rec) => access_token = "expired"
  <2>1. ASSUME Doomed(rec) PROVE access_token = "expired"
    <3>1. r.stage = "media" /\ s = 401
      BY <1>4, <2>1 DEF Doomed
    <3>2. Refused
      BY <3>1 DEF Answers
    <3>3. access_token # "none" \/ HasKey
      BY <1>2, <3>1 DEF Equipped, Busy, Active
    <3> QED BY <3>2, <3>3 DEF Refused
  <2> QED BY <2>1
<1>10. UNCHANGED <<access_token, expiries>> /\ fetch' = [fetch EXCEPT ![c] = rec]
  BY <1>1 DEF Request, rec
<1>11. rec.token = "expired" <=> fetch[c].token = "expired"
  BY <1>2, <1>4 DEF r
<1> HIDE DEF rec
<1> QED BY <1>7, <1>8, <1>9, <1>10, <1>11, LocalStep DEF r

\* A record that differs in nothing that is paid for.
LEMMA SameCost ==
  ASSUME NEW r, NEW m, NEW k, Busy(r), Paid(r, k),
         m.stage = r.stage, m.page = r.page, m.attempt = r.attempt, m.delay = r.delay,
         m.sent = r.sent, m.plan = r.plan, Begun(m) = Begun(r)
  PROVE  Paid(m, k)
BY DEF Paid, Spent, Sent, Operation

\* A request of _request_with_retry is repeated: one attempt more.
LEMMA RepeatCost ==
  ASSUME NEW r, NEW m, NEW k, Busy(r), r \in Fetch, Paid(r, k), r.stage \in Retried,
         r.pc # "request", m.pc = "request", r.attempt \in Nat, k \in Nat,
         r.stage = "again" => r.delay >= 1,
         m.stage = r.stage, m.page = r.page, m.attempt = r.attempt + 1, m.delay = r.delay,
         m.sent = r.sent, m.plan = r.plan
  PROVE  Paid(m, k)
<1>1. r.page \in 1..Pages /\ r.delay \in 0..Delays /\ r.sent \in Nat
  BY DEF Fetch
<1>2. r.stage = "again" => r.delay \in 1..Delays
  BY <1>1, Constants
<1>3. /\ PageCost(r.page) \in Nat /\ PassCost(k) \in Nat /\ Attempts \in Nat
      /\ (r.stage = "again" => DelayCost(r.delay) \in Nat)
  BY <1>1, <1>2, StepCost, Constants
<1>4. Begun(r) = 1 /\ Begun(m) = 0
  BY DEF Begun
<1>5. Spent(r, k)
  BY DEF Paid
<1> QED BY <1>1, <1>3, <1>4, <1>5 DEF Paid, Spent, Sent, Retried

LEMMA HandleRetriedStep ==
  ASSUME IInv, NEW c \in Fetches, HandleRetried(c)
  PROVE  IInv'
<1> DEFINE f == fetch[c]
           r == [f EXCEPT !.denied = @ + (IF f.status = 401 THEN 1 ELSE 0),
                          !.limited = @ + (IF f.status = 429 THEN 1 ELSE 0)]
<1>1. /\ r.pc = "answered" /\ r.stage \in Retried
      /\ UNCHANGED <<access_token, expiries>>
      /\ \/ MayRefresh(r) /\ fetch' = [fetch EXCEPT ![c] = [r EXCEPT !.pc = "refresh"]]
         \/ MayWait(r) /\ fetch' = [fetch EXCEPT ![c] =
                                      [r EXCEPT !.pc = "request", !.attempt = @ + 1]]
         \/ /\ ~MayRefresh(r) /\ ~MayWait(r)
            /\ \E n \in Returned(r, r.status) : fetch' = [fetch EXCEPT ![c] = n]
  BY DEF HandleRetried, Goes
<1>2. f \in Fetch /\ Good(f) /\ Equipped(f, access_token)
  BY FetchKnown
<1> HIDE DEF f
<1>3. /\ r.pc = f.pc /\ r.status = f.status /\ r.plan = f.plan /\ r.stage = f.stage
      /\ r.attempt = f.attempt /\ r.refreshed = f.refreshed /\ r.page = f.page
      /\ r.delay = f.delay /\ r.token = f.token /\ r.sent = f.sent
      /\ r.denied = f.denied + (IF f.status = 401 THEN 1 ELSE 0)
      /\ r.limited = f.limited + (IF f.status = 429 THEN 1 ELSE 0)
  BY <1>2 DEF Fetch
<1>4. /\ f.attempt \in Nat /\ f.denied \in Nat /\ f.limited \in Nat /\ f.status \in Status
      /\ f.refreshed \in BOOLEAN /\ Attempts \in Nat /\ f.attempt + 1 \in Nat
  BY <1>2, Constants DEF Fetch
<1>5. r \in Fetch
  <2>1. /\ f.denied + (IF f.status = 401 THEN 1 ELSE 0) \in Nat
        /\ f.limited + (IF f.status = 429 THEN 1 ELSE 0) \in Nat
    BY <1>4
  <2> QED BY <1>2, <2>1 DEF Fetch
<1> HIDE DEF r
<1>6. /\ Busy(f) /\ Busy(r) /\ f.plan # <<>> /\ StageFits(f) /\ f.token = "none"
      /\ f.attempt < Attempts /\ f.attempt = f.limited + f.denied
      /\ f.denied = (IF f.refreshed THEN 1 ELSE 0)
  BY <1>1, <1>2, <1>3 DEF Good, Busy, Active, Chances
<1>7. StageFits(r) /\ Equipped(r, access_token) /\ ~Doomed(r) /\ Operation(r) = Operation(f)
  BY <1>1, <1>2, <1>3, <1>6
  DEF StageFits, Equipped, Doomed, Retried, Operation, Busy
<1>8. \A k \in Nat : Paid(f, k) => Paid(r, k)
  BY <1>3, <1>6, SameCost DEF Begun
<1>9. CASE MayRefresh(r) /\ fetch' = [fetch EXCEPT ![c] = [r EXCEPT !.pc = "refresh"]]
  <2> DEFINE m == [r EXCEPT !.pc = "refresh"]
  <2>1. /\ m \in Fetch /\ m.pc = "refresh" /\ m.status = 401 /\ m.plan = r.plan
        /\ m.stage = r.stage /\ m.attempt = r.attempt /\ m.refreshed = r.refreshed
        /\ m.page = r.page /\ m.delay = r.delay /\ m.token = "none" /\ m.sent = r.sent
        /\ m.denied = r.denied /\ m.limited = r.limited
    BY <1>3, <1>5, <1>6, <1>9 DEF MayRefresh, Fetch
  <2> HIDE DEF m
  <2>2. f.status = 401 /\ ~f.refreshed /\ HasRefresh
    BY <1>3, <1>9 DEF MayRefresh
  <2>3. m.denied = 1 /\ m.attempt = m.limited
    BY <1>3, <1>4, <1>6, <2>1, <2>2
  <2>4. StageFits(m) /\ Chances(m)
    BY <1>1, <1>3, <1>6, <1>7, <2>1, <2>3 DEF StageFits, Chances, Operation, Retried
  <2>5. Good(m) /\ Equipped(m, access_token) /\ ~Doomed(m)
    BY <1>1, <1>3, <1>6, <1>7, <2>1, <2>2, <2>4
    DEF Good, Busy, Active, Equipped, Doomed, Retried
  <2>6. \A k \in Nat : Paid(f, k) => Paid(m, k)
    BY <1>1, <1>6, <1>8, <2>1, SameCost DEF Begun
  <2>7. fetch' = [fetch EXCEPT ![c] = m] /\ m.token = "none"
    BY <1>9, <2>1 DEF m
  <2> QED BY <1>1, <1>6, <2>5, <2>6, <2>7, LocalStep DEF f
<1>10. CASE MayWait(r) /\ fetch' = [fetch EXCEPT ![c] =
                                      [r EXCEPT !.pc = "request", !.attempt = @ + 1]]
  <2> DEFINE m == [r EXCEPT !.pc = "request", !.attempt = @ + 1]
  <2>1. f.status = 429 /\ f.attempt + 1 < Attempts /\ f.attempt + 1 \in 0..Attempts
    BY <1>3, <1>4, <1>10, Constants DEF MayWait
  <2>2. /\ m.pc = "request" /\ m.plan = r.plan /\ m.status = r.status
        /\ m.stage = r.stage /\ m.attempt = r.attempt + 1 /\ m.refreshed = r.refreshed
        /\ m.page = r.page /\ m.delay = r.delay /\ m.token = "none" /\ m.sent = r.sent
        /\ m.denied = r.denied /\ m.limited = r.limited
    BY <1>3, <1>5, <1>6 DEF Fetch
  <2>3. m \in Fetch
    <3>1. r.attempt + 1 \in 0..Attempts
      BY <1>3, <2>1
    <3> QED BY <1>5, <3>1 DEF Fetch
  <2> HIDE DEF m
  <2>4. m.attempt = m.limited + m.denied /\ m.attempt < Attempts
        /\ m.denied = (IF m.refreshed THEN 1 ELSE 0)
    BY <1>3, <1>4, <1>6, <2>1, <2>2
  <2>5. StageFits(m) /\ Chances(m)
    BY <1>1, <1>3, <1>6, <1>7, <2>2, <2>4 DEF StageFits, Chances, Operation, Retried
  <2>6. Good(m) /\ Equipped(m, access_token) /\ ~Doomed(m)
    BY <1>1, <1>3, <1>6, <1>7, <2>2, <2>3, <2>5
    DEF Good, Busy, Active, Equipped, Doomed, Retried
  <2>7. ASSUME NEW k \in Nat, Paid(f, k) PROVE Paid(m, k)
    <3>1. Paid(r, k) /\ r.attempt \in Nat /\ (r.stage = "again" => r.delay >= 1)
      BY <1>3, <1>4, <1>7, <1>8, <2>7 DEF StageFits
    <3> QED BY <1>1, <1>5, <1>6, <2>2, <3>1, RepeatCost
  <2>8. fetch' = [fetch EXCEPT ![c] = m] /\ m.token = "none"
    BY <1>10, <2>2 DEF m
  <2> QED BY <1>1, <1>6, <2>6, <2>7, <2>8, LocalStep DEF f
<1>11. ASSUME ~MayRefresh(r), NEW n \in Returned(r, r.status),
              fetch' = [fetch EXCEPT ![c] = n]
       PROVE  IInv'
  <2>1. GivenUp(r)
    <3>1. ASSUME r.status = 401, HasRefresh PROVE r.denied >= 2
      BY <1>3, <1>4, <1>6, <1>11, <3>1 DEF MayRefresh
    <3> QED BY <3>1 DEF GivenUp
  <2>2. r.plan # <<>> /\ r.token = "none" /\ r.attempt < Attempts
    BY <1>3, <1>6
  <2>3. /\ Good(n) /\ Equipped(n, access_token) /\ ~Doomed(n) /\ n.token = "none"
        /\ \A k \in Nat : Paid(r, k) => Paid(n, k)
    BY <1>1, <1>5, <1>7, <1>11, <2>1, <2>2, ReturnedGood
  <2> QED BY <1>1, <1>6, <1>8, <1>11, <2>3, LocalStep DEF f
<1> QED BY <1>1, <1>9, <1>10, <1>11

LEMMA HandleStreamStep ==
  ASSUME IInv, NEW c \in Fetches, HandleStream(c)
  PROVE  IInv'
<1> DEFINE r == fetch[c]
<1>1. /\ r.pc = "answered" /\ r.stage = "media" /\ UNCHANGED <<access_token, expiries>>
      /\ \/ r.status = 401 /\ HasRefresh
              /\ fetch' = [fetch EXCEPT ![c] = [r EXCEPT !.pc = "refresh"]]
         \/ fetch' = [fetch EXCEPT ![c] = NewRequest([r EXCEPT !.delay = 1], "again")]
         \/ \E n \in {Done(r), Raise(r)} : fetch' = [fetch EXCEPT ![c] = n]
  BY DEF HandleStream, Goes
<1>2. /\ r \in Fetch /\ Good(r) /\ Equipped(r, access_token)
      /\ Busy(r) /\ r.plan # <<>> /\ StageFits(r) /\ r.token = "none"
  BY <1>1, FetchKnown DEF Busy, Active
<1> HIDE DEF r
<1>3. Operation(r) = "download" /\ (access_token # "none" \/ (HasKey /\ ~HasRefresh))
  BY <1>1, <1>2 DEF StageFits, Equipped
<1>4. CASE /\ r.status = 401 /\ HasRefresh
           /\ fetch' = [fetch EXCEPT ![c] = [r EXCEPT !.pc = "refresh"]]
  <2> DEFINE m == [r EXCEPT !.pc = "refresh"]
  <2>1. /\ m \in Fetch /\ m.pc = "refresh" /\ m.status = 401 /\ m.plan = r.plan
        /\ m.stage = "media" /\ m.attempt = r.attempt /\ m.page = r.page
        /\ m.delay = r.delay /\ m.token = "none" /\ m.sent = r.sent
    BY <1>1, <1>2, <1>4 DEF Fetch
  <2>2. fetch' = [fetch EXCEPT ![c] = m]
    BY <1>4
  <2> HIDE DEF m
  <2>3. StageFits(m) /\ Chances(m)
    BY <1>1, <1>2, <2>1 DEF StageFits, Chances, Operation, Retried
  <2>4. Good(m) /\ Equipped(m, access_token)
    BY <1>1, <1>2, <1>4, <2>1, <2>3 DEF Good, Busy, Active, Equipped
  <2>5. Doomed(r)
    BY <1>1, <1>4 DEF Doomed
  <2>6. \A k \in Nat : Paid(r, k) => Paid(m, k)
    BY <1>1, <1>2, <2>1, SameCost DEF Begun
  <2> QED BY <1>1, <1>2, <2>1, <2>2, <2>4, <2>5, <2>6, LocalStep DEF r
<1>5. CASE fetch' = [fetch EXCEPT ![c] = NewRequest([r EXCEPT !.delay = 1], "again")]
  <2> DEFINE q == [r EXCEPT !.delay = 1]
             m == NewRequest(q, "again")
  <2>1. q \in Fetch /\ q.plan = r.plan /\ q.token = "none" /\ q.sent = r.sent
        /\ q.delay = 1
    <3>1. 1 \in 0..Delays
      BY Constants
    <3> QED BY <1>2, <3>1 DEF Fetch
  <2>2. fetch' = [fetch EXCEPT ![c] = m]
    BY <1>5
  <2> HIDE DEF q
  <2>3. Operation(q) = "download"
    BY <1>1, <1>2, <2>1 DEF StageFits, Operation
  <2>4. /\ Good(m) /\ ~Doomed(m) /\ m.pc = "request" /\ m.stage = "again"
        /\ m.attempt = 0 /\ m.sent = r.sent /\ m.delay = 1 /\ m.token = "none"
    BY <1>2, <2>1, <2>3, NewRequestGood DEF Stage, Retried
  <2> HIDE DEF m
  <2>5. Equipped(m, access_token)
    BY <1>1, <1>2 DEF Equipped
  <2>6. ASSUME NEW k \in Nat, Paid(r, k) PROVE Paid(m, k)
    <3>1. r.sent <= PassCost(k) + Attempts + 1
      BY <1>1, <1>2, <2>6 DEF Paid, Spent, Sent, Begun
    <3>2. PassCost(k) \in Nat /\ Attempts \in Nat /\ DelayCost(1) = 0 /\ Begun(m) = 0
      BY <2>4, StepCost, Constants DEF Begun
    <3>3. m.sent <= PassCost(k) + Attempts + 1 + DelayCost(m.delay) + m.attempt + Begun(m)
      BY <2>4, <3>1, <3>2
    <3> QED BY <2>4, <3>3 DEF Paid, Spent, Sent
  <2> QED BY <1>1, <1>2, <2>2, <2>4, <2>5, <2>6, LocalStep DEF r
<1>6. ASSUME NEW n \in {Done(r), Raise(r)}, fetch' = [fetch EXCEPT ![c] = n]
      PROVE  IInv'
  <2>1. GivenUp(r)
    BY <1>1 DEF GivenUp, Retried
  <2>2. Fresh(n)
    BY <1>2, <2>1, RaiseFresh, DoneFresh
  <2> QED BY <1>1, <1>2, <1>6, <2>2, FreshStep DEF r
<1> QED BY <1>1, <1>4, <1>5, <1>6

LEMMA HandleThumbnailStep ==
  ASSUME IInv, NEW c \in Fetches, HandleThumbnail(c)
  PROVE  IInv'
<1> DEFINE r == fetch[c]
<1>1. /\ r.pc = "answered" /\ r.stage = "cdn" /\ UNCHANGED <<access_token, expiries>>
      /\ \E n \in {Done(r), Raise(r)} : fetch' = [fetch EXCEPT ![c] = n]
  BY DEF HandleThumbnail, Goes
<1>2. r \in Fetch /\ r.plan # <<>> /\ r.token = "none"
  BY <1>1, FetchKnown DEF Busy, Active
<1> HIDE DEF r
<1>3. GivenUp(r)
  BY <1>1 DEF GivenUp, Retried
<1>4. Fresh(Done(r)) /\ Fresh(Raise(r))
  BY <1>2, <1>3, RaiseFresh, DoneFresh
<1> QED BY <1>1, <1>2, <1>4, FreshStep DEF r

LEMMA RefreshStep ==
  ASSUME IInv, NEW c \in Fetches, Refresh(c)
  PROVE  IInv'
<1> DEFINE r == fetch[c]
<1>1. /\ r.pc = "refresh" /\ UNCHANGED <<access_token, expiries>>
      /\ \/ fetch' = [fetch EXCEPT ![c] = [r EXCEPT !.pc = "assign", !.token = "live"]]
         \/ fetch' = [fetch EXCEPT ![c] = Raise([r EXCEPT !.status = 500])]
  BY ZenonT(60) DEF Refresh, Goes
<1>2. /\ r \in Fetch /\ Good(r) /\ Equipped(r, access_token) /\ Busy(r) /\ r.plan # <<>>
      /\ StageFits(r) /\ Chances(r) /\ r.token = "none" /\ HasRefresh
  BY <1>1, FetchKnown DEF Busy, Active, Good
<1> HIDE DEF r
<1>3. CASE fetch' = [fetch EXCEPT ![c] = [r EXCEPT !.pc = "assign", !.token = "live"]]
  <2> DEFINE m == [r EXCEPT !.pc = "assign", !.token = "live"]
  <2>1. /\ m.pc = "assign" /\ m.status = r.status /\ m.plan = r.plan
        /\ m.stage = r.stage /\ m.attempt = r.attempt /\ m.page = r.page
        /\ m.delay = r.delay /\ m.token = "live" /\ m.sent = r.sent
        /\ m.denied = r.denied /\ m.limited = r.limited
    BY <1>2 DEF Fetch
  <2>2. m \in Fetch
    BY <1>2 DEF Fetch, Standing
  <2>3. fetch' = [fetch EXCEPT ![c] = m]
    BY <1>3
  <2> HIDE DEF m
  <2>4. StageFits(m) /\ Chances(m)
    BY <1>1, <1>2, <2>1 DEF StageFits, Chances, Operation
  <2>5. Good(m) /\ Equipped(m, access_token)
    BY <1>1, <1>2, <2>1, <2>2, <2>4 DEF Good, Busy, Active, Equipped
  <2>6. Doomed(m) => Doomed(r)
    BY <1>1, <2>1 DEF Doomed
  <2>7. \A k \in Nat : Paid(r, k) => Paid(m, k)
    BY <1>1, <1>2, <2>1, SameCost DEF Begun
  <2> QED BY <1>1, <1>2, <2>1, <2>3, <2>5, <2>6, <2>7, LocalStep DEF r
<1>4. CASE fetch' = [fetch EXCEPT ![c] = Raise([r EXCEPT !.status = 500])]
  <2> DEFINE q == [r EXCEPT !.status = 500]
  <2>1. q \in Fetch /\ q.plan = r.plan /\ q.status = 500
    BY <1>2 DEF Fetch, Status
  <2> HIDE DEF q
  <2>2. Fresh(Raise(q))
    BY <1>2, <2>1, RaiseFresh DEF GivenUp
  <2> QED BY ZenonT(60), <1>1, <1>2, <1>4, <2>2, FreshStep DEF r, q
<1> QED BY <1>1, <1>3, <1>4

\* A token in hand becomes the field: it leaves the hands, what the field held is
\* gone, and a pass that is cut short is one pass more.
LEMMA AssignTokens ==
  ASSUME IInv, NEW c \in Fetches, NEW rec, fetch' = [fetch EXCEPT ![c] = rec],
         access_token' = fetch[c].token, fetch[c].token # "none", UNCHANGED expiries,
         Good(rec), rec.token = "none", ~Doomed(rec),
         \A k \in Nat : Paid(fetch[c], k) =>
                          Paid(rec, IF Doomed(fetch[c]) THEN k + 1 ELSE k)
  PROVE  IInv'
<1>1. fetch' = [d \in Fetches |-> IF d = c THEN rec ELSE fetch[d]]
  BY DEF IInv
<1>2. access_token' \in {"live", "expired"}
  BY DEF IInv, Good, Fetch, Standing
<1>3. \A d \in Fetches : Good(fetch'[d]) /\ Equipped(fetch'[d], access_token')
  BY <1>1, <1>2 DEF IInv, Equipped
<1>4. Hands' = Hands \ {c} /\ (c \in Hands <=> access_token' = "expired")
  BY <1>1, <1>2 DEF Hands
<1>5. /\ IsFiniteSet(Hands') /\ Cardinality(Hands) \in Nat /\ Cardinality(Hands') \in Nat
      /\ Cardinality(Hands') = Cardinality(Hands) - (IF access_token' = "expired" THEN 1
                                                                                 ELSE 0)
  BY <1>4, FS_RemoveElement, FS_CardinalityType DEF IInv
<1>6. expiries \in Nat
  BY Constants DEF IInv
<1>7. ASSUME NEW d \in Fetches PROVE Room(d)'
  <2>1. PICK k \in Nat : Paid(fetch[d], k) /\ k + Cardinality(Hands) + Owed(d) <= expiries
    BY DEF IInv, Room
  <2>2. CASE d # c
    <3>1. Paid(fetch'[d], k)
      BY <1>1, <2>1, <2>2
    <3>2. /\ Owed(d) \in {0, 1}
          /\ Owed(d)' <= Owed(d) + (IF access_token' = "expired" THEN 1 ELSE 0)
          /\ Owed(d)' \in {0, 1}
      BY <1>1, <2>2 DEF Owed
    <3>3. k + Cardinality(Hands)' + Owed(d)' <= expiries'
      BY <1>5, <1>6, <2>1, <3>2
    <3> QED BY <3>1, <3>3 DEF Room
  <2>3. CASE d = c
    <3> DEFINE n == IF Doomed(fetch[c]) THEN k + 1 ELSE k
    <3>1. n \in Nat /\ Paid(fetch'[c], n)
      BY <1>1, <2>1, <2>3
    <3>2. /\ Owed(c) \in {0, 1} /\ n <= k + Owed(c)
          /\ Owed(c)' = IF access_token' = "expired" THEN 1 ELSE 0
      BY <1>1 DEF Owed
    <3> HIDE DEF n
    <3>3. n + Cardinality(Hands)' + Owed(c)' <= expiries'
      BY <1>5, <1>6, <2>1, <2>3, <3>1, <3>2
    <3> QED BY <2>3, <3>1, <3>3 DEF Room
  <2> QED BY <2>2, <2>3
<1> QED
  BY <1>1, <1>2, <1>3, <1>5, <1>7 DEF IInv, Standing

LEMMA AssignStep ==
  ASSUME IInv, NEW c \in Fetches, Assign(c)
  PROVE  IInv'
<1> DEFINE f == fetch[c]
           r == [f EXCEPT !.token = "none"]
<1>1. /\ r.pc = "assign" /\ access_token' = f.token /\ UNCHANGED expiries
      /\ \/ r.stage = "enter" /\ fetch' = [fetch EXCEPT ![c] = AfterEnsure(r)]
         \/ /\ r.stage = "media"
            /\ fetch' = [fetch EXCEPT ![c] = AfterEnsure([r EXCEPT !.delay = 0])]
         \/ /\ r.stage \in Retried /\ r.attempt < Attempts - 1
            /\ fetch' = [fetch EXCEPT ![c] =
                           [r EXCEPT !.pc = "request", !.refreshed = TRUE, !.attempt = @ + 1]]
         \/ /\ r.stage \in Retried /\ r.attempt = Attempts - 1
            /\ \E n \in Returned(r, 401) : fetch' = [fetch EXCEPT ![c] = n]
  BY DEF Assign, Goes
<1>2. f \in Fetch /\ Good(f)
  BY FetchKnown
<1> HIDE DEF f
<1>3. /\ r.pc = f.pc /\ r.status = f.status /\ r.plan = f.plan /\ r.stage = f.stage
      /\ r.attempt = f.attempt /\ r.refreshed = f.refreshed /\ r.page = f.page
      /\ r.delay = f.delay /\ r.token = "none" /\ r.sent = f.sent
      /\ r.denied = f.denied /\ r.limited = f.limited
  BY <1>2 DEF Fetch
<1>4. r \in Fetch
  BY <1>2 DEF Fetch, Standing
<1> HIDE DEF r
<1>5. /\ Busy(f) /\ f.plan # <<>> /\ StageFits(f) /\ Chances(f) /\ f.token # "none"
      /\ Operation(r) = Operation(f) /\ HasRefresh
      /\ f.attempt \in Nat /\ f.denied \in Nat /\ f.limited \in Nat /\ f.sent \in Nat
  BY <1>1, <1>2, <1>3 DEF Good, Busy, Active, Operation, Fetch
<1>6. CASE r.stage = "enter" /\ fetch' = [fetch EXCEPT ![c] = AfterEnsure(r)]
  <2> DEFINE m == AfterEnsure(r)
  <2>1. r.sent = 0 /\ ~Doomed(f)
    BY <1>3, <1>5, <1>6 DEF StageFits, Doomed
  <2>2. Good(m) /\ ~Doomed(m) /\ m.token = "none" /\ m.sent = 0
    BY <1>3, <1>4, <1>5, <2>1, AfterEnsureGood
  <2> HIDE DEF m
  <2>3. \A k \in Nat : Paid(m, k)
    BY <2>2, NothingSent
  <2>4. fetch' = [fetch EXCEPT ![c] = m]
    BY <1>6 DEF m
  <2> QED BY <1>1, <1>5, <2>1, <2>2, <2>3, <2>4, AssignTokens DEF f
<1>7. CASE r.stage = "media" /\ fetch' = [fetch EXCEPT ![c] = AfterEnsure([r EXCEPT !.delay = 0])]
  <2> DEFINE q == [r EXCEPT !.delay = 0]
             m == AfterEnsure(q)
  <2>1. q \in Fetch /\ q.plan = r.plan /\ q.token = "none" /\ q.sent = r.sent
    <3>1. 0 \in 0..Delays
      BY Constants
    <3> QED BY <1>3, <1>4, <3>1 DEF Fetch
  <2>2. fetch' = [fetch EXCEPT ![c] = m]
    BY <1>7
  <2> HIDE DEF q
  <2>3. Operation(q) = "download"
    BY <1>3, <1>5, <1>7, <2>1 DEF StageFits, Operation
  <2>4. /\ Good(m) /\ ~Doomed(m) /\ m.token = "none" /\ m.stage = "size"
        /\ m.pc = "request" /\ m.attempt = 0 /\ m.sent = f.sent
    BY <1>3, <1>5, <2>1, <2>3, AfterEnsureGood
  <2> HIDE DEF m
  <2>5. Doomed(f)
    BY <1>1, <1>3, <1>7 DEF Doomed
  <2>6. ASSUME NEW k \in Nat, Paid(f, k) PROVE Paid(m, k + 1)
    <3>1. f.sent <= PassCost(k) + Attempts + 1
      BY <1>1, <1>3, <1>5, <1>7, <2>6 DEF Paid, Spent, Sent, Begun
    <3>2. /\ PassCost(k) \in Nat /\ PassCost(k + 1) = PassCost(k) + OnePass
          /\ Attempts \in Nat /\ OnePass \in Nat /\ OnePass >= Attempts + 1 /\ Begun(m) = 0
      BY <2>4, StepCost, OnePassCost, Constants DEF Begun
    <3>3. m.sent <= PassCost(k + 1) + m.attempt + Begun(m)
      BY <1>5, <2>4, <3>1, <3>2
    <3> QED BY <2>4, <3>3 DEF Paid, Spent, Sent
  <2> QED BY <1>1, <1>5, <2>2, <2>4, <2>5, <2>6, AssignTokens DEF f
<1>8. CASE /\ r.stage \in Retried /\ r.attempt < Attempts - 1
           /\ fetch' = [fetch EXCEPT ![c] =
                          [r EXCEPT !.pc = "request", !.refreshed = TRUE, !.attempt = @ + 1]]
  <2> DEFINE m == [r EXCEPT !.pc = "request", !.refreshed = TRUE, !.attempt = @ + 1]
  <2>1. r.attempt + 1 \in 0..Attempts /\ r.attempt + 1 < Attempts
    BY <1>3, <1>5, <1>8, Constants
  <2>2. /\ m.pc = "request" /\ m.plan = r.plan /\ m.stage = r.stage
        /\ m.attempt = r.attempt + 1 /\ m.refreshed = TRUE
        /\ m.page = r.page /\ m.delay = r.delay /\ m.token = "none" /\ m.sent = r.sent
        /\ m.denied = r.denied /\ m.limited = r.limited
    BY <1>3, <1>4 DEF Fetch
  <2>3. m \in Fetch
    BY <1>4, <2>1 DEF Fetch
  <2>4. fetch' = [fetch EXCEPT ![c] = m]
    BY <1>8
  <2> HIDE DEF m
  <2>5. m.denied = 1 /\ m.attempt = m.limited + m.denied
    BY <1>1, <1>3, <1>5, <1>8, <2>2 DEF Chances
  <2>6. StageFits(m) /\ Chances(m)
    BY <1>3, <1>5, <1>8, <2>1, <2>2, <2>5 DEF StageFits, Chances, Operation, Retried
  <2>7. Good(m) /\ ~Doomed(m) /\ ~Doomed(f)
    BY <1>3, <1>5, <1>8, <2>2, <2>3, <2>6 DEF Good, Busy, Active, Doomed, Retried
  <2>8. ASSUME NEW k \in Nat, Paid(f, k) PROVE Paid(m, k)
    <3>1. /\ f.pc # "request" /\ f.stage \in Retried
          /\ (f.stage = "again" => f.delay >= 1) /\ m.attempt = f.attempt + 1
          /\ m.stage = f.stage /\ m.page = f.page /\ m.delay = f.delay
          /\ m.sent = f.sent /\ m.plan = f.plan
      BY <1>1, <1>3, <1>5, <1>8, <2>2 DEF StageFits
    <3> QED BY <1>2, <1>5, <2>2, <2>8, <3>1, RepeatCost
  <2> QED BY <1>1, <1>5, <2>2, <2>4, <2>7, <2>8, AssignTokens DEF f
<1>9. ASSUME r.stage \in Retried, r.attempt = Attempts - 1,
             NEW n \in Returned(r, 401), fetch' = [fetch EXCEPT ![c] = n]
      PROVE  IInv'
  <2>1. n = Raise(r)
    BY <1>9 DEF Returned
  <2>2. GivenUp(r)
    BY <1>1, <1>3, <1>5, <1>9 DEF Chances, GivenUp
  <2>3. Fresh(Raise(r))
    BY <1>3, <1>4, <1>5, <2>2, RaiseFresh
  <2>4. ~Doomed(f)
    BY <1>3, <1>9 DEF Doomed, Retried
  <2> QED BY <1>1, <1>5, <1>9, <2>1, <2>3, <2>4, AssignTokens DEF f, Fresh
<1> QED BY <1>1, <1>6, <1>7, <1>8, <1>9

LEMMA ExpireStep ==
  ASSUME IInv, Expire
  PROVE  IInv'
<1>1. /\ expiries \in Nat /\ expiries' = expiries + 1 /\ expiries' \in 0..MaxExpiries
      /\ IsFiniteSet(Hands) /\ Cardinality(Hands) \in Nat
  BY FS_CardinalityType, Constants DEF IInv, Expire
<1>2. CASE access_token = "live" /\ access_token' = "expired" /\ UNCHANGED fetch
  <2>1. Hands' = Hands
    BY <1>2 DEF Hands
  <2>2. \A d \in Fetches : Good(fetch'[d]) /\ Equipped(fetch'[d], access_token')
    BY <1>2 DEF IInv, Equipped
  <2>3. ASSUME NEW d \in Fetches PROVE Room(d)'
    <3>1. PICK k \in Nat : Paid(fetch[d], k) /\ k + Cardinality(Hands) + Owed(d) <= expiries
      BY DEF IInv, Room
    <3>2. Owed(d) \in {0, 1} /\ Owed(d)' = 1
      BY <1>2 DEF Owed
    <3>3. k + Cardinality(Hands)' + Owed(d)' <= expiries'
      BY <1>1, <2>1, <3>1, <3>2
    <3> QED BY <1>2, <3>1, <3>3 DEF Room
  <2> QED BY <1>1, <1>2, <2>1, <2>2, <2>3 DEF IInv, Standing
<1>3. ASSUME NEW c \in Fetches, fetch[c].token = "live",
             fetch' = [fetch EXCEPT ![c].token = "expired"], UNCHANGED access_token
      PROVE  IInv'
  <2> DEFINE r == fetch[c]
             m == [r EXCEPT !.token = "expired"]
  <2>1. fetch' = [d \in Fetches |-> IF d = c THEN m ELSE fetch[d]]
    BY <1>3 DEF IInv
  <2>2. r \in Fetch /\ Good(r) /\ Equipped(r, access_token)
    BY FetchKnown
  <2>3. r.token = "live"
    BY <1>3
  <2> HIDE DEF r
  <2>4. /\ m.pc = r.pc /\ m.status = r.status /\ m.plan = r.plan /\ m.stage = r.stage
        /\ m.attempt = r.attempt /\ m.refreshed = r.refreshed /\ m.page = r.page
        /\ m.delay = r.delay /\ m.token = "expired" /\ m.sent = r.sent
        /\ m.denied = r.denied /\ m.limited = r.limited
    BY <2>2 DEF Fetch
  <2>5. m \in Fetch
    BY <2>2 DEF Fetch, Standing
  <2> HIDE DEF m
  <2>6. Good(m) /\ Equipped(m, access_token)
    BY <2>2, <2>3, <2>4, <2>5
    DEF Good, Busy, StageFits, Chances, GivenUp, Equipped, Operation
  <2>7. Doomed(m) <=> Doomed(r)
    BY <2>4 DEF Doomed
  <2>8. \A k \in Nat : Paid(r, k) => Paid(m, k)
    <3>1. CASE Busy(r)
      BY <2>4, <3>1, SameCost DEF Begun
    <3>2. CASE ~Busy(r)
      BY <2>4, <3>2 DEF Busy, Paid
    <3> QED BY <3>1, <3>2
  <2>9. Hands' = Hands \cup {c} /\ c \notin Hands
    BY <1>3, <2>1, <2>4 DEF Hands
  <2>10. IsFiniteSet(Hands') /\ Cardinality(Hands') = Cardinality(Hands) + 1
    BY <1>1, <2>9, FS_AddElement
  <2>11. ASSUME NEW d \in Fetches PROVE Room(d)'
    <3>1. PICK k \in Nat : Paid(fetch[d], k) /\ k + Cardinality(Hands) + Owed(d) <= expiries
      BY DEF IInv, Room
    <3>2. Paid(fetch'[d], k)
      BY <2>1, <2>8, <3>1 DEF r
    <3>3. Owed(d) \in {0, 1} /\ Owed(d)' = Owed(d)
      BY <1>3, <2>1, <2>7 DEF Owed, r
    <3>4. k + Cardinality(Hands)' + Owed(d)' <= expiries'
      BY <1>1, <2>10, <3>1, <3>3
    <3> QED BY <3>2, <3>4 DEF Room
  <2>12. \A d \in Fetches : Good(fetch'[d]) /\ Equipped(fetch'[d], access_token')
    BY <1>3, <2>1, <2>6 DEF IInv
  <2>13. access_token' \in Standing
    BY <1>3 DEF IInv
  <2> QED BY <1>1, <2>1, <2>10, <2>11, <2>12, <2>13 DEF IInv
<1> QED BY <1>2, <1>3 DEF Expire

-----------------------------------------------------------------------------
(* The theorems *)

LEMMA NextIInv == IInv /\ [Next]_vars => IInv'
<1> SUFFICES ASSUME IInv, [Next]_vars PROVE IInv'
  OBVIOUS
<1>1. ASSUME NEW c \in Fetches, FetchStep(c) PROVE IInv'
  BY <1>1, StartStep, RequestStep, HandleRetriedStep, HandleStreamStep,
     HandleThumbnailStep, RefreshStep, AssignStep DEF FetchStep
<1>2. CASE Expire
  BY <1>2, ExpireStep
<1>3. CASE UNCHANGED vars
  <2>1. UNCHANGED <<access_token, expiries, fetch>>
    BY <1>3 DEF vars
  <2>2. Hands' = Hands /\ \A c \in Fetches : Room(c) => Room(c)'
    BY <2>1 DEF Hands, Room, Owed
  <2> QED BY <2>1, <2>2 DEF IInv
<1> QED BY <1>1, <1>2, <1>3 DEF Next

LEMMA Inductive == Spec => []IInv
<1>1. Init => IInv
  BY InitIInv
<1> QED BY <1>1, NextIInv, PTL DEF Spec

\* Every variable keeps its type: the local state of each coroutine, through
\* every answer that Drive can give to it, stays one the client can be in.
THEOREM TypeCorrect == Spec => []TypeOK
<1>1. IInv => TypeOK
  <2> SUFFICES ASSUME IInv PROVE TypeOK
    OBVIOUS
  <2>1. access_token \in Standing /\ expiries \in 0..MaxExpiries
        /\ fetch = [c \in Fetches |-> fetch[c]]
        /\ \A c \in Fetches : fetch[c] \in Fetch
    BY DEF IInv, Good
  <2>2. fetch \in [Fetches -> Fetch]
    BY <2>1
  <2> QED BY <2>1, <2>2 DEF TypeOK
<1> QED BY <1>1, Inductive, PTL

\* A refused token is no reason for _request_with_retry to give up: with a refresh
\* token it ends with a 401 only after a second refusal, or when every attempt
\* before the last went to waiting out a 429.
THEOREM TwoChancesAlways == Spec => []TwoChances
<1>1. IInv => TwoChances
  BY DEF IInv, Good, GivenUp, TwoChances, Unauthorized
<1> QED BY <1>1, Inductive, PTL

LEMMA QuotaKept ==
  ASSUME IInv, NEW c \in Fetches, fetch[c].plan # <<>>
  PROVE  fetch[c].sent <= Quota(Operation(fetch[c]))
<1> DEFINE r == fetch[c]
<1>1. /\ r \in Fetch /\ Good(r) /\ Busy(r) /\ StageFits(r) /\ Chances(r)
  BY DEF IInv, Good
<1>2. PICK k \in Nat : Paid(r, k) /\ k <= expiries
  <2>1. PICK k \in Nat : Paid(r, k) /\ k + Cardinality(Hands) + Owed(c) <= expiries
    BY DEF IInv, Room
  <2>2. Cardinality(Hands) \in Nat /\ Owed(c) \in {0, 1} /\ expiries \in Nat
    BY FS_CardinalityType, Constants DEF IInv, Owed
  <2> QED BY <2>1, <2>2
<1>3. r.plan # <<>> /\ Operation(r) \in Operations
  BY <1>1, FirstAndRest DEF Operation, Fetch
<1> HIDE DEF r
<1>4. /\ r.sent \in Nat /\ r.page \in 1..Pages /\ r.delay \in 0..Delays
      /\ r.attempt \in Nat /\ r.stage \in Stage /\ Begun(r) \in {0, 1}
      /\ r.stage \in Retried => r.attempt + Begun(r) <= Attempts
      /\ r.stage = "again" => r.delay \in 1..Delays
  BY <1>1, Constants DEF Fetch, Chances, StageFits, Begun
<1>5. /\ expiries \in Nat /\ Attempts \in Nat /\ Pages \in Nat /\ OnePass \in Nat
      /\ Pages * Attempts \in Nat
  BY Constants, OnePassCost, Multiples DEF IInv
<1>6. /\ PassCost(k) \in Nat /\ PassCost(k) + OnePass <= PassCost(expiries + 1)
      /\ PassCost(expiries + 1) = (1 + expiries) * OnePass
  <2>1. PassCost(k + 1) = PassCost(k) + OnePass /\ PassCost(k + 1) <= PassCost(expiries + 1)
        /\ PassCost(k) \in Nat
    <3>1. k + 1 \in Nat /\ expiries + 1 \in Nat /\ k + 1 <= expiries + 1
      BY <1>2, <1>5
    <3> QED BY <3>1, StepCost
  <2>2. expiries + 1 = 1 + expiries
    BY <1>5
  <2> QED BY <2>1, <2>2 DEF PassCost
<1>7. Spent(r, k)
  BY <1>1, <1>2 DEF Paid
<1>8. CASE r.stage = "list"
  <2>1. r.sent <= PageCost(r.page) + r.attempt + Begun(r)
    BY <1>7, <1>8 DEF Spent, Sent
  <2>2. PageCost(r.page) \in Nat /\ PageCost(r.page) + Attempts <= Pages * Attempts
    BY <1>4, StepCost
  <2>3. r.sent <= Pages * Attempts
    BY <1>4, <1>5, <1>8, <2>1, <2>2 DEF Retried
  <2> QED BY <1>1, <1>8, <2>3 DEF StageFits, Quota, r
<1>9. CASE r.stage \in {"size", "media", "again"}
  <2>1. /\ r.sent \in Nat /\ r.attempt \in Nat /\ Begun(r) \in Nat /\ Begun(r) <= 1
        /\ PassCost(k) \in Nat /\ Attempts \in Nat /\ OnePass \in Nat
        /\ OnePass >= Attempts + 1
    BY <1>4, <1>5, <1>6, OnePassCost
  <2>2. ASSUME r.stage = "size" PROVE r.sent <= PassCost(k) + OnePass
    <3>1. r.sent <= PassCost(k) + r.attempt + Begun(r)
      BY <1>7, <2>2 DEF Spent, Sent
    <3>2. r.attempt + Begun(r) <= Attempts
      BY <1>4, <2>2 DEF Retried
    <3> QED BY <2>1, <3>1, <3>2
  <2>3. ASSUME r.stage = "media" PROVE r.sent <= PassCost(k) + OnePass
    <3>1. r.sent <= PassCost(k) + Attempts + Begun(r)
      BY <1>7, <2>3 DEF Spent, Sent
    <3> QED BY <2>1, <3>1
  <2>4. ASSUME r.stage = "again" PROVE r.sent <= PassCost(k) + OnePass
    <3>1. r.sent <= PassCost(k) + Attempts + 1 + DelayCost(r.delay) + r.attempt + Begun(r)
      BY <1>7, <2>4 DEF Spent, Sent
    <3>2. DelayCost(r.delay) \in Nat /\ DelayCost(r.delay) + 2 * Attempts + 1 <= OnePass
      BY <1>4, <2>4, OnePassCost, StepCost
    <3>3. r.attempt + Begun(r) <= Attempts
      BY <1>4, <2>4 DEF Retried
    <3> DEFINE x == r.attempt
               b == Begun(r)
               d == DelayCost(r.delay)
    <3>4. x \in Nat /\ b \in Nat /\ d \in Nat
      BY <2>1, <3>2
    <3> HIDE DEF x, b, d
    <3>5. d + Attempts + Attempts + 1 <= OnePass
      BY <2>1, <3>2, <3>4 DEF d
    <3>6. PassCost(k) + Attempts + 1 + d + x + b <= PassCost(k) + OnePass
      BY <2>1, <3>3, <3>4, <3>5 DEF x, b
    <3> QED BY <2>1, <3>1, <3>4, <3>6 DEF x, b, d
  <2>5. PassCost(expiries + 1) \in Nat
    <3>1. expiries + 1 \in Nat
      BY <1>5
    <3> QED BY <3>1, StepCost
  <2>6. r.sent <= PassCost(k) + OnePass
    BY <1>9, <2>2, <2>3, <2>4
  <2>7. r.sent <= (1 + expiries) * OnePass
    BY <1>6, <2>1, <2>5, <2>6
  <2> QED BY <1>1, <1>9, <2>7 DEF StageFits, Quota, r
<1>10. CASE r.stage = "link"
  <2>1. r.sent <= r.attempt + Begun(r)
    BY <1>7, <1>10 DEF Spent, Sent
  <2>2. r.sent <= Attempts + 1
    BY <1>4, <1>5, <1>10, <2>1 DEF Retried
  <2> QED BY <1>1, <1>10, <2>2 DEF StageFits, Quota, r
<1>11. CASE r.stage = "cdn"
  <2>1. r.sent <= (IF Operation(r) = "thumbnail" THEN 0 ELSE Attempts) + Begun(r)
    BY <1>7, <1>11 DEF Spent, Sent
  <2>2. r.sent <= (IF Operation(r) = "thumbnail" THEN 1 ELSE Attempts + 1)
    BY <1>4, <1>5, <2>1
  <2> QED BY <1>1, <1>11, <2>2 DEF StageFits, Quota, r
<1>12. CASE r.stage = "enter"
  <2>1. r.sent = 0
    BY <1>1, <1>12 DEF StageFits
  <2>2. Quota(Operation(r)) \in Nat
    <3>1. (1 + expiries) * OnePass \in Nat
      BY <1>5, <1>6, StepCost
    <3> QED BY <1>3, <1>5, <3>1 DEF Quota, Operations
  <2> QED BY <2>1, <2>2 DEF r
<1> QED BY <1>4, <1>8, <1>9, <1>10, <1>11, <1>12 DEF Stage, Retried

\* A download that starts again after every refused stream has no limit in the
\* code, yet no fetch floods Drive: each pass that a 401 cuts short uses up a token
\* that has expired, wherever the tokens of the other coroutines end up.
THEOREM RequestsAreBounded == Spec => []RequestsBounded
<1>1. IInv => RequestsBounded
  BY QuotaKept DEF RequestsBounded
<1> QED BY <1>1, Inductive, PTL

=============================================================================
