------------------------------ MODULE Session -------------------------------
(***************************************************************************)
(* Sign-in, session tokens and the browser that uses them: the axios       *)
(* interceptor (frontend/src/api/client.ts), get_current_user, the         *)
(* routes of auth/router.py, the JWTs of jwt_handler.py with their         *)
(* blocklist, and the OAuth states of oauth.py.                            *)
(*                                                                         *)
(* One browser: its tabs share a cookie jar, each tab has an interceptor   *)
(* with a `refreshing` flag of its own.  One server process: between two   *)
(* awaits a handler runs alone, and the calls of Redis and of the JWT      *)
(* library do not await.  A handler is cut where it awaits between reading *)
(* one of these variables and writing one.                                 *)
(***************************************************************************)
EXTENDS Integers, Sequences, FiniteSets

CONSTANTS
  Tabs, Requests,  \* the tabs, and the requests their pages make
  TabOf,           \* the tab of a request
  States,          \* OAuth states: one for each call of /auth/login/google
  RoleAsked,       \* the role a state is asked for
  DevRoles,        \* the roles development sign-ins ask for
  Lifetime,        \* of a token and of its cookie (120 minutes in the code)
  StateLife,       \* of an OAuth state (5 minutes)
  MaxTime,         \* bound: seconds
  MaxTokens        \* bound: tokens issued

Roles == {"attendee", "organizer"}

ASSUME TabOfAssumption == TabOf \in [Requests -> Tabs]
ASSUME RolesAssumption == RoleAsked \in [States -> Roles] /\ DevRoles \subseteq Roles
ASSUME LivesAssumption == Lifetime \in Nat \ {0} /\ StateLife \in Nat \ {0}
ASSUME StatesAssumption == "dev" \notin States
ASSUME BoundsAssumption == MaxTime \in Nat \ {0} /\ MaxTokens \in Nat

VARIABLES
  now,             \* the second
  token,           \* every JWT issued, in order: role, exp and where it is from
  blocklist,       \* blocklist:<jti>: the second its entry ends in, 0 if none
  jar,             \* the access_token cookie and the second it is kept until
  oauth,           \* oauth_state:<state>, and the second it is kept until
  exchanging,      \* the states of the callbacks that exchange their code
  page,            \* window.location of each tab: "home" is "/"
  refreshing,      \* the flag of each tab
  request          \* the local state of each request

vars == <<now, token, blocklist, jar, oauth, exchanging, page, refreshing, request>>
serverVars == <<token, blocklist, oauth, exchanging>>
browserVars == <<jar, page, refreshing, request>>

Ids == 1..MaxTokens
NoToken == 0
Tokens == DOMAIN token

NoState == [at |-> "new", until |-> 0]
Gone == [at |-> "gone", until |-> 0]
NoCookie == [token |-> NoToken, until |-> 0]
\* checked is the second /auth/refresh decoded the token in; renewals is history:
\* how many renewals the request asked for.
NoRequest ==
  [pc |-> "idle", retried |-> FALSE, token |-> NoToken, status |-> 0, checked |-> 0,
   renewals |-> 0]

Init ==
  /\ now = 1
  /\ token = <<>>
  /\ blocklist = [i \in Ids |-> 0]
  /\ jar = NoCookie
  /\ oauth = [s \in States |-> NoState]
  /\ exchanging = {}
  /\ page = [t \in Tabs |-> "home"]
  /\ refreshing = [t \in Tabs |-> FALSE]
  /\ request = [r \in Requests |-> NoRequest]

-----------------------------------------------------------------------------
(* Tokens *)

\* create_access_token.  Where the token is from, and the second its parent was
\* decoded in, are history.
Issued(role, source, parent, checked) ==
  [role |-> role, exp |-> now + Lifetime,
   source |-> source, parent |-> parent, checked |-> checked]
Issue(role, source, parent, checked) ==
  /\ Len(token) < MaxTokens
  /\ token' = Append(token, Issued(role, source, parent, checked))

\* decode_access_token: python-jose compares whole seconds and accepts a token in
\* the second of its exp.
Decodes(i) == i # NoToken /\ now <= token[i].exp

\* is_token_revoked: an entry ends at some moment of its last second.
NoBlocklistBug(i) == {FALSE}
Revoked(i) == IF now = blocklist[i] THEN BOOLEAN ELSE {now < blocklist[i]}

\* logout: int(exp - now) drops the fraction of a second.
TimestampBug(i) == {token[i].exp}
Remaining(i) == {token[i].exp - now - 1, token[i].exp - now}

\* set_access_cookie in the browser: max_age counts from the answer.
Cookie(i) == [token |-> i, until |-> now + Lifetime]

-----------------------------------------------------------------------------
(* Signing in *)

\* /auth/login/google: generate_csrf_state, store_csrf_state.
LoginGoogle(s) ==
  /\ oauth[s] = NoState
  /\ oauth' = [oauth EXCEPT ![s] = [at |-> "stored", until |-> now + StateLife]]
  /\ UNCHANGED <<now, token, blocklist, exchanging, browserVars>>

\* The end of a sign-in: the user is found or inserted, the token issued and its
\* cookie set.
SignIn(source, role) ==
  /\ Issue(role, source, NoToken, 0)
  /\ jar' = Cookie(Len(token'))

\* /auth/dev-login: no state to verify.
DevLogin ==
  /\ \E role \in DevRoles : SignIn("dev", role)
  /\ UNCHANGED <<now, blocklist, oauth, exchanging, page, refreshing, request>>

\* verify_csrf_state consumes the state it finds.
NotConsumedBug(s) == oauth
Consumed(s) == [oauth EXCEPT ![s] = Gone]

\* /auth/callback, which the browser may load more than once for a state: it
\* consumes the state, then asks Google and the database.
Callback(s) ==
  /\ oauth[s].at = "stored"
  /\ oauth' = Consumed(s)
  /\ exchanging' = exchanging \cup {s}
  /\ UNCHANGED <<now, token, blocklist, browserVars>>

CallbackSignsIn(s) ==
  /\ s \in exchanging
  /\ exchanging' = exchanging \ {s}
  /\ SignIn(s, RoleAsked[s])
  /\ UNCHANGED <<now, blocklist, oauth, page, refreshing, request>>

\* The exchange of the code fails, or the insert of the user (another sign-in
\* inserted the account since the select): the state is spent all the same.
CallbackFails(s) ==
  /\ s \in exchanging
  /\ exchanging' = exchanging \ {s}
  /\ UNCHANGED <<now, token, blocklist, oauth, browserVars>>

\* /auth/logout revokes the token of the cookie.  The answer that would delete
\* the cookie is built and dropped: the browser keeps it.
Logout ==
  /\ jar.token # NoToken
  /\ IF Decodes(jar.token)
       THEN \E ttl \in Remaining(jar.token) :
              blocklist' = IF ttl > 0 THEN [blocklist EXCEPT ![jar.token] = now + ttl]
                                      ELSE blocklist
       ELSE UNCHANGED blocklist
  /\ UNCHANGED <<now, token, oauth, exchanging, browserVars>>

-----------------------------------------------------------------------------
(* Requests of a page and the interceptor *)

\* Handed to the page (its data, or a rejected promise) or lost with it.
Ended(pc) == [NoRequest EXCEPT !.pc = pc]
Pending(r) == request[r].pc \notin {"idle", "served", "failed"}
Sending(rec) ==
  [rec EXCEPT !.pc = "sent", !.token = jar.token, !.status = 0]

\* The router of the page takes a tab from "/" into the application.
OpenPage(t) ==
  /\ page[t] = "home"
  /\ page' = [page EXCEPT ![t] = "app"]
  /\ UNCHANGED <<now, serverVars, jar, refreshing, request>>

StartRequest(r) ==
  /\ request[r].pc = "idle"
  /\ request' = [request EXCEPT ![r] = Sending(NoRequest)]
  /\ UNCHANGED <<now, serverVars, jar, page, refreshing>>

\* get_current_user: whether it may refuse.
Refusals(i) == IF Decodes(i) THEN Revoked(i) ELSE {TRUE}

\* The step is the check of get_current_user: "served" means let through, and what
\* the route does then is not in this module.  The interceptor hands every answer
\* but a 401 on to the page, and the failure when there is no answer.
Serve(r) ==
  LET i == request[r].token IN
  /\ request[r].pc = "sent"
  /\ \/ /\ FALSE \in Refusals(i)
        /\ request' = [request EXCEPT ![r] = Ended("served")]
     \/ /\ TRUE \in Refusals(i)
        /\ request' = [request EXCEPT ![r].pc = "refused", ![r].token = NoToken]
     \/ request' = [request EXCEPT ![r] = Ended("failed")]
  /\ UNCHANGED <<now, serverVars, jar, page, refreshing>>

RetryAgainBug(r) == ~refreshing[TabOf[r]]
FlagIgnoredBug(r) == ~request[r].retried
MayRenew(r) == ~request[r].retried /\ ~refreshing[TabOf[r]]

\* A 401: the interceptor sends POST /auth/refresh.
Renew(r) ==
  /\ request[r].pc = "refused"
  /\ MayRenew(r)
  /\ refreshing' = [refreshing EXCEPT ![TabOf[r]] = TRUE]
  /\ request' = [request EXCEPT ![r].pc = "renewing", ![r].retried = TRUE,
                                ![r].token = jar.token, ![r].status = 0,
                                ![r].renewals = @ + 1]
  /\ UNCHANGED <<now, serverVars, jar, page>>

\* window.location.href = '/' loads the tab anew: its script and what it waited
\* for are gone.  On "/" itself the request is only rejected.
LeaveFor401(r) ==
  LET t == TabOf[r] IN
  /\ page' = [page EXCEPT ![t] = "home"]
  /\ refreshing' =
       [refreshing EXCEPT ![t] = @ /\ page[t] = "home" /\ request[r].pc # "renewed"]
  /\ request' = [q \in Requests |->
       IF q = r \/ (TabOf[q] = t /\ page[t] = "app" /\ Pending(q))
         THEN Ended("failed") ELSE request[q]]

\* A 401 of a retried request, or while the tab is refreshing.
Refuse(r) ==
  /\ request[r].pc = "refused"
  /\ ~MayRenew(r)
  /\ LeaveFor401(r)
  /\ UNCHANGED <<now, serverVars, jar>>

\* /auth/refresh: any token that decodes is good for a new one.
CheckRenewal(r) ==
  /\ request[r].pc = "renewing"
  /\ \/ /\ Decodes(request[r].token)
        /\ request' = [request EXCEPT ![r].pc = "checked", ![r].checked = now]
     \/ /\ ~Decodes(request[r].token)
        /\ request' = [request EXCEPT ![r].pc = "renewed", ![r].status = 401]
     \/ request' = [request EXCEPT ![r].pc = "renewed"]
  /\ UNCHANGED <<now, serverVars, jar, page, refreshing>>

\* The new token is issued once the user has been read, whatever happened to the
\* old one since it was decoded.
RoleForgottenBug(i) == "attendee"
RoleOf(i) == token[i].role
IssueRenewal(r) ==
  LET i == request[r].token IN
  /\ request[r].pc = "checked"
  /\ \/ /\ Issue(RoleOf(i), token[i].source, i, request[r].checked)
        /\ request' = [request EXCEPT ![r].pc = "renewed", ![r].status = 200,
                                      ![r].token = Len(token'), ![r].checked = 0]
     \/ /\ request' = [request EXCEPT ![r].pc = "renewed", ![r].checked = 0]
        /\ UNCHANGED token
  /\ UNCHANGED <<now, blocklist, oauth, exchanging, jar, page, refreshing>>

\* The answer brings the cookie, the request is sent once more, and the finally
\* block runs at once: `return api(original)` does not await.
Retry(r) ==
  /\ request[r].pc = "renewed" /\ request[r].status = 200
  /\ jar' = Cookie(request[r].token)
  /\ refreshing' = [refreshing EXCEPT ![TabOf[r]] = FALSE]
  /\ request' = [request EXCEPT
       ![r] = [Sending(@) EXCEPT !.token = request[r].token]]
  /\ UNCHANGED <<now, serverVars, page>>

\* The 401 of the refresh goes through the interceptor as well.
RenewalRefused(r) ==
  /\ request[r].pc = "renewed" /\ request[r].status = 401
  /\ LeaveFor401(r)
  /\ UNCHANGED <<now, serverVars, jar>>

RenewalLost(r) ==
  /\ request[r].pc = "renewed" /\ request[r].status = 0
  /\ refreshing' = [refreshing EXCEPT ![TabOf[r]] = FALSE]
  /\ request' = [request EXCEPT ![r] = Ended("failed")]
  /\ UNCHANGED <<now, serverVars, jar, page>>

\* A second passes.  Redis drops the states that are over, the browser its cookie;
\* an entry of the blocklist stays to be seen in `until`.
Tick ==
  /\ now < MaxTime
  /\ now' = now + 1
  /\ oauth' = [s \in States |->
       IF oauth[s].at = "stored" /\ oauth[s].until < now' THEN Gone ELSE oauth[s]]
  /\ jar' = IF jar.until < now' THEN NoCookie ELSE jar
  /\ UNCHANGED <<token, blocklist, exchanging, page, refreshing, request>>

Next ==
  \/ \E s \in States :
       LoginGoogle(s) \/ Callback(s) \/ CallbackSignsIn(s) \/ CallbackFails(s)
  \/ DevLogin
  \/ Logout
  \/ \E t \in Tabs : OpenPage(t)
  \/ \E r \in Requests :
       \/ StartRequest(r) \/ Serve(r) \/ Renew(r) \/ Refuse(r)
       \/ CheckRenewal(r) \/ IssueRenewal(r)
       \/ Retry(r) \/ RenewalRefused(r) \/ RenewalLost(r)
  \/ Tick

Spec == Init /\ [][Next]_vars

-----------------------------------------------------------------------------
(* Properties *)

\* Every variable keeps its type.
TypeOK ==
  /\ now \in 1..MaxTime
  /\ token \in Seq([role : Roles, exp : Nat, source : States \cup {"dev"},
                    parent : Nat, checked : Nat])
  /\ Len(token) <= MaxTokens
  /\ blocklist \in [Ids -> 0..MaxTime + Lifetime]
  /\ jar \in [token : Tokens \cup {NoToken}, until : Nat]
  /\ oauth \in [States -> [at : {"new", "stored", "gone"}, until : Nat]]
  /\ exchanging \subseteq States
  /\ page \in [Tabs -> {"home", "app"}]
  /\ refreshing \in [Tabs -> BOOLEAN]
  /\ request \in [Requests ->
       [pc : {"idle", "sent", "refused", "renewing", "checked", "renewed",
              "served", "failed"},
        retried : BOOLEAN, token : Tokens \cup {NoToken}, status : {0, 200, 401},
        checked : 0..MaxTime, renewals : Nat]]

\* The interceptor's flag is set exactly while its tab waits for a refresh, and
\* for one only: the flag cannot stick and leave the tab without renewals, and two
\* requests refused together do not both renew.
Renewing(t) ==
  {r \in Requests : TabOf[r] = t /\ request[r].pc \in {"renewing", "checked", "renewed"}}
OneRenewalPerTab ==
  \A t \in Tabs : Cardinality(Renewing(t)) = (IF refreshing[t] THEN 1 ELSE 0)

\* A request asks for one renewal and is repeated once, no more, whatever happens
\* to the session between the renewal and the repetition.
RenewedOnceAtMost == \A r \in Requests : request[r].renewals <= 1

\* get_current_user serves no request with an expired token, nor with a token
\* logged out, up to the second before its exp: the blocklist entry outlives the
\* rest of the token's life but for what int() cuts off and decode adds.
ServedNow(r) == request[r].pc = "sent" /\ request'[r].pc = "served"
OnlyLiveSessionsServe ==
  [][\A r \in Requests : ServedNow(r) =>
       LET i == request[r].token IN
       /\ now <= token[i].exp
       /\ blocklist[i] # 0 => now >= token[i].exp - 1]_vars

\* Back to its sign-in a token has a chain in which each was decoded while it
\* lasted, before the next was issued, and all have the role chosen at the sign-in:
\* renewals neither revive a session nor change it.  (The next may be issued after
\* the end of the one decoded: /auth/refresh reads the user in between.)
IssuedAt(i) == token[i].exp - Lifetime
SignedIn(i) ==
  token[i].source \in States => token[i].role = RoleAsked[token[i].source]
RenewedFrom(i, p) ==
  /\ p < i
  /\ token[i].checked \in IssuedAt(p)..token[p].exp
  /\ token[i].checked <= IssuedAt(i)
  /\ token[i].role = token[p].role /\ token[i].source = token[p].source
SessionsUnbroken ==
  \A i \in Tokens :
    IF token[i].parent = NoToken THEN SignedIn(i) ELSE RenewedFrom(i, token[i].parent)

\* An OAuth state signs in once, however often its callback is loaded.
OneSignInPerState ==
  \A i, j \in Tokens :
    /\ token[i].parent = NoToken /\ token[j].parent = NoToken
    /\ token[i].source = token[j].source /\ token[i].source \in States
    => i = j

\* A token logged out is good for nothing (docstring of logout,
\* auth/router.py:179-182: it "stops working immediately"): /auth/refresh lets
\* none through.
RenewalPasses(r) == request[r].pc = "renewing" /\ request'[r].pc = "checked"
LogoutEnds ==
  [][\A r \in Requests : RenewalPasses(r) => blocklist[request[r].token] = 0]_vars

=============================================================================
