---------------------------- MODULE SessionProofs ----------------------------
(***************************************************************************)
(* Proofs about Session, for every number of tabs, requests, states and    *)
(* tokens.                                                                 *)
(***************************************************************************)
EXTENDS Session, FiniteSetTheorems, TLAPS

TokenRecord ==
  [role : Roles, exp : Nat, source : States \cup {"dev"}, parent : Nat, checked : Nat]
RequestRecord ==
  [pc : {"idle", "sent", "refused", "renewing", "checked", "renewed", "served", "failed"},
   retried : BOOLEAN, token : Nat, status : {0, 200, 401}, checked : 0..MaxTime,
   renewals : Nat]

\* No token lives longer than from the last second on.
LastExp == MaxTime + Lifetime

\* The ids in use are those of issued tokens, and no exp is beyond the last.
Typed ==
  /\ now \in 1..MaxTime
  /\ token \in Seq(TokenRecord) /\ Len(token) <= MaxTokens
  /\ \A i \in Tokens : token[i].exp \in 0..LastExp
  /\ blocklist \in [Ids -> 0..LastExp]
  /\ jar \in [token : Nat, until : Nat] /\ jar.token <= Len(token)
  /\ oauth \in [States -> [at : {"new", "stored", "gone"}, until : Nat]]
  /\ exchanging \subseteq States
  /\ page \in [Tabs -> {"home", "app"}]
  /\ refreshing \in [Tabs -> BOOLEAN]
  /\ request \in [Requests -> RequestRecord]
  /\ \A r \in Requests : request[r].token <= Len(token)

\* A renewal under way holds a token that was decoded in its life.
ChecksKnown ==
  \A r \in Requests : request[r].pc = "checked" =>
    LET i == request[r].token IN
    /\ i \in Tokens
    /\ request[r].checked \in IssuedAt(i)..token[i].exp /\ request[r].checked <= now

LEMMA Constants ==
  /\ MaxTime \in Nat \ {0} /\ MaxTokens \in Nat /\ Lifetime \in Nat \ {0}
  /\ StateLife \in Nat
  /\ TabOf \in [Requests -> Tabs]
  /\ RoleAsked \in [States -> Roles] /\ DevRoles \subseteq Roles
  /\ "dev" \notin States
BY TabOfAssumption, RolesAssumption, LivesAssumption, StatesAssumption, BoundsAssumption

LEMMA NoRequestTyped ==
  /\ NoRequest \in RequestRecord /\ NoRequest.token = 0
  /\ \A pc \in {"idle", "served", "failed"} :
       Ended(pc) \in RequestRecord /\ Ended(pc).token = 0
<1>1. 0 \in 0..MaxTime
  BY Constants
<1> QED BY <1>1 DEF NoRequest, RequestRecord, NoToken, Ended

\* A token issued keeps the sequence typed, and the older tokens as they were.
LEMMA IssueTyped ==
  ASSUME Typed, NEW role \in Roles, NEW source \in States \cup {"dev"},
         NEW parent \in Nat, NEW checked \in Nat, Issue(role, source, parent, checked)
  PROVE  /\ token' \in Seq(TokenRecord)
         /\ Len(token') = Len(token) + 1 /\ Len(token') <= MaxTokens
         /\ Tokens' = Tokens \cup {Len(token')}
         /\ token'[Len(token')] = Issued(role, source, parent, checked)
         /\ \A i \in Tokens : token'[i] = token[i]
         /\ \A i \in Tokens' : token'[i].exp \in 0..LastExp
<1>1. Issued(role, source, parent, checked) \in TokenRecord
      /\ Issued(role, source, parent, checked).exp \in 0..LastExp
  BY Constants DEF Issued, TokenRecord, Typed, LastExp
<1>2. token' = Append(token, Issued(role, source, parent, checked)) /\ Len(token) < MaxTokens
  BY DEF Issue
<1>3. token \in Seq(TokenRecord) /\ Len(token) \in Nat /\ DOMAIN token = 1..Len(token)
  BY DEF Typed
<1>4. token' \in Seq(TokenRecord) /\ Len(token') = Len(token) + 1
      /\ DOMAIN token' = 1..Len(token')
  BY <1>1, <1>2, <1>3
<1>5. Len(token') <= MaxTokens
  BY <1>2, <1>3, <1>4, Constants
<1>6. /\ token'[Len(token')] = Issued(role, source, parent, checked)
      /\ \A i \in Tokens : token'[i] = token[i]
      /\ Tokens' = Tokens \cup {Len(token')}
  BY <1>1, <1>2, <1>3, <1>4 DEF Tokens
<1>7. \A i \in Tokens' : token'[i].exp \in 0..LastExp
  BY <1>1, <1>6 DEF Typed
<1> QED BY <1>4, <1>5, <1>6, <1>7

\* What is known of the state of a request.
LEMMA RequestKnown ==
  ASSUME Typed, NEW r \in Requests
  PROVE  /\ request[r] \in RequestRecord /\ request = [q \in Requests |-> request[q]]
         /\ request[r].token \in Nat /\ request[r].token <= Len(token)
         /\ Len(token) \in Nat /\ jar.token \in Nat /\ jar.token <= Len(token)
BY DEF Typed, RequestRecord

\* A request put into another state keeps the requests typed.
LEMMA RequestTyped ==
  ASSUME Typed, NEW r \in Requests, NEW rec \in RequestRecord,
         request' = [request EXCEPT ![r] = rec]
  PROVE  /\ request' \in [Requests -> RequestRecord]
         /\ \A q \in Requests : request'[q] = IF q = r THEN rec ELSE request[q]
BY RequestKnown DEF Typed

LEMMA RequestTokens ==
  ASSUME Typed, NEW r \in Requests, NEW rec \in RequestRecord,
         request' = [request EXCEPT ![r] = rec], rec.token <= Len(token)
  PROVE  \A q \in Requests : request'[q].token <= Len(token)
BY RequestTyped, RequestKnown

\* What leaving a page does to the requests of its tab.
LEMMA LeaveTyped ==
  ASSUME Typed, NEW r \in Requests, LeaveFor401(r)
  PROVE  /\ page' \in [Tabs -> {"home", "app"}]
         /\ refreshing' \in [Tabs -> BOOLEAN]
         /\ request' \in [Requests -> RequestRecord]
         /\ \A q \in Requests : request'[q].token <= Len(token)
<1>1. TabOf[r] \in Tabs /\ Len(token) \in Nat
  BY Constants DEF Typed
<1>2. page' \in [Tabs -> {"home", "app"}]
  BY <1>1 DEF LeaveFor401, Typed
<1>3. refreshing' \in [Tabs -> BOOLEAN]
  BY <1>1 DEF LeaveFor401, Typed
<1>4. /\ \A q \in Requests : request'[q] \in {request[q], Ended("failed")}
      /\ request' = [q \in Requests |-> request'[q]]
  BY DEF LeaveFor401
<1>5. ASSUME NEW q \in Requests
      PROVE  request'[q] \in RequestRecord /\ request'[q].token <= Len(token)
  BY <1>1, <1>4, NoRequestTyped, RequestKnown
<1> QED BY <1>2, <1>3, <1>4, <1>5

LEMMA TypedInit == Init => Typed
<1> SUFFICES ASSUME Init PROVE Typed
  OBVIOUS
<1>1. token \in Seq(TokenRecord) /\ Len(token) = 0 /\ Tokens = {}
  BY DEF Init, Tokens
<1>2. request \in [Requests -> RequestRecord] /\ \A r \in Requests : request[r].token = 0
  BY NoRequestTyped DEF Init
<1>3. oauth \in [States -> [at : {"new", "stored", "gone"}, until : Nat]]
  BY DEF Init, NoState
<1> QED
  BY <1>1, <1>2, <1>3, Constants DEF Init, Typed, LastExp, NoCookie, NoToken

\* The cookie of a token that exists.
LEMMA CookieTyped ==
  ASSUME Typed, NEW i \in Nat
  PROVE  Cookie(i) \in [token : Nat, until : Nat] /\ Cookie(i).token = i
BY Constants DEF Cookie, Typed

\* A sign-in adds a token and hands it to the browser.
LEMMA SignInTyped ==
  ASSUME Typed, NEW role \in Roles, NEW source \in States \cup {"dev"},
         SignIn(source, role), UNCHANGED <<now, blocklist, page, refreshing, request>>,
         exchanging' \subseteq States,
         oauth' \in [States -> [at : {"new", "stored", "gone"}, until : Nat]]
  PROVE  Typed'
<1>1. Issue(role, source, NoToken, 0) /\ NoToken \in Nat
  BY DEF SignIn, NoToken
<1>2. /\ token' \in Seq(TokenRecord)
      /\ Len(token') = Len(token) + 1 /\ Len(token') <= MaxTokens
      /\ \A i \in Tokens' : token'[i].exp \in 0..LastExp
  BY <1>1, IssueTyped
<1>3. Len(token) \in Nat /\ \A r \in Requests : request[r].token \in Nat
  BY DEF Typed, RequestRecord
<1>4. jar' \in [token : Nat, until : Nat] /\ jar'.token = Len(token')
  BY <1>2, <1>3, CookieTyped DEF SignIn
<1>5. \A r \in Requests : request'[r].token <= Len(token')
  BY <1>2, <1>3 DEF Typed
<1> QED BY <1>2, <1>3, <1>4, <1>5 DEF Typed

\* Every step keeps the types.
LEMMA TypedNext == Typed /\ ChecksKnown /\ [Next]_vars => Typed'
<1> SUFFICES ASSUME Typed, ChecksKnown, [Next]_vars PROVE Typed'
  OBVIOUS
<1> USE Constants
<1>0. Len(token) \in Nat
  BY DEF Typed
<1>1. ASSUME NEW s \in States, LoginGoogle(s) PROVE Typed'
  <2>1. oauth' \in [States -> [at : {"new", "stored", "gone"}, until : Nat]]
    BY <1>1 DEF LoginGoogle, Typed
  <2> QED BY <1>1, <2>1 DEF LoginGoogle, Typed, browserVars, Tokens
<1>2. ASSUME NEW s \in States, Callback(s) PROVE Typed'
  <2>1. oauth' \in [States -> [at : {"new", "stored", "gone"}, until : Nat]]
    BY <1>2 DEF Callback, Consumed, Gone, Typed
  <2> QED BY <1>2, <2>1 DEF Callback, Typed, browserVars, Tokens
<1>17. ASSUME NEW s \in States, CallbackSignsIn(s) PROVE Typed'
  <2>1. /\ oauth' \in [States -> [at : {"new", "stored", "gone"}, until : Nat]]
        /\ exchanging' \subseteq States
    BY <1>17 DEF CallbackSignsIn, Typed
  <2>2. SignIn(s, RoleAsked[s]) /\ RoleAsked[s] \in Roles
        /\ UNCHANGED <<now, blocklist, page, refreshing, request>>
    BY <1>17 DEF CallbackSignsIn
  <2> QED BY <2>1, <2>2, SignInTyped
<1>3. ASSUME NEW s \in States, CallbackFails(s) PROVE Typed'
  BY <1>3 DEF CallbackFails, Typed, browserVars, Tokens
<1>4. ASSUME DevLogin PROVE Typed'
  <2>1. PICK role \in DevRoles : SignIn("dev", role)
    BY <1>4 DEF DevLogin
  <2>2. UNCHANGED <<now, blocklist, oauth, page, refreshing, request>> /\ role \in Roles
    BY <1>4 DEF DevLogin
  <2>3. /\ oauth' \in [States -> [at : {"new", "stored", "gone"}, until : Nat]]
        /\ exchanging' \subseteq States
    BY <1>4 DEF DevLogin, Typed
  <2> QED BY <2>1, <2>2, <2>3, SignInTyped
<1>5. ASSUME Logout PROVE Typed'
  <2>1. UNCHANGED <<now, token, oauth, exchanging, jar, page, refreshing, request>>
    BY <1>5 DEF Logout, browserVars
  <2>2. CASE Decodes(jar.token)
    <3>1. jar.token \in Tokens /\ jar.token \in Ids /\ token[jar.token].exp \in 0..LastExp
      BY <1>0, <2>2 DEF Decodes, NoToken, Typed, Tokens, Ids
    <3>2. PICK ttl \in Remaining(jar.token) :
            blocklist' = IF ttl > 0 THEN [blocklist EXCEPT ![jar.token] = now + ttl]
                                    ELSE blocklist
      BY <1>5, <2>2 DEF Logout
    <3>3. ttl > 0 => now + ttl \in 0..LastExp
      BY SMTT(30), <3>1, <3>2 DEF Remaining, Typed, LastExp
    <3>4. blocklist' \in [Ids -> 0..LastExp]
      BY <3>1, <3>2, <3>3 DEF Typed
    <3> QED BY <2>1, <3>4 DEF Typed, Tokens
  <2>3. CASE ~Decodes(jar.token)
    BY <1>5, <2>1, <2>3 DEF Logout, Typed, Tokens
  <2> QED BY <2>2, <2>3
<1>6. ASSUME NEW t \in Tabs, OpenPage(t) PROVE Typed'
  BY <1>6 DEF OpenPage, serverVars, Typed, Tokens
<1>7. ASSUME NEW r \in Requests, StartRequest(r) PROVE Typed'
  <2>1. Sending(NoRequest) \in RequestRecord /\ Sending(NoRequest).token = jar.token
    <3>1. NoRequest \in RequestRecord /\ jar.token \in Nat
      BY NoRequestTyped, RequestKnown
    <3> HIDE DEF NoRequest
    <3> QED BY ZenonT(60), <3>1 DEF Sending, RequestRecord
  <2>2. /\ request' \in [Requests -> RequestRecord]
        /\ \A q \in Requests : request'[q].token <= Len(token)
    <3>1. request' = [request EXCEPT ![r] = Sending(NoRequest)]
      BY <1>7 DEF StartRequest
    <3>2. Sending(NoRequest).token <= Len(token)
      BY <2>1, RequestKnown
    <3> QED BY <2>1, <3>1, <3>2, RequestTyped, RequestTokens
  <2> QED BY <1>7, <2>2 DEF StartRequest, serverVars, Typed, Tokens
<1>8. ASSUME NEW r \in Requests, Serve(r) PROVE Typed'
  <2>1. [request[r] EXCEPT !.pc = "refused", !.token = NoToken] \in RequestRecord
        /\ [request[r] EXCEPT !.pc = "refused", !.token = NoToken].token = 0
    <3>1. request[r] \in RequestRecord
      BY RequestKnown
    <3> QED BY ZenonT(60), <3>1 DEF RequestRecord, NoToken
  <2>2. PICK rec \in RequestRecord : rec.token = 0 /\ request' = [request EXCEPT ![r] = rec]
    <3>1. CASE request' = [request EXCEPT ![r].pc = "refused", ![r].token = NoToken]
      <4>1. request' = [request EXCEPT ![r] =
                         [request[r] EXCEPT !.pc = "refused", !.token = NoToken]]
        BY <3>1, RequestKnown
      <4> QED BY <2>1, <4>1
    <3>2. CASE \E pc \in {"served", "failed"} : request' = [request EXCEPT ![r] = Ended(pc)]
      BY <3>2, NoRequestTyped
    <3> QED BY <1>8, <3>1, <3>2 DEF Serve
  <2>3. /\ request' \in [Requests -> RequestRecord]
        /\ \A q \in Requests : request'[q].token <= Len(token)
    <3>1. rec.token <= Len(token)
      BY <1>0, <2>2
    <3> QED BY <2>2, <3>1, RequestTyped, RequestTokens
  <2> QED BY <1>8, <2>3 DEF Serve, serverVars, Typed, Tokens
<1>9. ASSUME NEW r \in Requests, Renew(r) PROVE Typed'
  <2> DEFINE rec == [request[r] EXCEPT !.pc = "renewing", !.retried = TRUE,
                       !.token = jar.token, !.status = 0, !.renewals = @ + 1]
  <2>1. rec \in RequestRecord /\ rec.token = jar.token
    <3>1. request[r] \in RequestRecord /\ jar.token \in Nat
      BY RequestKnown
    <3>2. request[r].renewals + 1 \in Nat
      BY <3>1 DEF RequestRecord
    <3>3. rec.token = jar.token
      BY <3>1 DEF RequestRecord
    <3>4. rec \in RequestRecord
      BY ZenonT(60), <3>1, <3>2 DEF RequestRecord
    <3> QED BY <3>3, <3>4
  <2>2. request' = [request EXCEPT ![r] = rec]
    BY <1>9, RequestKnown DEF Renew
  <2>3. /\ request' \in [Requests -> RequestRecord]
        /\ \A q \in Requests : request'[q].token <= Len(token)
    <3> HIDE DEF rec
    <3>1. rec.token <= Len(token)
      BY <2>1, RequestKnown
    <3> QED BY <2>1, <2>2, <3>1, RequestTyped, RequestTokens
  <2>4. refreshing' \in [Tabs -> BOOLEAN]
    BY <1>9 DEF Renew, Typed
  <2> QED BY <1>9, <2>3, <2>4 DEF Renew, serverVars, Typed, Tokens
<1>10. ASSUME NEW r \in Requests, Refuse(r) PROVE Typed'
  <2>1. LeaveFor401(r)
    BY <1>10 DEF Refuse
  <2> QED BY <1>10, <2>1, LeaveTyped DEF Refuse, serverVars, Typed, Tokens
<1>11. ASSUME NEW r \in Requests, CheckRenewal(r) PROVE Typed'
  <2>1. request[r] \in RequestRecord /\ now \in 0..MaxTime
    BY RequestKnown DEF Typed
  <2>2. PICK rec \in RequestRecord :
          rec.token = request[r].token /\ request' = [request EXCEPT ![r] = rec]
    <3>1. CASE request' = [request EXCEPT ![r].pc = "checked", ![r].checked = now]
      <4> DEFINE rec == [request[r] EXCEPT !.pc = "checked", !.checked = now]
      <4>1. rec \in RequestRecord /\ rec.token = request[r].token
        BY ZenonT(60), <2>1 DEF RequestRecord
      <4>2. request' = [request EXCEPT ![r] = rec]
        BY <3>1, RequestKnown
      <4> QED BY <4>1, <4>2
    <3>2. CASE request' = [request EXCEPT ![r].pc = "renewed", ![r].status = 401]
      <4>0. PICK status \in {0, 200, 401} : status = 401
        OBVIOUS
      <4> DEFINE rec == [request[r] EXCEPT !.pc = "renewed", !.status = status]
      <4>1. rec \in RequestRecord /\ rec.token = request[r].token
        BY ZenonT(60), <2>1 DEF RequestRecord
      <4>2. request' = [request EXCEPT ![r] = rec]
        BY ZenonT(60), <3>2, <4>0, RequestKnown
      <4> QED BY <4>1, <4>2
    <3>3. CASE request' = [request EXCEPT ![r].pc = "renewed"]
      <4> DEFINE rec == [request[r] EXCEPT !.pc = "renewed"]
      <4>1. rec \in RequestRecord /\ rec.token = request[r].token
        BY ZenonT(60), <2>1 DEF RequestRecord
      <4>2. request' = [request EXCEPT ![r] = rec]
        BY <3>3, RequestKnown
      <4> QED BY <4>1, <4>2
    <3> QED BY <1>11, <3>1, <3>2, <3>3 DEF CheckRenewal
  <2>3. /\ request' \in [Requests -> RequestRecord]
        /\ \A q \in Requests : request'[q].token <= Len(token)
    <3>1. rec.token <= Len(token)
      BY <2>2, RequestKnown
    <3> QED BY <2>2, <3>1, RequestTyped, RequestTokens
  <2> QED BY <1>11, <2>3 DEF CheckRenewal, serverVars, Typed, Tokens
<1>18. ASSUME NEW r \in Requests, ChecksKnown, IssueRenewal(r) PROVE Typed'
  <2> DEFINE i == request[r].token
             c == request[r].checked
  <2>1. UNCHANGED <<now, blocklist, oauth, exchanging, jar, page, refreshing>>
    BY <1>18 DEF IssueRenewal
  <2>2. CASE Issue(RoleOf(i), token[i].source, i, c)
             /\ request' = [request EXCEPT ![r].pc = "renewed", ![r].status = 200,
                                ![r].token = Len(token'), ![r].checked = 0]
    <3>1. i \in Nat /\ i \in Tokens /\ token[i] \in TokenRecord /\ c \in Nat
      BY SMTT(60), <1>18, RequestKnown DEF IssueRenewal, ChecksKnown, Typed, Tokens, RequestRecord
    <3>2. RoleOf(i) \in Roles /\ token[i].source \in States \cup {"dev"}
      BY <3>1 DEF RoleOf, TokenRecord
    <3>3. /\ token' \in Seq(TokenRecord)
          /\ Len(token') = Len(token) + 1 /\ Len(token') <= MaxTokens
          /\ \A j \in Tokens' : token'[j].exp \in 0..LastExp
      BY <2>2, <3>1, <3>2, IssueTyped
    <3> DEFINE rec == [request[r] EXCEPT !.pc = "renewed", !.status = 200,
                                         !.token = Len(token'), !.checked = 0]
    <3>4. rec \in RequestRecord /\ rec.token = Len(token') /\ Len(token') \in Nat
      <4>1. request[r] \in RequestRecord /\ Len(token') \in Nat /\ 0 \in 0..MaxTime
        BY <1>0, <3>3, RequestKnown
      <4> QED BY ZenonT(60), <4>1 DEF RequestRecord
    <3>5. request' = [request EXCEPT ![r] = rec]
      BY ZenonT(60), <2>2, RequestKnown
    <3>6. Len(token) <= Len(token')
      BY <1>0, <3>3
    <3>7. /\ request' \in [Requests -> RequestRecord]
          /\ \A q \in Requests : request'[q].token <= Len(token')
      <4> HIDE DEF rec
      <4>1. /\ request' \in [Requests -> RequestRecord]
            /\ \A q \in Requests : request'[q] = IF q = r THEN rec ELSE request[q]
        BY <3>4, <3>5, RequestTyped
      <4>2. \A q \in Requests : request[q].token <= Len(token')
        BY <3>4, <3>6, RequestKnown
      <4> QED BY <3>4, <4>1, <4>2
    <3>8. jar.token \in Nat /\ jar.token <= Len(token')
      BY <1>0, <3>3 DEF Typed
    <3> QED BY <2>1, <3>3, <3>7, <3>8 DEF Typed
  <2>3. CASE UNCHANGED token
             /\ request' = [request EXCEPT ![r].pc = "renewed", ![r].checked = 0]
    <3> DEFINE rec == [request[r] EXCEPT !.pc = "renewed", !.checked = 0]
    <3>1. rec \in RequestRecord /\ rec.token = request[r].token
      <4>1. request[r] \in RequestRecord /\ 0 \in 0..MaxTime
        BY RequestKnown
      <4> QED BY ZenonT(60), <4>1 DEF RequestRecord
    <3>2. request' = [request EXCEPT ![r] = rec]
      BY <2>3, RequestKnown
    <3>3. /\ request' \in [Requests -> RequestRecord]
          /\ \A q \in Requests : request'[q].token <= Len(token)
      <4> HIDE DEF rec
      <4>1. rec.token <= Len(token)
        BY <3>1, RequestKnown
      <4> QED BY <3>1, <3>2, <4>1, RequestTyped, RequestTokens
    <3> QED BY <2>1, <2>3, <3>3 DEF Typed, Tokens
  <2> QED BY <1>18, <2>2, <2>3 DEF IssueRenewal
<1>12. ASSUME NEW r \in Requests, Retry(r) PROVE Typed'
  <2> DEFINE rec == [Sending(request[r]) EXCEPT !.token = request[r].token]
  <2>1. rec \in RequestRecord /\ rec.token = request[r].token
    <3>1. request[r] \in RequestRecord /\ request[r].token \in Nat /\ jar.token \in Nat
      BY RequestKnown
    <3>2. Sending(request[r]) \in RequestRecord
      BY ZenonT(60), <3>1 DEF Sending, RequestRecord
    <3> HIDE DEF Sending
    <3> QED BY <3>1, <3>2 DEF RequestRecord
  <2>2. request' = [request EXCEPT ![r] = rec]
    BY <1>12 DEF Retry
  <2>3. /\ request' \in [Requests -> RequestRecord]
        /\ \A q \in Requests : request'[q].token <= Len(token)
    <3> HIDE DEF rec
    <3>1. rec.token <= Len(token)
      BY <2>1, RequestKnown
    <3> QED BY <2>1, <2>2, <3>1, RequestTyped, RequestTokens
  <2>4. jar' \in [token : Nat, until : Nat] /\ jar'.token <= Len(token)
    BY SMTT(30), <1>12, CookieTyped DEF Retry, Typed, RequestRecord
  <2>5. refreshing' \in [Tabs -> BOOLEAN]
    BY <1>12 DEF Retry, Typed
  <2> QED BY <1>12, <2>3, <2>4, <2>5 DEF Retry, serverVars, Typed, Tokens
<1>13. ASSUME NEW r \in Requests, RenewalRefused(r) PROVE Typed'
  <2>1. LeaveFor401(r)
    BY <1>13 DEF RenewalRefused
  <2> QED BY <1>13, <2>1, LeaveTyped DEF RenewalRefused, serverVars, Typed, Tokens
<1>14. ASSUME NEW r \in Requests, RenewalLost(r) PROVE Typed'
  <2>1. /\ request' \in [Requests -> RequestRecord]
        /\ \A q \in Requests : request'[q].token <= Len(token)
    <3>1. request' = [request EXCEPT ![r] = Ended("failed")]
      BY <1>14 DEF RenewalLost
    <3>2. Ended("failed") \in RequestRecord /\ Ended("failed").token <= Len(token)
      BY <1>0, NoRequestTyped
    <3> QED BY <3>1, <3>2, RequestTyped, RequestTokens
  <2>2. refreshing' \in [Tabs -> BOOLEAN]
    BY <1>14 DEF RenewalLost, Typed
  <2> QED BY <1>14, <2>1, <2>2 DEF RenewalLost, serverVars, Typed, Tokens
<1>15. ASSUME Tick PROVE Typed'
  <2>1. oauth' \in [States -> [at : {"new", "stored", "gone"}, until : Nat]]
    BY <1>15 DEF Tick, Typed, Gone
  <2>2. jar' \in [token : Nat, until : Nat] /\ jar'.token <= Len(token)
    BY <1>0, <1>15 DEF Tick, Typed, NoCookie, NoToken
  <2>3. now' \in 1..MaxTime
    BY <1>15 DEF Tick, Typed
  <2> QED BY <1>15, <2>1, <2>2, <2>3 DEF Tick, Typed, Tokens
<1>16. ASSUME UNCHANGED vars PROVE Typed'
  BY <1>16 DEF vars, Typed, Tokens
<1> QED
  BY <1>1, <1>2, <1>3, <1>4, <1>5, <1>6, <1>7, <1>8, <1>9, <1>10, <1>11, <1>12,
     <1>13, <1>14, <1>15, <1>16, <1>17, <1>18 DEF Next

-----------------------------------------------------------------------------
(* Renewals *)

\* A request has asked for a renewal only if it is marked as retried, and never
\* for a second one.
Retried(rec) == rec.renewals = IF rec.retried THEN 1 ELSE 0
RetriesCounted == \A r \in Requests : Retried(request[r])

\* The flag of a tab is set if a request of it waits for a renewal, and then for
\* that one only.
FlagTells ==
  \A t \in Tabs : /\ refreshing[t] <=> Renewing(t) # {}
                  /\ \A q, r \in Renewing(t) : q = r

LEMMA RetriesInit == Init => RetriesCounted
BY DEF Init, RetriesCounted, Retried, NoRequest

LEMMA FlagInit == Init => FlagTells
BY DEF Init, FlagTells, Renewing, NoRequest

\* A request that changes, alone, keeps the count if its record does.
LEMMA RetriesKept ==
  ASSUME Typed, RetriesCounted, NEW r \in Requests, NEW rec,
         request' = [request EXCEPT ![r] = rec], Retried(rec)
  PROVE  RetriesCounted'
BY RequestKnown DEF RetriesCounted, Retried

LEMMA EndedRetries == \A pc : Retried(Ended(pc))
BY DEF Retried, Ended, NoRequest

LEMMA RetriesNext == Typed /\ RetriesCounted /\ [Next]_vars => RetriesCounted'
<1> SUFFICES ASSUME Typed, RetriesCounted, [Next]_vars PROVE RetriesCounted'
  OBVIOUS
<1>1. CASE UNCHANGED request
  BY <1>1 DEF RetriesCounted
<1>2. ASSUME NEW r \in Requests, StartRequest(r) PROVE RetriesCounted'
  <2>1. Retried(Sending(NoRequest))
    BY DEF Retried, Sending, NoRequest
  <2> QED BY <1>2, <2>1, RetriesKept DEF StartRequest
<1>3. ASSUME NEW r \in Requests, Serve(r) PROVE RetriesCounted'
  <2>1. CASE request' = [request EXCEPT ![r].pc = "refused", ![r].token = NoToken]
    <3>1. request' = [request EXCEPT ![r] =
                        [request[r] EXCEPT !.pc = "refused", !.token = NoToken]]
      BY <2>1, RequestKnown
    <3>2. Retried([request[r] EXCEPT !.pc = "refused", !.token = NoToken])
      BY RequestKnown DEF RetriesCounted, Retried, RequestRecord
    <3> QED BY <3>1, <3>2, RetriesKept
  <2>2. CASE \E pc \in {"served", "failed"} : request' = [request EXCEPT ![r] = Ended(pc)]
    BY <2>2, EndedRetries, RetriesKept
  <2> QED BY <1>3, <2>1, <2>2 DEF Serve
<1>4. ASSUME NEW r \in Requests, Renew(r) PROVE RetriesCounted'
  <2> DEFINE rec == [request[r] EXCEPT !.pc = "renewing", !.retried = TRUE,
                       !.token = jar.token, !.status = 0, !.renewals = @ + 1]
  <2>1. request' = [request EXCEPT ![r] = rec]
    BY <1>4, RequestKnown DEF Renew
  <2>2. request[r].renewals = 0
    BY <1>4 DEF Renew, MayRenew, RetriesCounted, Retried
  <2>3. Retried(rec)
    BY <2>2, RequestKnown DEF Retried, RequestRecord
  <2> QED BY <2>1, <2>3, RetriesKept
<1>5. ASSUME NEW r \in Requests, LeaveFor401(r) PROVE RetriesCounted'
  BY <1>5, EndedRetries DEF LeaveFor401, RetriesCounted
<1>6. ASSUME NEW r \in Requests, CheckRenewal(r) PROVE RetriesCounted'
  <2>1. CASE request' = [request EXCEPT ![r].pc = "checked", ![r].checked = now]
    <3> DEFINE rec == [request[r] EXCEPT !.pc = "checked", !.checked = now]
    <3>1. request' = [request EXCEPT ![r] = rec]
      BY ZenonT(60), <2>1, RequestKnown
    <3>2. Retried(rec)
      BY RequestKnown DEF Retried, RetriesCounted, RequestRecord
    <3> QED BY <3>1, <3>2, RetriesKept
  <2>2. CASE request' = [request EXCEPT ![r].pc = "renewed", ![r].status = 401]
    <3> DEFINE rec == [request[r] EXCEPT !.pc = "renewed", !.status = 401]
    <3>1. request' = [request EXCEPT ![r] = rec]
      BY ZenonT(60), <2>2, RequestKnown
    <3>2. Retried(rec)
      BY RequestKnown DEF Retried, RetriesCounted, RequestRecord
    <3> QED BY <3>1, <3>2, RetriesKept
  <2>3. CASE request' = [request EXCEPT ![r].pc = "renewed"]
    <3> DEFINE rec == [request[r] EXCEPT !.pc = "renewed"]
    <3>1. request' = [request EXCEPT ![r] = rec]
      BY ZenonT(60), <2>3, RequestKnown
    <3>2. Retried(rec)
      BY RequestKnown DEF Retried, RetriesCounted, RequestRecord
    <3> QED BY <3>1, <3>2, RetriesKept
  <2> QED BY <1>6, <2>1, <2>2, <2>3 DEF CheckRenewal
<1>9. ASSUME NEW r \in Requests, IssueRenewal(r) PROVE RetriesCounted'
  <2>1. CASE request' = [request EXCEPT ![r].pc = "renewed", ![r].status = 200,
                                        ![r].token = Len(token'), ![r].checked = 0]
    <3> DEFINE rec == [request[r] EXCEPT !.pc = "renewed", !.status = 200,
                                         !.token = Len(token'), !.checked = 0]
    <3>1. request' = [request EXCEPT ![r] = rec]
      BY ZenonT(60), <2>1, RequestKnown
    <3>2. Retried(rec)
      BY RequestKnown DEF Retried, RetriesCounted, RequestRecord
    <3> QED BY <3>1, <3>2, RetriesKept
  <2>2. CASE request' = [request EXCEPT ![r].pc = "renewed", ![r].checked = 0]
    <3> DEFINE rec == [request[r] EXCEPT !.pc = "renewed", !.checked = 0]
    <3>1. request' = [request EXCEPT ![r] = rec]
      BY ZenonT(60), <2>2, RequestKnown
    <3>2. Retried(rec)
      BY RequestKnown DEF Retried, RetriesCounted, RequestRecord
    <3> QED BY <3>1, <3>2, RetriesKept
  <2> QED BY <1>9, <2>1, <2>2 DEF IssueRenewal
<1>7. ASSUME NEW r \in Requests, Retry(r) PROVE RetriesCounted'
  <2>1. Retried([Sending(request[r]) EXCEPT !.token = request[r].token])
    BY RequestKnown DEF Retried, RetriesCounted, Sending, RequestRecord
  <2> QED BY <1>7, <2>1, RetriesKept DEF Retry
<1>8. ASSUME NEW r \in Requests, RenewalLost(r) PROVE RetriesCounted'
  BY <1>8, EndedRetries, RetriesKept DEF RenewalLost
<1> QED
  BY <1>1, <1>2, <1>3, <1>4, <1>5, <1>6, <1>7, <1>8, <1>9
  DEF Next, vars, LoginGoogle, Callback, CallbackSignsIn, CallbackFails, DevLogin,
      Logout, OpenPage, Refuse, RenewalRefused, Tick, browserVars

\* The requests that wait for a renewal, and where their number may change.
InRenewal(r) == request[r].pc \in {"renewing", "checked", "renewed"}

LEMMA FlagSame ==
  ASSUME FlagTells, \A r \in Requests : InRenewal(r)' <=> InRenewal(r),
         UNCHANGED refreshing
  PROVE  FlagTells'
<1>1. \A t \in Tabs : Renewing(t)' = Renewing(t)
  BY DEF Renewing, InRenewal
<1> QED BY <1>1 DEF FlagTells

\* One request stops to wait and the flag goes down.
LEMMA FlagDown ==
  ASSUME Typed, FlagTells, NEW r \in Requests, InRenewal(r),
         refreshing' = [refreshing EXCEPT ![TabOf[r]] = FALSE],
         ~InRenewal(r)', \A q \in Requests \ {r} : InRenewal(q)' <=> InRenewal(q)
  PROVE  FlagTells'
<1>1. TabOf[r] \in Tabs
  BY Constants
<1>2. ASSUME NEW t \in Tabs, t # TabOf[r]
      PROVE  Renewing(t)' = Renewing(t) /\ refreshing'[t] = refreshing[t]
  BY <1>2 DEF Renewing, InRenewal, Typed
<1>3. Renewing(TabOf[r])' = {} /\ refreshing'[TabOf[r]] = FALSE
  <2>1. r \in Renewing(TabOf[r]) /\ \A q \in Renewing(TabOf[r]) : q = r
    BY <1>1 DEF FlagTells, Renewing, InRenewal
  <2>2. \A q \in Requests : TabOf[q] = TabOf[r] /\ q # r => ~InRenewal(q)
    BY <2>1 DEF Renewing, InRenewal
  <2> QED BY <1>1, <2>2 DEF Renewing, InRenewal, Typed
<1> QED BY <1>2, <1>3 DEF FlagTells

\* The other requests of a tab that is left end; then nothing in it waits.
LEMMA FlagLeft ==
  ASSUME Typed, FlagTells, NEW r \in Requests, LeaveFor401(r),
         request[r].pc \in {"refused", "renewed"}
  PROVE  FlagTells'
<1> DEFINE t == TabOf[r]
<1>1. t \in Tabs
  BY Constants
<1>2. \A q \in Requests : request'[q] \in {request[q], Ended("failed")}
  BY DEF LeaveFor401
<1>3. Ended("failed").pc = "failed"
  BY DEF Ended, NoRequest
<1>4. \A q \in Requests : TabOf[q] # t => request'[q] = request[q]
  BY DEF LeaveFor401
<1>5. ASSUME NEW u \in Tabs, u # t
      PROVE  Renewing(u)' = Renewing(u) /\ refreshing'[u] = refreshing[u]
  BY <1>4, <1>5 DEF Renewing, LeaveFor401, Typed
<1>6. request'[r].pc = "failed"
  BY <1>3 DEF LeaveFor401
<1>7. CASE page[t] # "home"
  <2>1. page[t] = "app"
    BY <1>1, <1>7 DEF Typed
  <2>2. \A q \in Requests : TabOf[q] = t /\ InRenewal(q) => request'[q] = Ended("failed")
    BY <2>1 DEF LeaveFor401, Pending, InRenewal
  <2>3. Renewing(t)' = {}
    BY <1>2, <1>3, <2>2 DEF Renewing, InRenewal
  <2>4. refreshing'[t] = FALSE
    BY <1>1, <1>7 DEF LeaveFor401, Typed
  <2> QED BY <1>5, <2>3, <2>4 DEF FlagTells
<1>8. CASE page[t] = "home" /\ request[r].pc = "renewed"
  <2>1. r \in Renewing(t) /\ \A q \in Renewing(t) : q = r
    BY <1>1, <1>8 DEF FlagTells, Renewing
  <2>2. Renewing(t)' = {}
    BY <1>2, <1>3, <1>6, <2>1 DEF Renewing
  <2>3. refreshing'[t] = FALSE
    BY <1>1, <1>8 DEF LeaveFor401, Typed
  <2> QED BY <1>5, <2>2, <2>3 DEF FlagTells
<1>9. CASE page[t] = "home" /\ request[r].pc = "refused"
  <2>1. \A q \in Requests : q # r => request'[q] = request[q]
    BY <1>9 DEF LeaveFor401
  <2>2. Renewing(t)' = Renewing(t)
    BY <1>6, <1>9, <2>1 DEF Renewing
  <2>3. refreshing'[t] = refreshing[t]
    BY <1>1, <1>9 DEF LeaveFor401, Typed
  <2> QED BY <1>5, <2>2, <2>3 DEF FlagTells
<1> QED BY <1>7, <1>8, <1>9

LEMMA FlagNext == Typed /\ FlagTells /\ [Next]_vars => FlagTells'
<1> SUFFICES ASSUME Typed, FlagTells, [Next]_vars PROVE FlagTells'
  OBVIOUS
<1>1. CASE UNCHANGED <<request, refreshing>>
  BY <1>1, FlagSame DEF InRenewal
<1>2. ASSUME NEW r \in Requests, StartRequest(r) PROVE FlagTells'
  <2>1. Sending(NoRequest).pc = "sent"
    BY DEF Sending, NoRequest
  <2>2. \A q \in Requests : InRenewal(q)' <=> InRenewal(q)
    BY <1>2, <2>1, RequestKnown DEF StartRequest, InRenewal
  <2> QED BY <1>2, <2>2, FlagSame DEF StartRequest
<1>3. ASSUME NEW r \in Requests, Serve(r) PROVE FlagTells'
  <2>1. \A pc : Ended(pc).pc = pc
    BY DEF Ended, NoRequest
  <2>2. request[r].pc = "sent" /\ request'[r].pc \in {"served", "refused", "failed"}
        /\ \A q \in Requests \ {r} : request'[q] = request[q]
    <3>1. CASE request' = [request EXCEPT ![r].pc = "refused", ![r].token = NoToken]
      BY <1>3, <3>1, RequestKnown DEF Serve, RequestRecord
    <3>2. CASE \E pc \in {"served", "failed"} : request' = [request EXCEPT ![r] = Ended(pc)]
      BY <1>3, <2>1, <3>2, RequestKnown DEF Serve
    <3> QED BY <1>3, <3>1, <3>2 DEF Serve
  <2>3. \A q \in Requests : InRenewal(q)' <=> InRenewal(q)
    BY <2>2 DEF InRenewal
  <2> QED BY <1>3, <2>3, FlagSame DEF Serve
<1>4. ASSUME NEW r \in Requests, Renew(r) PROVE FlagTells'
  <2> DEFINE t == TabOf[r]
  <2>1. t \in Tabs /\ ~refreshing[t]
    BY <1>4, Constants DEF Renew, MayRenew
  <2>2. request'[r].pc = "renewing" /\ \A q \in Requests \ {r} : request'[q] = request[q]
    BY <1>4, RequestKnown DEF Renew, RequestRecord
  <2>3. Renewing(t) = {}
    BY <2>1 DEF FlagTells
  <2>4. Renewing(t)' = {r}
    BY <2>2, <2>3 DEF Renewing
  <2>5. refreshing'[t] = TRUE
    BY <1>4, <2>1 DEF Renew, Typed
  <2>6. ASSUME NEW u \in Tabs, u # t
        PROVE  Renewing(u)' = Renewing(u) /\ refreshing'[u] = refreshing[u]
    BY <1>4, <2>2, <2>6 DEF Renewing, Renew, Typed
  <2> QED BY <2>4, <2>5, <2>6 DEF FlagTells
<1>5. ASSUME NEW r \in Requests, Refuse(r) \/ RenewalRefused(r) PROVE FlagTells'
  BY <1>5, FlagLeft DEF Refuse, RenewalRefused
<1>6. ASSUME NEW r \in Requests, CheckRenewal(r) \/ IssueRenewal(r) PROVE FlagTells'
  <2>1. request[r].pc \in {"renewing", "checked"} /\ request'[r].pc \in {"checked", "renewed"}
        /\ \A q \in Requests \ {r} : request'[q] = request[q]
    BY <1>6, RequestKnown DEF CheckRenewal, IssueRenewal, RequestRecord
  <2>2. \A q \in Requests : InRenewal(q)' <=> InRenewal(q)
    BY <2>1 DEF InRenewal
  <2> QED BY <1>6, <2>2, FlagSame DEF CheckRenewal, IssueRenewal
<1>7. ASSUME NEW r \in Requests, Retry(r) \/ RenewalLost(r) PROVE FlagTells'
  <2>1. [Sending(request[r]) EXCEPT !.token = request[r].token].pc = "sent"
    BY RequestKnown DEF Sending, RequestRecord
  <2>2. Ended("failed").pc = "failed"
    BY DEF Ended, NoRequest
  <2>3. /\ InRenewal(r) /\ ~InRenewal(r)'
        /\ \A q \in Requests \ {r} : InRenewal(q)' <=> InRenewal(q)
        /\ refreshing' = [refreshing EXCEPT ![TabOf[r]] = FALSE]
    BY <1>7, <2>1, <2>2, RequestKnown DEF Retry, RenewalLost, InRenewal
  <2> QED BY <2>3, FlagDown
<1> QED
  BY <1>1, <1>2, <1>3, <1>4, <1>5, <1>6, <1>7
  DEF Next, vars, LoginGoogle, Callback, CallbackSignsIn, CallbackFails, DevLogin,
      Logout, OpenPage, Tick, browserVars

-----------------------------------------------------------------------------
(* Tokens *)

\* A state is spent once its callback is over, and stays so; while the callback
\* runs, the state is gone already.
Spent(s) == oauth[s].at = "gone" /\ s \notin exchanging
ExchangesKnown == \A s \in exchanging : oauth[s].at = "gone"

LEMMA ExchangesNext == Typed /\ ExchangesKnown /\ [Next]_vars => ExchangesKnown'
<1> SUFFICES ASSUME Typed, ExchangesKnown, [Next]_vars PROVE ExchangesKnown'
  OBVIOUS
<1>1. CASE UNCHANGED <<oauth, exchanging>>
  BY <1>1 DEF ExchangesKnown
<1>2. ASSUME NEW s \in States, LoginGoogle(s) PROVE ExchangesKnown'
  <2>1. s \notin exchanging
    BY <1>2 DEF LoginGoogle, ExchangesKnown, NoState
  <2> QED BY <1>2, <2>1 DEF LoginGoogle, ExchangesKnown, Typed
<1>3. ASSUME NEW s \in States, Callback(s) PROVE ExchangesKnown'
  BY <1>3 DEF Callback, Consumed, Gone, ExchangesKnown, Typed
<1>4. ASSUME NEW s \in States, CallbackSignsIn(s) \/ CallbackFails(s)
      PROVE  ExchangesKnown'
  BY <1>4 DEF CallbackSignsIn, CallbackFails, ExchangesKnown
<1>5. CASE Tick
  BY <1>5 DEF Tick, Gone, ExchangesKnown, Typed
<1> QED
  BY <1>1, <1>2, <1>3, <1>4, <1>5
  DEF Next, vars, DevLogin, Logout, OpenPage, StartRequest, Serve, Renew, Refuse,
      CheckRenewal, IssueRenewal, Retry, RenewalRefused, RenewalLost, serverVars

\* What a step does to the tokens and states: nothing that counts, a sign-in that
\* spends its state, a development sign-in, or the renewal of a token.
SpentStay == \A s \in States : Spent(s) => Spent(s)'
SignsIn(s) ==
  /\ Issue(RoleAsked[s], s, NoToken, 0)
  /\ ~Spent(s) /\ Spent(s)'
DevSignsIn == \E role \in DevRoles : Issue(role, "dev", NoToken, 0)
RenewsFor(r) ==
  LET i == request[r].token IN
  /\ request[r].pc = "checked"
  /\ Issue(RoleOf(i), token[i].source, i, request[r].checked)
Renews == \E r \in Requests : RenewsFor(r)

LEMMA TokenSteps ==
  ASSUME Typed, ExchangesKnown, [Next]_vars
  PROVE  /\ SpentStay
         /\ UNCHANGED token \/ (\E s \in States : SignsIn(s)) \/ DevSignsIn \/ Renews
<1>1. CASE UNCHANGED <<token, oauth, exchanging>>
  BY <1>1 DEF SpentStay, Spent
<1>2. ASSUME NEW s \in States, LoginGoogle(s)
      PROVE  SpentStay /\ UNCHANGED token
  BY <1>2 DEF LoginGoogle, SpentStay, Spent, NoState, Typed
<1>3. ASSUME NEW s \in States, Callback(s)
      PROVE  SpentStay /\ UNCHANGED token
  BY <1>3 DEF Callback, Consumed, Gone, Spent, SpentStay, Typed
<1>4. ASSUME NEW s \in States, CallbackFails(s)
      PROVE  SpentStay /\ UNCHANGED token
  BY <1>4 DEF CallbackFails, Spent, SpentStay
<1>5. ASSUME DevLogin PROVE SpentStay /\ DevSignsIn
  BY <1>5 DEF DevLogin, SignIn, DevSignsIn, SpentStay, Spent
<1>6. ASSUME NEW r \in Requests, IssueRenewal(r)
      PROVE  SpentStay /\ (UNCHANGED token \/ Renews)
  BY <1>6 DEF IssueRenewal, Renews, RenewsFor, SpentStay, Spent
<1>7. ASSUME Tick PROVE SpentStay /\ UNCHANGED token
  BY <1>7 DEF Tick, Gone, Spent, SpentStay
<1>8. ASSUME NEW s \in States, CallbackSignsIn(s)
      PROVE  SpentStay /\ SignsIn(s)
  <2>1. ~Spent(s) /\ Spent(s)' /\ SpentStay
    BY <1>8 DEF CallbackSignsIn, ExchangesKnown, Spent, SpentStay
  <2> QED BY <1>8, <2>1 DEF CallbackSignsIn, SignIn, SignsIn
<1> QED
  BY <1>1, <1>2, <1>3, <1>4, <1>5, <1>6, <1>7, <1>8
  DEF Next, vars, Logout, OpenPage, StartRequest, Serve, Renew, Refuse, CheckRenewal,
      Retry, RenewalRefused, RenewalLost, serverVars, browserVars

\* A token stays as it was issued.
LEMMA TokensStay ==
  ASSUME Typed, ExchangesKnown, [Next]_vars
  PROVE  \A i \in Tokens : i \in Tokens' /\ token'[i] = token[i]
<1>1. CASE UNCHANGED token
  BY <1>1 DEF Tokens
<1>2. CASE \E role, source, parent, checked : Issue(role, source, parent, checked)
  BY <1>2 DEF Issue, Tokens, Typed
<1> QED
  BY <1>1, <1>2, TokenSteps DEF SignsIn, DevSignsIn, Renews, RenewsFor

\* A request comes to the step where its renewal is issued by the check alone.
LEMMA ChecksSteps ==
  ASSUME Typed, [Next]_vars, NEW r \in Requests, request'[r].pc = "checked"
  PROVE  \/ request'[r] = request[r]
         \/ /\ Decodes(request[r].token) /\ UNCHANGED <<now, token>>
            /\ request'[r].token = request[r].token /\ request'[r].checked = now
<1>1. \A pc : Ended(pc).pc = pc
  BY DEF Ended, NoRequest
<1>2. ASSUME NEW q \in Requests, LeaveFor401(q) PROVE request'[r] = request[r]
  BY <1>1, <1>2 DEF LeaveFor401
<1>3. ASSUME NEW q \in Requests, CheckRenewal(q)
      PROVE  \/ request'[r] = request[r]
             \/ /\ Decodes(request[r].token) /\ UNCHANGED <<now, token>>
                /\ request'[r].token = request[r].token /\ request'[r].checked = now
  BY <1>3, RequestKnown DEF CheckRenewal, RequestRecord, serverVars
<1>4. ASSUME NEW q \in Requests, StartRequest(q) \/ Retry(q)
      PROVE  request'[r] = request[r]
  <2>1. request'[q].pc = "sent"
    <3>1. Sending(NoRequest).pc = "sent"
      BY DEF Sending, NoRequest
    <3>2. [Sending(request[q]) EXCEPT !.token = request[q].token].pc = "sent"
      BY RequestKnown DEF Sending, RequestRecord
    <3> QED BY <1>4, <3>1, <3>2, RequestKnown DEF StartRequest, Retry
  <2> QED BY <1>4, <2>1, RequestKnown DEF StartRequest, Retry
<1>5. ASSUME NEW q \in Requests, Serve(q) \/ RenewalLost(q)
      PROVE  request'[r] = request[r]
  <2>1. request'[q].pc \in {"served", "refused", "failed"}
    <3>1. CASE request' = [request EXCEPT ![q].pc = "refused", ![q].token = NoToken]
      BY <3>1, RequestKnown DEF RequestRecord
    <3>2. CASE \E pc \in {"served", "failed"} : request' = [request EXCEPT ![q] = Ended(pc)]
      BY <1>1, <3>2, RequestKnown
    <3> QED BY <1>5, <3>1, <3>2 DEF Serve, RenewalLost
  <2> QED BY <1>5, <2>1, RequestKnown DEF Serve, RenewalLost
<1>6. ASSUME NEW q \in Requests, Renew(q) \/ IssueRenewal(q)
      PROVE  request'[r] = request[r]
  <2>1. request'[q].pc \in {"renewing", "renewed"}
    BY <1>6, RequestKnown DEF Renew, IssueRenewal, RequestRecord
  <2> QED BY <1>6, <2>1, RequestKnown DEF Renew, IssueRenewal
<1> QED
  BY <1>2, <1>3, <1>4, <1>5, <1>6
  DEF Next, vars, LoginGoogle, Callback, CallbackSignsIn, CallbackFails, DevLogin,
      Logout, OpenPage, Refuse, RenewalRefused, Tick, browserVars

\* No token is from a later second than this one.
IssuesKnown == \A i \in Tokens : IssuedAt(i) <= now

LEMMA NowGrows ==
  ASSUME Typed, [Next]_vars
  PROVE  now \in Nat /\ now' \in Nat /\ now <= now'
<1>1. now \in Nat
  BY Constants DEF Typed
<1>2. now' = now \/ now' = now + 1
  BY ZenonT(60) DEF Next, vars, LoginGoogle, Callback, CallbackSignsIn, CallbackFails,
         DevLogin, Logout, OpenPage, StartRequest, Serve, Renew, Refuse, CheckRenewal,
         IssueRenewal, Retry, RenewalRefused, RenewalLost, Tick
<1> QED BY <1>1, <1>2

LEMMA ChecksInit == Init => ChecksKnown /\ IssuesKnown /\ ExchangesKnown
BY DEF Init, ChecksKnown, IssuesKnown, ExchangesKnown, NoRequest, Tokens

LEMMA ChecksNext ==
  ASSUME Typed, ExchangesKnown, ChecksKnown, IssuesKnown, [Next]_vars
  PROVE  ChecksKnown'
<1> USE Constants
<1>1. now \in Nat /\ now' \in Nat /\ now <= now'
  BY NowGrows
<1>2. ASSUME NEW r \in Requests, request'[r].pc = "checked"
      PROVE  /\ request'[r].token \in Tokens'
             /\ request'[r].checked \in IssuedAt(request[r].token)'..token'[request'[r].token].exp
             /\ request'[r].checked <= now'
  <2>1. PICK i : i = request[r].token
    OBVIOUS
  <2>2. /\ i \in Tokens /\ request'[r].token = i
        /\ request'[r].checked \in IssuedAt(i)..token[i].exp
        /\ request'[r].checked <= now
    <3>1. CASE request'[r] = request[r]
      BY <1>2, <2>1, <3>1 DEF ChecksKnown
    <3>2. CASE /\ Decodes(i) /\ request'[r].token = i /\ request'[r].checked = now
      <4>1. i \in Tokens
        BY <2>1, <3>2, RequestKnown DEF Decodes, NoToken, Tokens, Typed
      <4>2. IssuedAt(i) <= now /\ now <= token[i].exp
        BY <3>2, <4>1 DEF IssuesKnown, Decodes
      <4>3. token[i].exp \in Nat
        BY <4>1 DEF Typed, LastExp
      <4> QED BY <1>1, <3>2, <4>1, <4>2, <4>3 DEF IssuedAt
    <3> QED BY <1>2, <2>1, <3>1, <3>2, ChecksSteps
  <2>3. i \in Tokens' /\ token'[i] = token[i]
    BY <2>2, TokensStay
  <2>4. token[i].exp \in Nat
    BY <2>2 DEF Typed, LastExp
  <2>5. request'[r].checked \in Int
    BY <2>2, <2>4 DEF IssuedAt
  <2> QED BY <1>1, <2>2, <2>3, <2>5 DEF IssuedAt
<1> QED BY <1>2 DEF ChecksKnown

LEMMA IssuesNext ==
  ASSUME Typed, ExchangesKnown, ChecksKnown, IssuesKnown, [Next]_vars
  PROVE  IssuesKnown'
<1> USE Constants
<1>1. now \in Nat /\ now' \in Nat /\ now <= now'
  BY NowGrows
<1>2. ASSUME NEW i \in Tokens PROVE IssuedAt(i)' <= now'
  <2>1. token'[i] = token[i] /\ token[i].exp \in Nat /\ IssuedAt(i) <= now
    BY <1>2, TokensStay DEF Typed, IssuesKnown, LastExp
  <2> QED BY <1>1, <2>1 DEF IssuedAt
<1>3. ASSUME NEW role, NEW source, NEW parent, NEW checked,
             Issue(role, source, parent, checked)
      PROVE  /\ Tokens' = Tokens \cup {Len(token')}
             /\ token'[Len(token')].exp = now + Lifetime
  BY <1>3 DEF Issue, Issued, Tokens, Typed
<1>4. CASE UNCHANGED token
  BY <1>2, <1>4 DEF IssuesKnown, Tokens
<1>5. CASE \E role, source, parent, checked : Issue(role, source, parent, checked)
  BY <1>1, <1>2, <1>3, <1>5 DEF IssuesKnown, IssuedAt
<1> QED
  BY <1>4, <1>5, TokenSteps DEF SignsIn, DevSignsIn, Renews, RenewsFor

\* A state that a token is from is spent: it cannot sign in again.
StatesSpent ==
  \A i \in Tokens : token[i].parent = NoToken /\ token[i].source \in States
                      => Spent(token[i].source)

LEMMA ChainInit == Init => SessionsUnbroken /\ OneSignInPerState /\ StatesSpent
BY DEF Init, SessionsUnbroken, OneSignInPerState, StatesSpent, Tokens

\* A token that is added keeps the chains if its own chain is one.
LEMMA ChainKept ==
  ASSUME Typed, SessionsUnbroken, NEW role \in Roles, NEW source \in States \cup {"dev"},
         NEW parent \in Nat, NEW checked \in Nat, Issue(role, source, parent, checked),
         parent # NoToken => /\ parent \in Tokens
                             /\ checked \in IssuedAt(parent)..token[parent].exp
                             /\ checked <= now
                             /\ role = token[parent].role /\ source = token[parent].source,
         parent = NoToken /\ source \in States => role = RoleAsked[source]
  PROVE  SessionsUnbroken'
<1>1. PICK n \in Nat : n = Len(token) + 1
  BY DEF Typed
<1>2. /\ Tokens' = Tokens \cup {n}
      /\ token'[n] = Issued(role, source, parent, checked)
      /\ \A i \in Tokens : token'[i] = token[i]
  BY <1>1, IssueTyped
<1>3. /\ Tokens = 1..Len(token) /\ Len(token) \in Nat
      /\ \A i \in Tokens : token[i] \in TokenRecord
  BY DEF Typed, Tokens
<1>4. ASSUME NEW i \in Tokens
      PROVE  /\ token'[i].parent = NoToken => SignedIn(i)'
             /\ token'[i].parent # NoToken => RenewedFrom(i, token[i].parent)'
  <2>1. token'[i] = token[i] /\ i < n /\ token[i].parent \in Nat
    BY <1>1, <1>2, <1>3, <1>4 DEF TokenRecord
  <2>2. token[i].parent = NoToken => SignedIn(i)
    BY <1>4 DEF SessionsUnbroken
  <2>3. token[i].parent # NoToken => RenewedFrom(i, token[i].parent)
    BY <1>4 DEF SessionsUnbroken
  <2>4. token'[i].parent = NoToken => SignedIn(i)'
    BY <2>1, <2>2 DEF SignedIn
  <2>5. ASSUME token[i].parent # NoToken PROVE RenewedFrom(i, token[i].parent)'
    <3>1. /\ token[i].parent < i
          /\ token[i].checked \in IssuedAt(token[i].parent)..token[token[i].parent].exp
          /\ token[i].checked <= IssuedAt(i)
          /\ token[i].role = token[token[i].parent].role
          /\ token[i].source = token[token[i].parent].source
      BY <2>3, <2>5 DEF RenewedFrom
    <3>2. token[i].parent \in Tokens
      BY <1>3, <1>4, <2>1, <2>5, <3>1 DEF NoToken
    <3>3. token'[token[i].parent] = token[token[i].parent]
      BY <1>2, <3>2
    <3> QED BY <2>1, <3>1, <3>3 DEF RenewedFrom, IssuedAt
  <2> QED BY <2>1, <2>4, <2>5
<1>5. /\ token'[n].parent = NoToken => SignedIn(n)'
      /\ token'[n].parent # NoToken => RenewedFrom(n, token[n].parent)'
  <2>1. /\ token'[n].parent = parent /\ token'[n].role = role /\ token'[n].source = source
        /\ token'[n].exp = now + Lifetime /\ token'[n].checked = checked
    BY <1>2 DEF Issued
  <2>2. parent = NoToken => SignedIn(n)'
    BY <2>1 DEF SignedIn
  <2>3. ASSUME parent # NoToken PROVE RenewedFrom(n, token[n].parent)'
    <3>1. parent \in Tokens /\ token'[parent] = token[parent] /\ parent < n
      BY <1>1, <1>2, <1>3, <2>3
    <3>2. /\ checked \in IssuedAt(parent)..token[parent].exp
          /\ checked <= token'[n].exp - Lifetime
      BY <2>1, <2>3, Constants DEF Typed
    <3>3. role = token[parent].role /\ source = token[parent].source
      BY <2>3
    <3> QED BY <2>1, <3>1, <3>2, <3>3 DEF RenewedFrom, IssuedAt
  <2> QED BY <2>1, <2>2, <2>3
<1> QED BY <1>2, <1>4, <1>5 DEF SessionsUnbroken

LEMMA ChainNext ==
  ASSUME Typed, ExchangesKnown, ChecksKnown, SessionsUnbroken, [Next]_vars
  PROVE  SessionsUnbroken'
<1> USE Constants
<1>1. \A i \in Tokens : token[i] \in TokenRecord /\ i \in Nat /\ i # NoToken
  BY DEF Typed, Tokens, NoToken
<1>2. CASE UNCHANGED token
  BY <1>2 DEF SessionsUnbroken, SignedIn, RenewedFrom, IssuedAt, Tokens
<1>3. ASSUME NEW s \in States, SignsIn(s) PROVE SessionsUnbroken'
  <2>1. RoleAsked[s] \in Roles /\ NoToken \in Nat
    BY DEF NoToken
  <2> QED BY <1>3, <2>1, ChainKept DEF SignsIn
<1>4. ASSUME NEW role \in DevRoles, Issue(role, "dev", NoToken, 0) PROVE SessionsUnbroken'
  <2>1. role \in Roles /\ NoToken \in Nat
    BY DEF NoToken
  <2> QED BY <1>4, <2>1, ChainKept
<1>5. ASSUME NEW r \in Requests, RenewsFor(r) PROVE SessionsUnbroken'
  <2> DEFINE i == request[r].token
             c == request[r].checked
  <2>3. /\ i \in Tokens /\ c \in IssuedAt(i)..token[i].exp /\ c <= now
        /\ Issue(RoleOf(i), token[i].source, i, c)
    BY <1>5 DEF RenewsFor, ChecksKnown
  <2>4. c \in Nat
    BY RequestKnown DEF RequestRecord
  <2>1. RoleOf(i) \in Roles /\ token[i].source \in States \cup {"dev"}
        /\ RoleOf(i) = token[i].role
    BY <1>1, <2>3 DEF TokenRecord, RoleOf
  <2> HIDE DEF RoleOf, i, c
  <2> QED BY <1>1, <2>1, <2>3, <2>4, ChainKept
<1> QED BY <1>2, <1>3, <1>4, <1>5, TokenSteps DEF DevSignsIn, Renews

LEMMA SpentNext ==
  ASSUME Typed, ExchangesKnown, ChecksKnown, StatesSpent, OneSignInPerState, [Next]_vars
  PROVE  StatesSpent' /\ OneSignInPerState'
<1> USE Constants
<1>1. SpentStay
  BY TokenSteps
<1>2. CASE UNCHANGED token
  BY <1>1, <1>2 DEF StatesSpent, OneSignInPerState, SpentStay, Tokens, Spent
<1>3. ASSUME NEW role \in Roles, NEW source \in States \cup {"dev"}, NEW parent \in Nat,
             NEW checked \in Nat, Issue(role, source, parent, checked),
             parent = NoToken /\ source \in States => ~Spent(source) /\ Spent(source)'
      PROVE  StatesSpent' /\ OneSignInPerState'
  <2> DEFINE n == Len(token')
  <2>1. /\ Tokens' = Tokens \cup {n}
        /\ token'[n].parent = parent /\ token'[n].source = source
        /\ \A i \in Tokens : token'[i] = token[i]
    <3>1. /\ Tokens' = Tokens \cup {n} /\ token'[n] = Issued(role, source, parent, checked)
          /\ \A i \in Tokens : token'[i] = token[i]
      BY <1>3, IssueTyped
    <3> QED BY <3>1 DEF Issued
  <2>2. StatesSpent'
    BY <1>1, <1>3, <2>1 DEF StatesSpent, SpentStay, Spent
  <2>3. \A i \in Tokens : parent = NoToken /\ source \in States
                            /\ token[i].parent = NoToken => token[i].source # source
    BY <1>3 DEF StatesSpent
  <2>4. OneSignInPerState'
    BY SMTT(60), <2>1, <2>3 DEF OneSignInPerState
  <2> QED BY <2>2, <2>4
<1>4. ASSUME NEW s \in States, SignsIn(s) PROVE StatesSpent' /\ OneSignInPerState'
  <2>1. RoleAsked[s] \in Roles /\ NoToken \in Nat
    BY DEF NoToken
  <2> QED BY <1>3, <1>4, <2>1 DEF SignsIn
<1>5. ASSUME NEW role \in DevRoles, Issue(role, "dev", NoToken, 0)
      PROVE  StatesSpent' /\ OneSignInPerState'
  <2>1. role \in Roles /\ NoToken \in Nat
    BY DEF NoToken
  <2> QED BY <1>3, <1>5, <2>1
<1>6. ASSUME NEW r \in Requests, RenewsFor(r)
      PROVE  StatesSpent' /\ OneSignInPerState'
  <2> DEFINE i == request[r].token
             c == request[r].checked
  <2>2. i \in Tokens /\ Issue(RoleOf(i), token[i].source, i, c)
    BY <1>6 DEF RenewsFor, ChecksKnown
  <2>3. c \in Nat
    BY RequestKnown DEF RequestRecord
  <2>1. RoleOf(i) \in Roles /\ token[i].source \in States \cup {"dev"}
        /\ i \in Nat /\ i # NoToken
    <3>1. token[i] \in TokenRecord /\ i \in Nat /\ i # NoToken
      BY <2>2 DEF Typed, Tokens, NoToken
    <3> QED BY <3>1 DEF TokenRecord, RoleOf
  <2> HIDE DEF RoleOf, i, c
  <2> QED BY <1>3, <2>1, <2>2, <2>3
<1> QED BY <1>2, <1>4, <1>5, <1>6, TokenSteps DEF DevSignsIn, Renews

-----------------------------------------------------------------------------
(* The blocklist *)

\* An entry is that of a token, and outlives it but for a second.
Outlives == \A i \in Ids : blocklist[i] # 0 => i \in Tokens /\ token[i].exp - 1 <= blocklist[i]

LEMMA OutlivesInit == Init => Outlives
BY DEF Init, Outlives

LEMMA OutlivesNext == Typed /\ ExchangesKnown /\ Outlives /\ [Next]_vars => Outlives'
<1> SUFFICES ASSUME Typed, ExchangesKnown, Outlives, [Next]_vars PROVE Outlives'
  OBVIOUS
<1>1. \A i \in Tokens : i \in Tokens' /\ token'[i] = token[i]
  BY TokensStay
<1>2. CASE UNCHANGED blocklist
  BY <1>1, <1>2 DEF Outlives
<1>3. CASE Logout /\ ~UNCHANGED blocklist
  <2> DEFINE i == jar.token
  <2>1. Decodes(i) /\ UNCHANGED token
    BY <1>3 DEF Logout
  <2>2. i \in Tokens
    BY <2>1, RequestKnown DEF Decodes, NoToken, Typed, Tokens
  <2>3. token[i] \in TokenRecord /\ now \in Nat
    BY <2>2, Constants DEF Typed, Tokens
  <2>4. PICK ttl \in Remaining(i) : blocklist' = [blocklist EXCEPT ![i] = now + ttl]
    BY <1>3, <2>1 DEF Logout
  <2>5. token[i].exp - 1 <= now + ttl
    BY <2>3, <2>4 DEF Remaining, TokenRecord
  <2> HIDE DEF i
  <2> QED BY <2>1, <2>2, <2>4, <2>5 DEF Outlives, Typed, Tokens
<1> QED
  BY ZenonT(60), <1>2, <1>3
  DEF Next, vars, LoginGoogle, Callback, CallbackSignsIn, CallbackFails, DevLogin,
      OpenPage, StartRequest, Serve, Renew, Refuse, CheckRenewal, IssueRenewal, Retry,
      RenewalRefused, RenewalLost, Tick, serverVars, browserVars

\* A request is served by Serve and by no other step.
LEMMA ServedByServe ==
  ASSUME Typed, [Next]_vars, NEW r \in Requests, ServedNow(r)
  PROVE  FALSE \in Refusals(request[r].token)
<1>1. \A pc : Ended(pc).pc = pc
  BY DEF Ended, NoRequest
<1>2. ASSUME NEW q \in Requests, Serve(q) PROVE FALSE \in Refusals(request[r].token)
  <2>1. request'[r] # request[r]
    BY DEF ServedNow
  <2>2. q = r
    BY <1>2, <2>1, RequestKnown DEF Serve
  <2>3. CASE request' = [request EXCEPT ![r].pc = "refused", ![r].token = NoToken]
    <3>1. request'[r].pc = "refused"
      BY <2>3, RequestKnown DEF RequestRecord
    <3> QED BY <3>1 DEF ServedNow
  <2>4. CASE request' = [request EXCEPT ![r] = Ended("failed")]
    <3>1. request'[r].pc = "failed"
      BY <1>1, <2>4, RequestKnown
    <3> QED BY <3>1 DEF ServedNow
  <2> QED BY <1>2, <2>2, <2>3, <2>4 DEF Serve
<1>3. ASSUME NEW q \in Requests, LeaveFor401(q) PROVE FALSE
  BY <1>1, <1>3 DEF LeaveFor401, ServedNow
<1>4. ASSUME NEW q \in Requests,
             StartRequest(q) \/ Renew(q) \/ CheckRenewal(q) \/ IssueRenewal(q)
               \/ Retry(q) \/ RenewalLost(q)
      PROVE  FALSE
  <2>1. \A x \in Requests : x # q => request'[x] = request[x]
    BY <1>4, RequestKnown
    DEF StartRequest, Renew, CheckRenewal, IssueRenewal, Retry, RenewalLost
  <2>2. CASE StartRequest(q) \/ Retry(q)
    <3>1. request'[q].pc = "sent"
      <4>1. Sending(NoRequest).pc = "sent"
        BY DEF Sending, NoRequest
      <4>2. [Sending(request[q]) EXCEPT !.token = request[q].token].pc = "sent"
        BY RequestKnown DEF Sending, RequestRecord
      <4> QED BY <2>2, <4>1, <4>2, RequestKnown DEF StartRequest, Retry
    <3> QED BY <2>1, <3>1 DEF ServedNow
  <2>3. CASE Renew(q) \/ CheckRenewal(q) \/ IssueRenewal(q)
    <3>1. request'[q].pc \in {"renewing", "checked", "renewed"}
      BY <2>3, RequestKnown DEF Renew, CheckRenewal, IssueRenewal, RequestRecord
    <3> QED BY <2>1, <3>1 DEF ServedNow
  <2>4. CASE RenewalLost(q)
    <3>1. request'[q].pc = "failed"
      BY <1>1, <2>4, RequestKnown DEF RenewalLost
    <3> QED BY <2>1, <3>1 DEF ServedNow
  <2> QED BY <1>4, <2>2, <2>3, <2>4
<1> QED
  BY <1>2, <1>3, <1>4
  DEF Next, vars, LoginGoogle, Callback, CallbackSignsIn, CallbackFails, DevLogin,
      Logout, OpenPage, Refuse, RenewalRefused, Tick, browserVars, ServedNow

-----------------------------------------------------------------------------
(* The theorems *)

\* All that the proofs know of a reachable state.
IInv ==
  /\ Typed /\ RetriesCounted /\ FlagTells
  /\ ExchangesKnown /\ ChecksKnown /\ IssuesKnown
  /\ SessionsUnbroken /\ OneSignInPerState /\ StatesSpent
  /\ Outlives

LEMMA Inductive == Spec => []IInv
<1>1. Init => IInv
  BY TypedInit, RetriesInit, FlagInit, ChecksInit, ChainInit, OutlivesInit DEF IInv
<1>2. IInv /\ [Next]_vars => IInv'
  BY TypedNext, RetriesNext, FlagNext, ExchangesNext, ChecksNext, IssuesNext, ChainNext,
     SpentNext, OutlivesNext DEF IInv
<1> QED BY <1>1, <1>2, PTL DEF Spec

\* Every variable keeps its type; above all, no cookie and no request ever holds a
\* token that create_access_token has not issued.
THEOREM TypeCorrect == Spec => []TypeOK
<1>1. ASSUME IInv PROVE TypeOK
  <2> USE Constants
  <2>1. Typed /\ Tokens = 1..Len(token) /\ Len(token) \in Nat
    BY <1>1 DEF IInv, Typed, Tokens
  <2>2. jar \in [token : Tokens \cup {NoToken}, until : Nat]
    BY <2>1 DEF Typed, NoToken
  <2>3. \A r \in Requests : request[r] \in
          [pc : {"idle", "sent", "refused", "renewing", "checked", "renewed",
                 "served", "failed"},
           retried : BOOLEAN, token : Tokens \cup {NoToken}, status : {0, 200, 401},
           checked : 0..MaxTime, renewals : Nat]
    <3>1. ASSUME NEW r \in Requests
          PROVE  request[r].token \in Tokens \cup {NoToken}
      BY <2>1, RequestKnown DEF NoToken
    <3>2. \A r \in Requests : request[r] \in RequestRecord
      BY <2>1, RequestKnown
    <3> QED BY <3>1, <3>2 DEF RequestRecord
  <2>4. request = [r \in Requests |-> request[r]]
    BY <2>1 DEF Typed
  <2>5. request \in [Requests ->
          [pc : {"idle", "sent", "refused", "renewing", "checked", "renewed",
                 "served", "failed"},
           retried : BOOLEAN, token : Tokens \cup {NoToken}, status : {0, 200, 401},
           checked : 0..MaxTime, renewals : Nat]]
    BY <2>3, <2>4
  <2>6. /\ now \in 1..MaxTime /\ token \in Seq(TokenRecord) /\ Len(token) <= MaxTokens
        /\ blocklist \in [Ids -> 0..MaxTime + Lifetime]
        /\ oauth \in [States -> [at : {"new", "stored", "gone"}, until : Nat]]
        /\ exchanging \subseteq States
        /\ page \in [Tabs -> {"home", "app"}] /\ refreshing \in [Tabs -> BOOLEAN]
    BY <2>1 DEF Typed, LastExp
  <2> QED BY <2>2, <2>5, <2>6 DEF TypeOK, TokenRecord
<1> QED BY <1>1, Inductive, PTL

\* The interceptor repeats a request after one renewal and no more, whatever
\* happens to the session meanwhile.
THEOREM RenewedOnce == Spec => []RenewedOnceAtMost
<1>1. IInv => RenewedOnceAtMost
  BY DEF IInv, RetriesCounted, Retried, RenewedOnceAtMost
<1> QED BY <1>1, Inductive, PTL

\* The interceptor's flag is set exactly while one request of its tab waits for a
\* refresh, through every answer and every reload of the tab.
THEOREM OneRenewal == Spec => []OneRenewalPerTab
<1>1. ASSUME IInv, NEW t \in Tabs
      PROVE  Cardinality(Renewing(t)) = (IF refreshing[t] THEN 1 ELSE 0)
  <2>1. (refreshing[t] <=> Renewing(t) # {}) /\ \A q, r \in Renewing(t) : q = r
    BY <1>1 DEF IInv, FlagTells
  <2>2. CASE refreshing[t]
    <3>1. PICK r : Renewing(t) = {r}
      BY <2>1, <2>2
    <3> QED BY <2>2, <3>1, FS_Singleton
  <2>3. CASE ~refreshing[t]
    BY <2>1, <2>3, FS_EmptySet
  <2> QED BY <2>2, <2>3
<1>2. IInv => OneRenewalPerTab
  BY <1>1 DEF OneRenewalPerTab
<1> QED BY <1>2, Inductive, PTL

\* Each token of a chain back to a sign-in was decoded in its own life, before the
\* next was issued, and its role is that of the sign-in: /auth/refresh neither
\* revives a session nor changes it.
THEOREM Unbroken == Spec => []SessionsUnbroken
<1>1. IInv => SessionsUnbroken
  BY DEF IInv
<1> QED BY <1>1, Inductive, PTL

\* An OAuth state signs in once: verify_csrf_state consumes what it finds.
THEOREM OneSignIn == Spec => []OneSignInPerState
<1>1. IInv => OneSignInPerState
  BY DEF IInv
<1> QED BY <1>1, Inductive, PTL

\* get_current_user serves neither an expired token nor, but for the last second
\* of its life, one that was logged out.
THEOREM OnlyLive == Spec => OnlyLiveSessionsServe
<1> DEFINE Live == \A r \in Requests : ServedNow(r) =>
                     LET i == request[r].token IN
                     /\ now <= token[i].exp
                     /\ blocklist[i] # 0 => now >= token[i].exp - 1
<1>1. ASSUME IInv, [Next]_vars, NEW r \in Requests, ServedNow(r)
      PROVE  /\ now <= token[request[r].token].exp
             /\ blocklist[request[r].token] # 0 => now >= token[request[r].token].exp - 1
  <2> DEFINE i == request[r].token
  <2>1. Typed /\ Outlives
    BY <1>1 DEF IInv
  <2>2. FALSE \in Refusals(i)
    BY <1>1, <2>1, ServedByServe
  <2>3. i # NoToken /\ now <= token[i].exp /\ FALSE \in Revoked(i)
    BY <2>2 DEF Refusals, Decodes
  <2>4. i \in Ids /\ i \in Tokens
    BY <2>1, <2>3, RequestKnown, Constants DEF Typed, Ids, Tokens, NoToken
  <2>5. blocklist[i] \in Nat /\ now \in Nat /\ token[i].exp \in Nat
    BY <2>1, <2>4, Constants DEF Typed, LastExp
  <2> HIDE DEF i
  <2>6. blocklist[i] <= now
    <3>1. CASE now # blocklist[i]
      <4>1. Revoked(i) = {now < blocklist[i]}
        BY <3>1 DEF Revoked
      <4>2. ~(now < blocklist[i])
        BY <2>3, <4>1, Zenon
      <4> QED BY <2>5, <4>2
    <3>2. CASE now = blocklist[i]
      BY <2>5, <3>2
    <3> QED BY <3>1, <3>2
  <2> QED BY <2>1, <2>3, <2>4, <2>5, <2>6 DEF Outlives, i
<1>2. IInv /\ [Next]_vars => [Live]_vars
  BY <1>1
<1> QED BY <1>2, Inductive, PTL DEF Spec, OnlyLiveSessionsServe

=============================================================================
