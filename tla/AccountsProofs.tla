--------------------------- MODULE AccountsProofs ---------------------------
(***************************************************************************)
(* What holds of accounts and sessions for any e-mails, any requests and   *)
(* any limit of the throttle: the types, the first user, the throttle and  *)
(* the end of a session.                                                   *)
(*                                                                         *)
(* AccountsInv adds to them what the arguments rest on: where a            *)
(* registration and a login can stand, that a row once made stays, and     *)
(* that a session a logout has ended is never live again.                  *)
(***************************************************************************)
EXTENDS Accounts, FiniteSetTheorems, TLAPS

\* A registration only goes through its own statements, a request at its member row has
\* made the workspace before, and nobody is the first user before it arrives.
Places ==
  \A r \in Requests :
    /\ requests[r].op = "register" =>
         requests[r].at \in {"idle", "find", "count", "create", "select", "workspace",
                             "member", "session"} \cup Over
    /\ requests[r].at = "member" => requests[r].email \in workspaces
    /\ requests[r].at = "idle" => ~requests[r].first

\* Who came late found somebody, and nobody is ever deleted.
LateFoundSomebody ==
  \A r \in Requests : requests[r].late => \E u \in Emails : users[u] # "none"

\* A request carries tokens that were issued, and no empty bearer.
CarriesIssued ==
  \A r \in Requests :
    /\ \A t \in {requests[r].cookie, requests[r].bearer} \cap Tokens : sessions[t] # "none"
    /\ requests[r].bearer # Empty

\* A session a logout named by its cookie is not live, and what a request remembers as
\* ended is.
EndedStay ==
  /\ \A e \in ended : e.by = "cookie" => sessions[e.session] \in {"revoked", "expired"}
  /\ \A r \in Requests : requests[r].after \subseteq ended

AccountsInv ==
  /\ AccountsTypeOK
  /\ Places /\ LateFoundSomebody /\ CarriesIssued /\ EndedStay
  /\ LateComersAreUsers /\ ThrottleHolds

-----------------------------------------------------------------------------
\* The stand-ins for a cookie that is no token are none.
LEMMA NoTokens == NoToken \notin Tokens /\ Empty \notin Tokens /\ Junk \notin Tokens
<1>1. ASSUME NEW t \in Tokens PROVE Len(t) = 2
  BY <1>1 DEF Tokens
<1>2. Len(NoToken) = 0 /\ Len(Empty) = 1 /\ Len(Junk) = 1
  BY DEF NoToken, Empty, Junk
<1> QED
  BY <1>1, <1>2

\* A record that leaves its credentials behind is still a request.
LEMMA LeaveIsRequest ==
  ASSUME NEW q \in Request, NEW where \in Over \cup {"select"}
  PROVE  /\ Leave(q, where) \in Request
         /\ Leave(q, where).at = where /\ Leave(q, where).cookie = NoToken
         /\ Leave(q, where).bearer = NoToken /\ Leave(q, where).after = {}
         /\ Leave(q, where).op = q.op /\ Leave(q, where).email = q.email
         /\ Leave(q, where).late = q.late /\ Leave(q, where).first = q.first
BY DEF Leave, Request, Over, Working, Offered

\* Goto moves one request, and nothing of it but its place.
LEMMA GotoFrame ==
  ASSUME requests \in [Requests -> Request], NEW r \in Requests,
         NEW where \in Working \cup Over, Goto(r, where)
  PROVE  /\ requests' \in [Requests -> Request]
         /\ requests'[r].at = where
         /\ \A s \in Requests :
              /\ s # r => requests'[s].at = requests[s].at
              /\ requests'[s].op = requests[s].op /\ requests'[s].email = requests[s].email
              /\ requests'[s].right = requests[s].right /\ requests'[s].first = requests[s].first
              /\ requests'[s].cookie = requests[s].cookie /\ requests'[s].bearer = requests[s].bearer
              /\ requests'[s].late = requests[s].late /\ requests'[s].after = requests[s].after
BY DEF Goto, Request, Working, Over

\* An element of a sequence is one of its elements.
LEMMA ElementIsIn ==
  ASSUME NEW S, NEW s \in Seq(S), NEW i \in DOMAIN s
  PROVE  s[i] \in S
OBVIOUS

\* There are finitely many requests, so as many are past the throttle.
LEMMA AdmittedFinite ==
  \A e \in Emails : IsFiniteSet(Admitted(e)) /\ Cardinality(Admitted(e)) \in Nat
<1>1. IsFiniteSet(Requests)
  BY FS_Interval, AccountsAssumption DEF Requests
<1>2. \A e \in Emails : Admitted(e) \subseteq Requests
  BY DEF Admitted
<1> QED
  BY <1>1, <1>2, FS_Subset, FS_CardinalityType

\* What a place may be.
LEMMA PlacesOfRequests ==
  ASSUME NEW q \in Request
  PROVE  /\ q.op \in Ops /\ q.email \in Emails /\ q.right \in BOOLEAN
         /\ q.cookie \in Offered /\ q.bearer \in Offered
         /\ q.at \in Working \cup Over \cup {"idle"}
         /\ q.first \in BOOLEAN /\ q.late \in BOOLEAN /\ q.after \subseteq Logouts
BY DEF Request

\* A logout that is served a session names one, and with its cookie the one it revokes.
LEMMA LoggedOutIsLogout ==
  ASSUME NEW q, HasSession(q)
  PROVE  /\ LoggedOut(q) \in Logouts
         /\ LoggedOut(q).by = "cookie"
              => /\ LoggedOut(q).session = q.cookie /\ q.cookie \in Tokens
                 /\ sessions[q.cookie] = "live"
<1>1. Identity(q) \in Tokens
  BY DEF HasSession, ReadsAs
<1>2. LoggedOut(q) \in Logouts
  BY <1>1 DEF LoggedOut, Logouts
<1>3. ASSUME LoggedOut(q).by = "cookie"
      PROVE /\ LoggedOut(q).session = q.cookie /\ q.cookie \in Tokens
            /\ sessions[q.cookie] = "live"
  <2>1. ReadsAs(q.cookie)
    BY <1>3 DEF LoggedOut
  <2>2. q.cookie \in Tokens /\ Identity(q) = q.cookie
    BY <2>1 DEF ReadsAs, Identity
  <2>3. Presented(q) = q.cookie /\ q.cookie # Empty
    BY <2>2, NoTokens DEF Presented
  <2> QED
    BY <2>2, <2>3 DEF LoggedOut, HasSession
<1> QED
  BY <1>2, <1>3

\* The first state.
LEMMA AccountsInitInv == AccountsInit => AccountsInv
<1> SUFFICES ASSUME AccountsInit PROVE AccountsInv
  OBVIOUS
<1>1. PICK plan \in Plans :
        /\ settings = [selfRegistration |-> plan.selfRegistration, bodyTokens |-> plan.bodyTokens]
        /\ requests = [r \in Requests |->
             [op |-> IF r \in DOMAIN plan.asks THEN plan.asks[r].op ELSE "call",
              email |-> IF r \in DOMAIN plan.asks THEN plan.asks[r].email ELSE OwnerEmail,
              at |-> IF r \in DOMAIN plan.asks THEN "idle" ELSE "refused",
              right |-> FALSE, cookie |-> NoToken, bearer |-> NoToken, first |-> FALSE,
              late |-> FALSE, after |-> {}]]
  BY DEF AccountsInit
<1>2. /\ plan.selfRegistration \in BOOLEAN /\ plan.bodyTokens \in BOOLEAN
      /\ plan.asks \in Seq([op : {"register", "login", "logout", "call", "boot"}, email : Emails])
  BY AccountsAssumption
<1>3. \A r \in DOMAIN plan.asks : plan.asks[r].op \in Ops /\ plan.asks[r].email \in Emails
  <2> SUFFICES ASSUME NEW r \in DOMAIN plan.asks
               PROVE plan.asks[r].op \in Ops /\ plan.asks[r].email \in Emails
    OBVIOUS
  <2>1. plan.asks[r] \in [op : {"register", "login", "logout", "call", "boot"}, email : Emails]
    BY <1>2, ElementIsIn
  <2> QED
    BY <2>1 DEF Ops
<1>4. \A r \in Requests : requests[r] \in Request
  <2> SUFFICES ASSUME NEW r \in Requests PROVE requests[r] \in Request
    OBVIOUS
  <2>1. CASE r \in DOMAIN plan.asks
    BY <1>1, <1>3, <2>1 DEF Request, Offered, Over
  <2>2. CASE r \notin DOMAIN plan.asks
    BY <1>1, <2>2, AccountsAssumption DEF Request, Offered, Over, Ops
  <2> QED
    BY <2>1, <2>2
<1>5. requests \in [Requests -> Request]
  BY <1>1, <1>4
<1>6. \A r \in Requests :
        /\ requests[r].at \in {"idle", "refused"} /\ ~requests[r].late /\ ~requests[r].first
        /\ requests[r].cookie = NoToken /\ requests[r].bearer = NoToken /\ requests[r].after = {}
  BY <1>1
<1>7. AccountsTypeOK
  BY <1>1, <1>2, <1>5, AccountsAssumption DEF AccountsInit, AccountsTypeOK
<1>8. Places /\ LateFoundSomebody /\ EndedStay /\ LateComersAreUsers
  BY <1>6 DEF AccountsInit, Places, Over, LateFoundSomebody, EndedStay, LateComersAreUsers
<1>9. NoToken # Empty
  BY DEF NoToken, Empty
<1>10. CarriesIssued
  BY <1>6, <1>9, NoTokens DEF CarriesIssued
<1>11. ThrottleHolds
  <2> SUFFICES ASSUME NEW e \in Emails
               PROVE attempts[e] + Cardinality(Admitted(e)) < FailLimit + widest[e]
    BY DEF ThrottleHolds
  <2>1. Admitted(e) = {}
    BY <1>6 DEF Admitted
  <2>2. attempts[e] = 0 /\ widest[e] = 0 /\ Cardinality(Admitted(e)) = 0
    BY <2>1, FS_EmptySet DEF AccountsInit
  <2> QED
    BY <2>2, AccountsAssumption
<1> QED
  BY <1>7, <1>8, <1>10, <1>11 DEF AccountsInv

\* Every step keeps the types.
LEMMA AccountsTypeStep ==
  AccountsTypeOK /\ Places /\ [AccountsNext]_accountsVars => AccountsTypeOK'
<1> SUFFICES ASSUME AccountsTypeOK, Places, [AccountsNext]_accountsVars
             PROVE AccountsTypeOK'
  OBVIOUS
<1>0. CASE UNCHANGED accountsVars
  BY <1>0 DEF accountsVars, accountRows, accountSettled, AccountsTypeOK, Tokens, Logouts
<1>t. \A q \in Request, where \in Over \cup {"select"} : Leave(q, where) \in Request
  BY LeaveIsRequest
<1>1. ASSUME NEW r \in Requests, ServeRequest(r) PROVE AccountsTypeOK'
  <2> DEFINE q == requests[r]
  <2>q. q \in Request /\ q.email \in Emails /\ q.cookie \in Offered
    BY PlacesOfRequests DEF AccountsTypeOK
  <2>1. ASSUME NEW right \in BOOLEAN, NEW c \in Offered, NEW b \in Offered, Arrive(r, right, c, b)
        PROVE AccountsTypeOK'
    <3>1. Start[q.op] \in Working
      BY <2>q DEF Request, Start, Working, Ops
    <3>2. (\E u \in Emails : users[u] # "none") \in BOOLEAN /\ ended \subseteq Logouts
      BY DEF AccountsTypeOK
    <3>3. requests' \in [Requests -> Request]
      BY <2>1, <2>q, <3>1, <3>2 DEF Arrive, AccountsTypeOK, Request
    <3> QED
      BY <2>1, <3>3 DEF Arrive, AccountsTypeOK, accountRows, accountSettled, Tokens, Logouts
  <2>2. CASE Break(r)
    BY <2>2, <2>q, <1>t DEF Break, AccountsTypeOK, accountRows, accountSettled, Over, Tokens, Logouts
  <2>3. CASE FindEmail(r) \/ SelectWorkspace(r)
    <3>1. PICK where \in Working \cup Over : Goto(r, where)
      BY <2>3 DEF FindEmail, SelectWorkspace, AfterWorkspace, Working, Over
    <3>2. requests' \in [Requests -> Request]
      BY <3>1, GotoFrame DEF AccountsTypeOK
    <3> QED
      BY <2>3, <3>2 DEF FindEmail, SelectWorkspace, AccountsTypeOK, accountRows, accountSettled, Tokens, Logouts
  <2>4. CASE FindOwner(r) \/ CreateUser(r)
    <3>1. PICK where \in Working \cup Over : Goto(r, where)
      BY <2>4 DEF FindOwner, CreateUser, Working, Over
    <3>2. requests' \in [Requests -> Request]
      BY <3>1, GotoFrame DEF AccountsTypeOK
    <3>3. users' \in [Emails -> Roles \cup {"none"}]
      BY <2>4 DEF FindOwner, CreateUser, AccountsTypeOK, Roles
    <3> QED
      BY <2>4, <3>2, <3>3 DEF FindOwner, CreateUser, AccountsTypeOK, accountSettled, Tokens, Logouts
  <2>5. CASE CountUsers(r)
    <3>1. NobodyYet \in BOOLEAN
      BY DEF NobodyYet
    <3>2. requests' \in [Requests -> Request]
      BY <2>5, <2>q, <3>1 DEF CountUsers, AccountsTypeOK, Request, Working, Over
    <3> QED
      BY <2>5, <3>2 DEF CountUsers, AccountsTypeOK, accountRows, accountSettled, Tokens, Logouts
  <2>6. CASE InsertWorkspace(r)
    <3>1. PICK where \in Working \cup Over : Goto(r, where)
      BY <2>6 DEF InsertWorkspace, Working, Over
    <3>2. requests' \in [Requests -> Request]
      BY <3>1, GotoFrame DEF AccountsTypeOK
    <3> QED
      BY <2>6, <2>q, <3>2 DEF InsertWorkspace, AccountsTypeOK, accountSettled, Tokens, Logouts
  <2>7. CASE InsertMember(r)
    <3>1. PICK where \in Working \cup Over : Goto(r, where)
      BY <2>7 DEF InsertMember, AfterWorkspace, Working, Over
    <3>2. requests' \in [Requests -> Request]
      BY <3>1, GotoFrame DEF AccountsTypeOK
    <3>3. q.email \in workspaces
      BY <2>7 DEF InsertMember, At, Places
    <3> QED
      BY <2>7, <3>2, <3>3 DEF InsertMember, AccountsTypeOK, accountSettled, Tokens, Logouts
  <2>8. CASE CreateSession(r)
    <3>1. PICK where \in Working \cup Over : Goto(r, where)
      BY <2>8 DEF CreateSession, Working, Over
    <3>2. requests' \in [Requests -> Request]
      BY <3>1, GotoFrame DEF AccountsTypeOK
    <3>3. sessions' \in [Tokens -> {"none", "live", "revoked", "expired"}]
      BY <2>8 DEF CreateSession, AccountsTypeOK
    <3> QED
      BY <2>8, <3>2, <3>3 DEF CreateSession, AccountsTypeOK, accountRows, accountSettled, Tokens, Logouts
  <2>9. CASE Throttle(r)
    <3>1. PICK where \in Working \cup Over : Goto(r, where)
      BY <2>9 DEF Throttle, Working, Over
    <3>2. requests' \in [Requests -> Request]
      BY <3>1, GotoFrame DEF AccountsTypeOK
    <3>3. Cardinality(Admitted(q.email)) \in Nat
      BY <2>q, AdmittedFinite
    <3>4. Larger(widest[q.email], Cardinality(Admitted(q.email)) + 1) \in Nat
      BY <2>q, <3>3 DEF AccountsTypeOK, Larger
    <3>5. widest' \in [Emails -> Nat]
      BY <2>9, <2>q, <3>4 DEF Throttle, AccountsTypeOK
    <3> QED
      BY <2>9, <3>2, <3>5 DEF Throttle, AccountsTypeOK, accountRows, accountSettled, Tokens, Logouts
  <2>10. CASE Lookup(r)
    <3>1. requests' \in [Requests -> Request]
      BY <2>10, <2>q DEF Lookup, AccountsTypeOK, Request, Working
    <3> QED
      BY <2>10, <3>1 DEF Lookup, AccountsTypeOK, accountRows, accountSettled, Tokens, Logouts
  <2>11. CASE RecordAttempt(r)
    <3>1. PICK where \in Working \cup Over : Goto(r, where)
      BY <2>11 DEF RecordAttempt, Working, Over
    <3>2. requests' \in [Requests -> Request]
      BY <3>1, GotoFrame DEF AccountsTypeOK
    <3>3. attempts' \in [Emails -> Nat]
      BY <2>11, <2>q DEF RecordAttempt, AccountsTypeOK
    <3> QED
      BY <2>11, <3>2, <3>3 DEF RecordAttempt, AccountsTypeOK, accountRows, accountSettled, Tokens, Logouts
  <2>12. CASE RevokeSession(r)
    <3>1. requests' \in [Requests -> Request]
      BY <2>12, <2>q, <1>t DEF RevokeSession, AccountsTypeOK, Over
    <3>2. sessions' \in [Tokens -> {"none", "live", "revoked", "expired"}]
      BY <2>12 DEF RevokeSession, AccountsTypeOK
    <3>3. ended' \subseteq Logouts
      BY <2>12, LoggedOutIsLogout DEF RevokeSession, AccountsTypeOK
    <3>4. Tokens' = Tokens /\ Logouts' = Logouts
      BY DEF Tokens, Logouts
    <3> QED
      BY <2>12, <3>1, <3>2, <3>3, <3>4 DEF RevokeSession, AccountsTypeOK, accountRows, accountSettled
  <2>13. CASE CheckSession(r)
    <3>1. HasSession(q) => Identity(q) \in Tokens
      BY DEF HasSession, ReadsAs
    <3>2. HasSession(q) => Identity(q)[1] \in Emails
      BY <3>1 DEF Tokens
    <3>3. Leave(q, "refused") \in Request /\ Leave(q, "select") \in Request
      BY <2>q, <1>t DEF Over
    <3>4. HasSession(q) => [Leave(q, "select") EXCEPT !.email = Identity(q)[1]] \in Request
      BY <3>2, <3>3 DEF Request
    <3>5. requests' \in [Requests -> Request]
      BY <2>13, <3>3, <3>4 DEF CheckSession, AccountsTypeOK
    <3> QED
      BY <2>13, <3>5 DEF CheckSession, AccountsTypeOK, accountRows, accountSettled, Tokens, Logouts
  <2> QED
    BY <1>1, <2>1, <2>2, <2>3, <2>4, <2>5, <2>6, <2>7, <2>8, <2>9, <2>10, <2>11, <2>12, <2>13
       DEF ServeRequest
<1>2. CASE Tick
  BY <1>2, AccountsAssumption DEF Tick, AccountsTypeOK, accountRows, Tokens, Logouts
<1>3. ASSUME NEW e \in Emails, Lapse(e) PROVE AccountsTypeOK'
  BY <1>3 DEF Lapse, AccountsTypeOK, accountRows, accountSettled, Tokens, Logouts
<1>4. ASSUME NEW t \in Tokens, Expire(t) PROVE AccountsTypeOK'
  BY <1>4 DEF Expire, AccountsTypeOK, accountRows, accountSettled, Tokens, Logouts
<1> QED
  BY <1>0, <1>1, <1>2, <1>3, <1>4 DEF AccountsNext

-----------------------------------------------------------------------------
\* What a row was made for stays: users, workspaces, sessions that were issued, what a
\* logout ended, and the environment.
RowsStay ==
  /\ \A u \in Emails : users[u] # "none" => users'[u] # "none"
  /\ workspaces \subseteq workspaces'
  /\ ended \subseteq ended'
  /\ \A t \in Tokens :
       /\ sessions[t] # "none" => sessions'[t] # "none"
       /\ sessions[t] \in {"revoked", "expired"} => sessions'[t] \in {"revoked", "expired"}
  /\ settings' = settings

LEMMA RowsStayStep == AccountsTypeOK /\ [AccountsNext]_accountsVars => RowsStay
<1> SUFFICES ASSUME AccountsTypeOK, [AccountsNext]_accountsVars PROVE RowsStay
  OBVIOUS
<1> USE DEF RowsStay, accountRows, accountSettled
<1>0. CASE UNCHANGED accountsVars
  BY <1>0 DEF accountsVars
<1>1. ASSUME NEW r \in Requests, ServeRequest(r) PROVE RowsStay
  <2>1. ASSUME NEW right \in BOOLEAN, NEW c \in Offered, NEW b \in Offered, Arrive(r, right, c, b)
        PROVE RowsStay
    BY <2>1 DEF Arrive
  <2>2. CASE Break(r) \/ FindEmail(r) \/ CountUsers(r) \/ SelectWorkspace(r)
    BY <2>2 DEF Break, FindEmail, CountUsers, SelectWorkspace
  <2>3. CASE FindOwner(r) \/ CreateUser(r)
    BY <2>3 DEF FindOwner, CreateUser, AccountsTypeOK
  <2>4. CASE InsertWorkspace(r) \/ InsertMember(r)
    BY <2>4 DEF InsertWorkspace, InsertMember
  <2>5. CASE CreateSession(r)
    BY <2>5 DEF CreateSession, AccountsTypeOK
  <2>6. CASE Throttle(r) \/ Lookup(r) \/ RecordAttempt(r)
    BY <2>6 DEF Throttle, Lookup, RecordAttempt
  <2>7. CASE RevokeSession(r)
    BY <2>7 DEF RevokeSession, AccountsTypeOK
  <2>8. CASE CheckSession(r)
    BY <2>8 DEF CheckSession
  <2> QED
    BY <1>1, <2>1, <2>2, <2>3, <2>4, <2>5, <2>6, <2>7, <2>8 DEF ServeRequest
<1>2. CASE Tick
  BY <1>2 DEF Tick
<1>3. ASSUME NEW e \in Emails, Lapse(e) PROVE RowsStay
  BY <1>3 DEF Lapse
<1>4. ASSUME NEW t \in Tokens, Expire(t) PROVE RowsStay
  BY <1>4 DEF Expire, AccountsTypeOK
<1> QED
  BY <1>0, <1>1, <1>2, <1>3, <1>4 DEF AccountsNext

\* A statement moves its own request, and leaves of it who asks what. Past its arrival a
\* request only loses its credentials, and its e-mail only changes at the session check.
Moves(r) ==
  /\ \A s \in Requests : s # r => requests'[s] = requests[s]
  /\ requests'[r].op = requests[r].op
  /\ requests[r].at # "check" => requests'[r].email = requests[r].email
  /\ requests[r].at # "idle" =>
       /\ requests'[r].late = requests[r].late
       /\ requests'[r].cookie \in {requests[r].cookie, NoToken}
       /\ requests'[r].bearer \in {requests[r].bearer, NoToken}
       /\ requests'[r].after \in {requests[r].after, {}}
       /\ requests[r].at # "count" => requests'[r].first = requests[r].first

LEMMA MovesStep ==
  ASSUME AccountsTypeOK, NEW r \in Requests, ServeRequest(r)
  PROVE  Moves(r)
<1> DEFINE q == requests[r]
<1>q. q \in Request /\ requests \in [Requests -> Request]
  BY DEF AccountsTypeOK
<1>1. ASSUME NEW right \in BOOLEAN, NEW c \in Offered, NEW b \in Offered, Arrive(r, right, c, b)
      PROVE Moves(r)
  BY <1>1, <1>q DEF Arrive, At, Moves, Request
<1>2. CASE Break(r) \/ RevokeSession(r)
  <2>1. PICK where \in Over : requests' = [requests EXCEPT ![r] = Leave(requests[r], where)]
    BY <1>2 DEF Break, RevokeSession, Over
  <2> QED
    BY <1>q, <2>1, LeaveIsRequest DEF Moves
<1>3. CASE \E where \in Working \cup Over : Goto(r, where)
  BY <1>3, <1>q DEF Moves, Goto, Request
<1>4. CASE CountUsers(r)
  BY <1>4, <1>q DEF CountUsers, At, Moves, Request
<1>5. CASE Lookup(r)
  BY <1>5, <1>q DEF Lookup, At, Moves, Request
<1>6. CASE CheckSession(r)
  <2>1. CASE HasSession(q)
    <3>1. requests' = [requests EXCEPT ![r] = [Leave(q, "select") EXCEPT !.email = Identity(q)[1]]]
      BY <1>6, <2>1 DEF CheckSession
    <3>2. Leave(q, "select") \in Request
      BY <1>q, LeaveIsRequest
    <3> QED
      BY <1>6, <1>q, <3>1, <3>2, LeaveIsRequest DEF CheckSession, At, Moves, Request
  <2>2. CASE ~HasSession(q)
    <3>1. requests' = [requests EXCEPT ![r] = Leave(q, "refused")]
      BY <1>6, <2>2 DEF CheckSession
    <3>2. Leave(q, "refused") \in Request
      BY <1>q, LeaveIsRequest DEF Over
    <3> QED
      BY <1>6, <1>q, <3>1, <3>2, LeaveIsRequest DEF CheckSession, At, Moves, Request, Over
  <2> QED
    BY <2>1, <2>2
<1>7. CASE FindEmail(r) \/ FindOwner(r) \/ CreateUser(r) \/ SelectWorkspace(r) \/ InsertWorkspace(r)
  BY <1>3, <1>7 DEF FindEmail, FindOwner, CreateUser, SelectWorkspace, InsertWorkspace,
                   AfterWorkspace, Working, Over
<1>8. CASE InsertMember(r) \/ CreateSession(r) \/ Throttle(r) \/ RecordAttempt(r)
  BY <1>3, <1>8 DEF InsertMember, CreateSession, Throttle, RecordAttempt,
                   AfterWorkspace, Working, Over
<1> QED
  BY <1>1, <1>2, <1>4, <1>5, <1>6, <1>7, <1>8 DEF ServeRequest

\* A request that arrives starts with its first statement and learns who is there.
LEMMA ArrivalStep ==
  ASSUME AccountsTypeOK, NEW r \in Requests, ServeRequest(r), requests[r].at = "idle"
  PROVE  /\ requests'[r].at = Start[requests[r].op]
         /\ requests'[r].first = requests[r].first
         /\ requests'[r].late = (\E u \in Emails : users[u] # "none")
         /\ requests'[r].after = ended
         /\ requests'[r].bearer # Empty
         /\ \A t \in {requests'[r].cookie, requests'[r].bearer} \cap Tokens : sessions[t] # "none"
         /\ users' = users /\ sessions' = sessions /\ ended' = ended
<1>q. requests[r] \in Request /\ requests \in [Requests -> Request]
  BY DEF AccountsTypeOK
<1>1. PICK right \in BOOLEAN, c \in Offered, b \in Offered : Arrive(r, right, c, b)
  BY DEF ServeRequest, Break, Working, FindEmail, FindOwner, CountUsers, CreateUser, SelectWorkspace,
         InsertWorkspace, InsertMember, CreateSession, Throttle, Lookup, RecordAttempt,
         RevokeSession, CheckSession, At
<1> QED
  BY <1>1, <1>q DEF Arrive, Request, accountRows

\* The count decides who is first and who may register.
LEMMA CountStep ==
  ASSUME AccountsTypeOK, NEW r \in Requests, ServeRequest(r), requests[r].at = "count"
  PROVE  \/ /\ requests'[r].first = NobodyYet
            /\ requests'[r].at = IF NobodyYet \/ settings.selfRegistration THEN "create" ELSE "refused"
         \/ requests'[r].first = requests[r].first /\ requests'[r].at = "failed"
<1>q. requests[r] \in Request /\ requests \in [Requests -> Request]
  BY DEF AccountsTypeOK
<1>1. CountUsers(r) \/ Break(r)
  BY DEF ServeRequest, Arrive, FindEmail, FindOwner, CreateUser, SelectWorkspace,
         InsertWorkspace, InsertMember, CreateSession, Throttle, Lookup, RecordAttempt,
         RevokeSession, CheckSession, At
<1>2. CASE CountUsers(r)
  BY <1>2, <1>q DEF CountUsers, Request
<1>3. CASE Break(r)
  BY <1>3, <1>q, LeaveIsRequest DEF Break, Over
<1> QED
  BY <1>1, <1>2, <1>3

\* The ways of a request through its statements: PlaceStep says where a step can take it,
\* RegisterStep where a registration comes from.
LEMMA PlaceStep ==
  ASSUME AccountsTypeOK, Places, NEW r \in Requests, ServeRequest(r)
  PROVE  /\ requests'[r].op = "register" =>
              requests'[r].at \in {"find", "count", "create", "select", "workspace", "member",
                                   "session"} \cup Over
         /\ requests'[r].at = "member" => requests'[r].email \in workspaces'
         /\ requests'[r].at # "idle"
<1> DEFINE q == requests[r]
           p == requests'[r]
<1>q. q \in Request /\ requests \in [Requests -> Request]
  BY DEF AccountsTypeOK
<1>m. Moves(r)
  BY MovesStep
<1>1. CASE q.at = "idle"
  <2>1. p.at = Start[q.op] /\ p.op = q.op
    BY <1>1, <1>m, ArrivalStep DEF Moves
  <2>2. /\ Start["register"] = "find"
        /\ \A op \in Ops : Start[op] \notin {"idle", "member"}
    BY DEF Start, Ops
  <2> QED
    BY <1>q, <2>1, <2>2, PlacesOfRequests
<1>2. CASE q.at = "count"
  BY <1>2, CountStep DEF Over
<1>3. CASE q.at \notin {"idle", "count"}
  <2>0. \A right \in BOOLEAN, c, b \in Offered : ~Arrive(r, right, c, b)
    BY <1>3 DEF Arrive, At
  <2>1. CASE Break(r) \/ RevokeSession(r)
    <3>1. PICK where \in Over : requests' = [requests EXCEPT ![r] = Leave(requests[r], where)]
      BY <2>1 DEF Break, RevokeSession, Over
    <3> QED
      BY <1>q, <3>1, LeaveIsRequest DEF Over
  <2>2. CASE FindEmail(r) \/ FindOwner(r) \/ CreateUser(r) \/ SelectWorkspace(r) \/ InsertMember(r)
    <3>1. PICK where \in {"refused", "failed", "count", "create", "select", "session", "done", "workspace"} :
            Goto(r, where)
      BY <2>2 DEF FindEmail, FindOwner, CreateUser, SelectWorkspace, InsertMember, AfterWorkspace
    <3> QED
      BY <1>q, <3>1, GotoFrame DEF Working, Over
  <2>3. CASE InsertWorkspace(r)
    <3>1. PICK where \in {"failed", "member"} : Goto(r, where)
      BY <2>3 DEF InsertWorkspace
    <3>2. p.at = where /\ p.email = q.email
      BY <1>q, <3>1, GotoFrame DEF Working, Over
    <3>3. q.email \in workspaces'
      BY <2>3 DEF InsertWorkspace
    <3> QED
      BY <3>2, <3>3 DEF Over
  <2>4. CASE CreateSession(r) \/ RecordAttempt(r)
    <3>1. PICK where \in {"done", "failed", "select", "refused"} : Goto(r, where)
      BY <2>4 DEF CreateSession, RecordAttempt
    <3> QED
      BY <1>q, <3>1, GotoFrame DEF Working, Over
  <2>5. CASE Throttle(r)
    <3>1. PICK where \in {"refused", "lookup"} : Goto(r, where)
      BY <2>5 DEF Throttle
    <3>2. q.op # "register"
      BY <2>5 DEF Throttle, At, Places, Over
    <3> QED
      BY <1>q, <3>1, <3>2, GotoFrame DEF Working, Over
  <2>6. CASE Lookup(r)
    <3>1. q.op # "register"
      BY <2>6 DEF Lookup, At, Places, Over
    <3> QED
      BY <1>q, <1>m, <2>6, <3>1 DEF Lookup, Moves
  <2>7. CASE CheckSession(r)
    <3>1. p.at \in {"select", "refused"}
      <4>1. Leave(q, "select").at = "select" /\ Leave(q, "refused").at = "refused"
            /\ Leave(q, "select") \in Request
        BY <1>q, LeaveIsRequest DEF Over
      <4> QED
        BY <1>q, <2>7, <4>1 DEF CheckSession, Request
    <3> QED
      BY <3>1 DEF Over
  <2> QED
    BY <1>3, <2>0, <2>1, <2>2, <2>3, <2>4, <2>5, <2>6, <2>7 DEF ServeRequest, CountUsers, At
<1> QED
  BY <1>1, <1>2, <1>3

LEMMA RegisterStep ==
  ASSUME AccountsTypeOK, Places, NEW r \in Requests, ServeRequest(r), requests[r].op = "register",
         requests[r].at \notin {"idle", "count"},
         requests'[r].at \in {"create", "select", "workspace", "member", "session", "done"}
  PROVE  requests[r].at \in {"create", "select", "workspace", "member", "session"}
<1> DEFINE q == requests[r]
<1>q. q \in Request /\ requests \in [Requests -> Request]
  BY DEF AccountsTypeOK
<1>1. q.at \in {"find", "create", "select", "workspace", "member", "session"} \cup Over
  BY DEF Places
<1>2. CASE q.at = "find"
  <2>1. FindEmail(r) \/ Break(r)
    BY <1>2 DEF ServeRequest, Arrive, FindOwner, CountUsers, CreateUser, SelectWorkspace, InsertWorkspace,
                InsertMember, CreateSession, Throttle, Lookup, RecordAttempt, RevokeSession, CheckSession, At
  <2>2. CASE FindEmail(r)
    <3>1. PICK where \in {"refused", "count"} : Goto(r, where)
      BY <2>2 DEF FindEmail
    <3> QED
      BY <1>q, <3>1, GotoFrame DEF Working, Over
  <2>3. CASE Break(r)
    BY <1>q, <2>3, LeaveIsRequest DEF Break, Over
  <2> QED
    BY <2>1, <2>2, <2>3
<1>3. CASE q.at \in Over
  BY <1>3 DEF ServeRequest, Arrive, Break, Working, FindEmail, FindOwner, CountUsers, CreateUser, SelectWorkspace,
              InsertWorkspace, InsertMember, CreateSession, Throttle, Lookup, RecordAttempt,
              RevokeSession, CheckSession, At, Over
<1> QED
  BY <1>1, <1>2, <1>3

\* Every step keeps what is known of late registrations.
LEMMA LateStep ==
  AccountsInv /\ [AccountsNext]_accountsVars =>
    (Places /\ LateFoundSomebody /\ LateComersAreUsers)'
<1> SUFFICES ASSUME AccountsInv, [AccountsNext]_accountsVars
             PROVE (Places /\ LateFoundSomebody /\ LateComersAreUsers)'
  OBVIOUS
<1> USE DEF AccountsInv
<1>r. RowsStay
  BY RowsStayStep
<1>0. CASE requests' = requests
  BY <1>0, <1>r DEF RowsStay, Places, LateFoundSomebody, LateComersAreUsers
<1>1. ASSUME NEW r \in Requests, ServeRequest(r)
      PROVE (Places /\ LateFoundSomebody /\ LateComersAreUsers)'
  <2> DEFINE q == requests[r]
             p == requests'[r]
  <2>m. Moves(r)
    BY <1>1, MovesStep
  <2>q. q \in Request /\ requests \in [Requests -> Request]
    BY DEF AccountsTypeOK
  <2>1. /\ p.op = "register" =>
             p.at \in {"find", "count", "create", "select", "workspace", "member", "session"} \cup Over
        /\ p.at = "member" => p.email \in workspaces'
        /\ p.at # "idle"
    BY <1>1, PlaceStep
  <2>2. p.late => \E u \in Emails : users'[u] # "none"
    <3>1. CASE q.at = "idle"
      BY <1>1, <2>q, <3>1, ArrivalStep
    <3>2. CASE q.at # "idle"
      BY <2>m, <3>2, <1>r DEF Moves, RowsStay, LateFoundSomebody
    <3> QED
      BY <3>1, <3>2
  <2>3. p.op = "register" /\ p.late
          => /\ ~p.first
             /\ p.at \in {"create", "select", "workspace", "member", "session", "done"}
                  => settings.selfRegistration
    <3>1. CASE q.at = "idle"
      <4>1. p.at = Start[q.op] /\ p.first = q.first /\ ~q.first /\ p.op = q.op
        BY <1>1, <2>m, <3>1, ArrivalStep DEF Moves, Places
      <4>2. Start["register"] = "find"
        BY DEF Start
      <4> QED
        BY <4>1, <4>2
    <3>2. CASE q.at = "count"
      <4>1. SUFFICES ASSUME p.op = "register", p.late
                     PROVE ~p.first /\ (p.at = "create" => settings.selfRegistration)
                           /\ p.at \in {"create", "refused", "failed"}
        OBVIOUS
      <4>2. q.op = "register" /\ q.late
        BY <2>m, <3>2, <4>1 DEF Moves
      <4>3. ~NobodyYet /\ ~q.first
        BY <4>2 DEF LateFoundSomebody, NobodyYet, LateComersAreUsers
      <4> QED
        BY <1>1, <3>2, <4>3, CountStep
    <3>3. CASE q.at \notin {"idle", "count"}
      <4>1. ASSUME p.op = "register", p.late
            PROVE  q.op = "register" /\ q.late /\ p.first = q.first
        BY <2>m, <3>3, <4>1 DEF Moves
      <4>2. ASSUME p.op = "register", p.at \in {"create", "select", "workspace", "member", "session", "done"}
            PROVE  q.at \in {"create", "select", "workspace", "member", "session"}
        BY <1>1, <2>m, <3>3, <4>2, RegisterStep DEF Moves
      <4> QED
        BY <4>1, <4>2 DEF LateComersAreUsers
    <3> QED
      BY <3>1, <3>2, <3>3
  <2>4. Places'
    BY <2>1, <2>m, <1>r DEF Places, Moves, RowsStay
  <2>5. LateFoundSomebody'
    BY <2>2, <2>m, <1>r DEF LateFoundSomebody, Moves, RowsStay
  <2>6. LateComersAreUsers'
    BY <2>3, <2>m, <1>r DEF LateComersAreUsers, Moves, RowsStay
  <2> QED
    BY <2>4, <2>5, <2>6
<1>2. CASE Tick
  BY <1>0, <1>2 DEF Tick
<1>3. ASSUME NEW e \in Emails, Lapse(e) PROVE requests' = requests
  BY <1>3 DEF Lapse
<1>4. ASSUME NEW t \in Tokens, Expire(t) PROVE requests' = requests
  BY <1>4 DEF Expire
<1> QED
  BY <1>0, <1>1, <1>2, <1>3, <1>4 DEF AccountsNext, accountsVars

\* Every step keeps what is known of sessions.
LEMMA SessionStep ==
  AccountsInv /\ [AccountsNext]_accountsVars => (CarriesIssued /\ EndedStay)'
<1> SUFFICES ASSUME AccountsInv, [AccountsNext]_accountsVars PROVE (CarriesIssued /\ EndedStay)'
  OBVIOUS
<1> USE DEF AccountsInv
<1>r. RowsStay
  BY RowsStayStep
<1>o. Tokens' = Tokens
  BY DEF Tokens
<1>s. \A e \in ended : e.by = "cookie" => sessions'[e.session] \in {"revoked", "expired"}
  <2> SUFFICES ASSUME NEW e \in ended, e.by = "cookie"
               PROVE sessions'[e.session] \in {"revoked", "expired"}
    OBVIOUS
  <2>1. e.session \in Tokens
    BY DEF AccountsTypeOK, Logouts
  <2> QED
    BY <1>r, <2>1 DEF EndedStay, RowsStay
<1>e. ASSUME ended' = ended, \A r \in Requests : requests'[r].after \subseteq ended
      PROVE EndedStay'
  BY <1>e, <1>s DEF EndedStay
<1>0. CASE requests' = requests /\ ended' = ended
  BY <1>0, <1>e, <1>o, <1>r DEF CarriesIssued, EndedStay, RowsStay
<1>1. ASSUME NEW r \in Requests, ServeRequest(r) PROVE (CarriesIssued /\ EndedStay)'
  <2> DEFINE q == requests[r]
             p == requests'[r]
  <2>m. Moves(r)
    BY <1>1, MovesStep
  <2>0. NoToken \notin Tokens /\ NoToken # Empty
    BY NoTokens DEF NoToken, Empty
  <2>1. p.bearer # Empty /\ \A t \in {p.cookie, p.bearer} \cap Tokens : sessions'[t] # "none"
    <3>1. CASE q.at = "idle"
      BY <1>1, <3>1, ArrivalStep
    <3>2. CASE q.at # "idle"
      BY <2>m, <2>0, <3>2, <1>r DEF Moves, CarriesIssued, RowsStay
    <3> QED
      BY <3>1, <3>2
  <2>2. CarriesIssued'
    BY <2>1, <2>m, <1>o, <1>r DEF CarriesIssued, Moves, RowsStay
  <2>3. p.after \subseteq ended
    <3>1. CASE q.at = "idle"
      BY <1>1, <3>1, ArrivalStep
    <3>2. CASE q.at # "idle"
      BY <2>m, <3>2 DEF Moves, EndedStay
    <3> QED
      BY <3>1, <3>2
  <2>4. \A s \in Requests : requests'[s].after \subseteq ended
    BY <2>3, <2>m DEF Moves, EndedStay
  <2>5. CASE RevokeSession(r)
    <3>1. HasSession(q) /\ LoggedOut(q).by = "cookie"
            => sessions'[LoggedOut(q).session] = "revoked"
      BY <2>5, LoggedOutIsLogout DEF RevokeSession, AccountsTypeOK
    <3>2. ended' = IF HasSession(q) THEN ended \cup {LoggedOut(q)} ELSE ended
      BY <2>5 DEF RevokeSession
    <3>3. \A e \in ended' : e.by = "cookie" => sessions'[e.session] \in {"revoked", "expired"}
      BY <1>s, <3>1, <3>2
    <3>4. ended \subseteq ended'
      BY <3>2
    <3> QED
      BY <2>2, <2>4, <3>3, <3>4 DEF EndedStay
  <2>6. CASE ~RevokeSession(r)
    <3>1. ended' = ended
      BY <1>1, <2>6 DEF ServeRequest, Arrive, Break, FindEmail, FindOwner, CountUsers, CreateUser,
                       SelectWorkspace, InsertWorkspace, InsertMember, CreateSession, Throttle,
                       Lookup, RecordAttempt, CheckSession
    <3> QED
      BY <1>e, <2>2, <2>4, <3>1
  <2> QED
    BY <2>5, <2>6
<1>2. CASE Tick
  BY <1>0, <1>2 DEF Tick
<1>3. ASSUME NEW e \in Emails, Lapse(e) PROVE requests' = requests /\ ended' = ended
  BY <1>3 DEF Lapse
<1>4. ASSUME NEW t \in Tokens, Expire(t) PROVE requests' = requests /\ ended' = ended
  BY <1>4 DEF Expire
<1> QED
  BY <1>0, <1>1, <1>2, <1>3, <1>4 DEF AccountsNext, accountsVars

\* Only the throttle and the password lead to a lookup and its record.
LEMMA ElsewhereStep ==
  ASSUME AccountsTypeOK, NEW r \in Requests, ServeRequest(r),
         ~Throttle(r), ~RecordAttempt(r), ~Lookup(r)
  PROVE  requests'[r].at \notin {"lookup", "record"}
<1> DEFINE q == requests[r]
<1>q. q \in Request /\ requests \in [Requests -> Request]
  BY DEF AccountsTypeOK
<1>1. CASE q.at = "idle"
  <2>1. \A op \in Ops : Start[op] \notin {"lookup", "record"}
    BY DEF Start, Ops
  <2> QED
    BY <1>1, <1>q, <2>1, ArrivalStep, PlacesOfRequests
<1>2. CASE q.at = "count"
  BY <1>2, CountStep
<1>3. CASE q.at \notin {"idle", "count"}
  <2>1. CASE Break(r) \/ RevokeSession(r)
    <3>1. PICK where \in Over : requests' = [requests EXCEPT ![r] = Leave(requests[r], where)]
      BY <2>1 DEF Break, RevokeSession, Over
    <3> QED
      BY <1>q, <3>1, LeaveIsRequest DEF Over
  <2>2. CASE \E where \in (Working \cup Over) \ {"lookup", "record"} : Goto(r, where)
    BY <1>q, <2>2, GotoFrame
  <2>3. CASE FindEmail(r) \/ FindOwner(r) \/ CreateUser(r) \/ SelectWorkspace(r)
    BY <2>2, <2>3 DEF FindEmail, FindOwner, CreateUser, SelectWorkspace, AfterWorkspace, Working, Over
  <2>4. CASE InsertWorkspace(r) \/ InsertMember(r) \/ CreateSession(r)
    BY <2>2, <2>4 DEF InsertWorkspace, InsertMember, CreateSession, AfterWorkspace, Working, Over
  <2>5. CASE CheckSession(r)
    <3>1. Leave(q, "select").at = "select" /\ Leave(q, "refused").at = "refused"
          /\ Leave(q, "select") \in Request
      BY <1>q, LeaveIsRequest DEF Over
    <3> QED
      BY <1>q, <2>5, <3>1 DEF CheckSession, Request
  <2> QED
    BY <1>3, <2>1, <2>3, <2>4, <2>5 DEF ServeRequest, CountUsers, Arrive, At
<1> QED
  BY <1>1, <1>2, <1>3

\* A step admits nobody but at the throttle, and only a recorded outcome takes one away.
LEMMA AdmittedStep ==
  ASSUME AccountsTypeOK, NEW r \in Requests, ServeRequest(r), NEW e \in Emails
  PROVE  \/ /\ Admitted(e)' \subseteq Admitted(e)
            /\ attempts'[e] = attempts[e] /\ widest'[e] = widest[e]
         \/ /\ Admitted(e)' = Admitted(e) \ {r} /\ r \in Admitted(e)
            /\ attempts'[e] \in {attempts[e], attempts[e] + 1} /\ widest'[e] = widest[e]
         \/ /\ Admitted(e)' = Admitted(e) \cup {r}
            /\ attempts'[e] = attempts[e] /\ attempts[e] < FailLimit
            /\ widest'[e] = Larger(widest[e], Cardinality(Admitted(e)) + 1)
<1> DEFINE q == requests[r]
           p == requests'[r]
<1>q. q \in Request /\ requests \in [Requests -> Request]
  BY DEF AccountsTypeOK
<1>t. attempts \in [Emails -> Nat] /\ widest \in [Emails -> Nat] /\ FailLimit \in Nat
  BY AccountsAssumption DEF AccountsTypeOK
<1>m. Moves(r)
  BY MovesStep
<1>1. CASE Throttle(r)
  <2>1. /\ q.at = "throttle" /\ p.email = q.email
        /\ p.at = IF Throttled(q.email) THEN "refused" ELSE "lookup"
    BY <1>1, <1>q, <1>m DEF Throttle, At, Moves, Goto
  <2>2. CASE Throttled(q.email) \/ q.email # e
    <3>1. Admitted(e)' = Admitted(e)
      BY <1>m, <2>1, <2>2 DEF Admitted, Moves
    <3> QED
      BY <1>1, <1>t, <2>2, <3>1 DEF Throttle
  <2>3. CASE ~Throttled(e) /\ q.email = e
    <3>1. Admitted(e)' = Admitted(e) \cup {r}
      BY <1>m, <2>1, <2>3 DEF Admitted, Moves
    <3> QED
      BY <1>1, <1>t, <2>3, <3>1 DEF Throttle, Throttled
  <2> QED
    BY <2>2, <2>3
<1>2. CASE RecordAttempt(r)
  <2>1. q.at = "record" /\ p.email = q.email /\ p.at \in {"select", "refused"}
    BY <1>2, <1>q, <1>m DEF RecordAttempt, At, Moves, Goto
  <2>2. CASE q.email = e
    <3>1. Admitted(e)' = Admitted(e) \ {r} /\ r \in Admitted(e)
      BY <1>m, <2>1, <2>2 DEF Admitted, Moves
    <3> QED
      BY <1>2, <1>t, <2>2, <3>1 DEF RecordAttempt
  <2>3. CASE q.email # e
    <3>1. Admitted(e)' = Admitted(e)
      BY <1>m, <2>1, <2>3 DEF Admitted, Moves
    <3> QED
      BY <1>2, <1>t, <2>3, <3>1 DEF RecordAttempt
  <2> QED
    BY <2>2, <2>3
<1>3. CASE Lookup(r)
  <2>1. q.at = "lookup" /\ p.email = q.email /\ p.at = "record"
    BY <1>3, <1>q, <1>m DEF Lookup, At, Moves
  <2>2. Admitted(e)' = Admitted(e)
    BY <1>m, <2>1 DEF Admitted, Moves
  <2> QED
    BY <1>3, <2>2 DEF Lookup
<1>4. CASE ~Throttle(r) /\ ~RecordAttempt(r) /\ ~Lookup(r)
  <2>1. attempts' = attempts /\ widest' = widest
    BY <1>4 DEF ServeRequest, Arrive, Break, FindEmail, FindOwner, CountUsers, CreateUser,
                SelectWorkspace, InsertWorkspace, InsertMember, CreateSession, RevokeSession, CheckSession
  <2>2. p.at \notin {"lookup", "record"}
    BY <1>4, ElsewhereStep
  <2>3. Admitted(e)' \subseteq Admitted(e)
    BY <1>m, <2>2 DEF Admitted, Moves
  <2> QED
    BY <2>1, <2>3
<1> QED
  BY <1>1, <1>2, <1>3, <1>4

\* Every step keeps the bound of the throttle.
LEMMA ThrottleStep ==
  AccountsInv /\ [AccountsNext]_accountsVars => ThrottleHolds'
<1> SUFFICES ASSUME AccountsInv, [AccountsNext]_accountsVars, NEW e \in Emails
             PROVE attempts'[e] + Cardinality(Admitted(e)') < FailLimit + widest'[e]
  BY DEF ThrottleHolds
<1> USE DEF AccountsInv
<1>f. IsFiniteSet(Admitted(e)) /\ Cardinality(Admitted(e)) \in Nat
  BY AdmittedFinite
<1>i. attempts[e] + Cardinality(Admitted(e)) < FailLimit + widest[e]
  BY DEF ThrottleHolds
<1>t. attempts[e] \in Nat /\ widest[e] \in Nat /\ FailLimit \in Nat
  BY AccountsAssumption DEF AccountsTypeOK
<1>0. CASE requests' = requests /\ widest' = widest /\ attempts'[e] \in {0, attempts[e]}
  <2>1. Admitted(e)' = Admitted(e)
    BY <1>0 DEF Admitted
  <2> QED
    BY <1>0, <1>f, <1>i, <1>t, <2>1
<1>1. ASSUME NEW r \in Requests, ServeRequest(r)
      PROVE attempts'[e] + Cardinality(Admitted(e)') < FailLimit + widest'[e]
  <2>1. CASE /\ Admitted(e)' \subseteq Admitted(e)
             /\ attempts'[e] = attempts[e] /\ widest'[e] = widest[e]
    <3>1. Cardinality(Admitted(e)') \in Nat /\ Cardinality(Admitted(e)') <= Cardinality(Admitted(e))
      BY <1>f, <2>1, FS_Subset, FS_CardinalityType
    <3> QED
      BY <1>f, <1>i, <1>t, <2>1, <3>1
  <2>2. CASE /\ Admitted(e)' = Admitted(e) \ {r} /\ r \in Admitted(e)
             /\ attempts'[e] \in {attempts[e], attempts[e] + 1} /\ widest'[e] = widest[e]
    <3>1. Cardinality(Admitted(e)') = Cardinality(Admitted(e)) - 1
      BY <1>f, <2>2, FS_RemoveElement
    <3> QED
      BY <1>f, <1>i, <1>t, <2>2, <3>1
  <2>3. CASE /\ Admitted(e)' = Admitted(e) \cup {r}
             /\ attempts'[e] = attempts[e] /\ attempts[e] < FailLimit
             /\ widest'[e] = Larger(widest[e], Cardinality(Admitted(e)) + 1)
    <3>1. Cardinality(Admitted(e)') \in Nat /\ Cardinality(Admitted(e)') <= Cardinality(Admitted(e)) + 1
      <4>1. IsFiniteSet(Admitted(e) \cup {r})
        BY <1>f, FS_AddElement
      <4>2. Cardinality(Admitted(e) \cup {r}) \in {Cardinality(Admitted(e)), Cardinality(Admitted(e)) + 1}
        BY <1>f, FS_AddElement
      <4> QED
        BY <1>f, <2>3, <4>2
    <3>2. widest'[e] \in Nat /\ widest'[e] >= Cardinality(Admitted(e)) + 1
      BY <1>f, <1>t, <2>3 DEF Larger
    <3> QED
      BY <1>f, <1>t, <2>3, <3>1, <3>2
  <2> QED
    BY <1>1, <2>1, <2>2, <2>3, AdmittedStep
<1>2. CASE Tick
  BY <1>0, <1>2 DEF Tick
<1>3. ASSUME NEW f \in Emails, Lapse(f)
      PROVE requests' = requests /\ widest' = widest /\ attempts'[e] \in {0, attempts[e]}
  BY <1>3 DEF Lapse, AccountsTypeOK
<1>4. ASSUME NEW t \in Tokens, Expire(t)
      PROVE requests' = requests /\ widest' = widest /\ attempts'[e] \in {0, attempts[e]}
  BY <1>4 DEF Expire
<1> QED
  BY <1>0, <1>1, <1>2, <1>3, <1>4 DEF AccountsNext, accountsVars

\* A request served under a token names one that is live.
LEMMA ServedIsLive ==
  ASSUME AccountsTypeOK, CarriesIssued, NEW r \in Requests,
         HasSession(requests[r]), requests[r].cookie # Empty
  PROVE  sessions[Identity(requests[r])] = "live"
<1> DEFINE q == requests[r]
<1>1. q.bearer # Empty /\ NoToken # Empty /\ NoToken \notin Tokens
  BY NoTokens DEF CarriesIssued, NoToken, Empty
<1>2. Presented(q) # Empty
  BY <1>1 DEF Presented, Bearer
<1>3. Presented(q) \in Tokens /\ sessions[Presented(q)] = "live"
  BY <1>2 DEF HasSession
<1>4. CASE q.cookie = NoToken
  BY <1>1, <1>3, <1>4 DEF Presented, Identity, ReadsAs
<1>5. CASE q.cookie # NoToken
  BY <1>3, <1>5 DEF Presented, Identity, ReadsAs
<1> QED
  BY <1>4, <1>5

-----------------------------------------------------------------------------
\* Every step keeps the invariant.
LEMMA AccountsInvStep == AccountsInv /\ [AccountsNext]_accountsVars => AccountsInv'
BY AccountsTypeStep, LateStep, SessionStep, ThrottleStep DEF AccountsInv

LEMMA AccountsInvariant == AccountsSpec => []AccountsInv
BY AccountsInitInv, AccountsInvStep, PTL DEF AccountsSpec

\* The tables of accounts and the requests always have their types, and a member row
\* always has its workspace.
THEOREM AccountsTypeCorrect == AccountsSpec => []AccountsTypeOK
<1>1. AccountsInv => AccountsTypeOK
  BY DEF AccountsInv
<1> QED
  BY AccountsInvariant, <1>1, PTL

\* A registration that arrives when somebody has an account is never the first user's, and
\* goes no further than the count without self-registration (registerUser).
THEOREM LateComersNeverFirst == AccountsSpec => []LateComersAreUsers
<1>1. AccountsInv => LateComersAreUsers
  BY DEF AccountsInv
<1> QED
  BY AccountsInvariant, <1>1, PTL

\* However many logins run side by side, an e-mail's failed attempts stay below the limit
\* plus the most that were past the throttle at once (countFailedLoginAttempts).
THEOREM ThrottleBounded == AccountsSpec => []ThrottleHolds
<1>1. AccountsInv => ThrottleHolds
  BY DEF AccountsInv
<1> QED
  BY AccountsInvariant, <1>1, PTL

\* Who is served is logged in, and a session that a logout by cookie ended stays so.
LEMMA LogoutStep ==
  ASSUME AccountsInv, [AccountsNext]_accountsVars, NEW r \in Requests,
         At(r, "check"), requests'[r].at = "select", requests[r].cookie # Empty
  PROVE  [session |-> Identity(requests[r]), by |-> "cookie"] \notin requests[r].after
<1> USE DEF AccountsInv
<1>1. HasSession(requests[r])
  <2>1. PICK s \in Requests : ServeRequest(s)
    <3>1. requests' # requests
      BY DEF At
    <3> QED
      BY <3>1 DEF AccountsNext, accountsVars, Tick, Lapse, Expire
  <2>2. s = r
    BY <2>1, MovesStep DEF Moves, At
  <2>3. CheckSession(r) \/ Break(r)
    BY <2>1, <2>2 DEF ServeRequest, Arrive, FindEmail, FindOwner, CountUsers, CreateUser,
         SelectWorkspace, InsertWorkspace, InsertMember, CreateSession, Throttle, Lookup,
         RecordAttempt, RevokeSession, At
  <2>4. requests[r] \in Request /\ requests \in [Requests -> Request]
    BY DEF AccountsTypeOK
  <2>5. Leave(requests[r], "refused").at = "refused" /\ Leave(requests[r], "failed").at = "failed"
    BY <2>4, LeaveIsRequest DEF Over
  <2> QED
    BY <2>3, <2>4, <2>5 DEF CheckSession, Break
<1>2. sessions[Identity(requests[r])] = "live"
  BY <1>1, ServedIsLive
<1>3. ~([session |-> Identity(requests[r]), by |-> "cookie"] \in ended)
  BY <1>2 DEF EndedStay
<1> QED
  BY <1>3 DEF EndedStay

\* A logout that named its session with the cookie ends it: whoever arrives after its answer
\* is not served under that token, but with an empty cookie beside a bearer
\* (revokeSession, loadSessionUser). A logout that names its session by bearer does not.
THEOREM LogoutEndsSessions == AccountsSpec => LogoutEnds
<1>1. AccountsInv /\ [AccountsNext]_accountsVars
        => [\A r \in Requests :
              At(r, "check") /\ requests'[r].at = "select" /\ requests[r].cookie # Empty
                => [session |-> Identity(requests[r]), by |-> "cookie"] \notin requests[r].after]_accountsVars
  BY LogoutStep
<1> QED
  BY AccountsInvariant, <1>1, PTL DEF AccountsSpec, LogoutEnds
=============================================================================
