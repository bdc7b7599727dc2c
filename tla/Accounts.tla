------------------------------ MODULE Accounts ------------------------------
(***************************************************************************)
(* Accounts, sessions and the login throttle: the routes under /api/auth,  *)
(* the session check in front of every other route, the personal           *)
(* workspaces and the owner seeded at start.                               *)
(*                                                                         *)
(* A request goes on one statement at a time (every await lets the other   *)
(* requests of this instance, and of others on the same tables, go first). *)
(* A user is its e-mail (a unique column, and no user is ever deleted); a  *)
(* password is right or wrong; a token is the user and the millisecond it  *)
(* was issued in, all that its signed payload holds.                       *)
(***************************************************************************)
EXTENDS Naturals, Sequences, FiniteSets

CONSTANTS
  Emails,            \* the e-mails requests may name
  OwnerEmail,        \* OWNER_EMAIL, seeded at start
  Callers,           \* how many requests there can be (bound)
  Plans,             \* instances: the environment and what the requests ask
  FailLimit,         \* eight: failed logins before the throttle refuses
  MaxClock           \* milliseconds that pass (bound)

ASSUME AccountsAssumption ==
  /\ OwnerEmail \in Emails
  /\ Callers \in Nat \ {0}
  /\ FailLimit \in Nat \ {0}
  /\ MaxClock \in Nat
  /\ Plans \subseteq [selfRegistration : BOOLEAN, bodyTokens : BOOLEAN,
                      asks : Seq([op : {"register", "login", "logout", "call", "boot"}, email : Emails])]
  /\ \A p \in Plans : \A r \in DOMAIN p.asks : p.asks[r].op = "boot" => p.asks[r].email = OwnerEmail

VARIABLES
  users,        \* e-mail -> role of its row, "none" without one
  workspaces,   \* users with a workspace row
  members,      \* users with a row as member of their workspace
  attempts,     \* e-mail -> failed logins of the last fifteen minutes
  sessions,     \* token -> state of its row, "none" without one
  clock,        \* Date.now()
  settings,     \* the environment: selfRegistration, bodyTokens
  requests,     \* request -> what it asks and where it stands
  ended,        \* the logouts that were answered (history)
  widest        \* e-mail -> most logins past the throttle at once (history)

accountRows == <<users, workspaces, members>>
accountSettled == <<clock, settings>>
accountsVars == <<accountRows, attempts, sessions, accountSettled, requests, ended, widest>>

Requests == 1 .. Callers
Tokens == Emails \X (0 .. MaxClock)
NoToken == <<>>            \* no cookie, no header
Empty == <<"">>            \* a cookie that is there and empty
Junk == <<"junk">>         \* a value without our signature
Offered == Tokens \cup {NoToken, Empty, Junk}
\* A logout: the session it was asked with, and what brought it.
Logouts == [session : Tokens, by : {"cookie", "bearer"}]
Roles == {"user", "admin"}
Ops == {"register", "login", "logout", "call", "boot"}
Working == {"find", "count", "create", "select", "workspace", "member", "session",
            "throttle", "lookup", "record", "revoke", "check"}
Over == {"done", "refused", "failed"}
Start == [register |-> "find", login |-> "throttle", logout |-> "revoke",
          call |-> "check", boot |-> "find"]

Request == [op : Ops, email : Emails, right : BOOLEAN, cookie : Offered, bearer : Offered,
            at : Working \cup Over \cup {"idle"}, first : BOOLEAN, late : BOOLEAN,
            after : SUBSET Logouts]

At(r, where) == requests[r].at = where
Goto(r, where) == requests' = [requests EXCEPT ![r].at = where]
\* Its credentials have served their purpose.
Leave(q, where) == [q EXCEPT !.at = where, !.cookie = NoToken, !.bearer = NoToken, !.after = {}]

\* Logins of e the throttle has let through and whose outcome is not recorded yet.
Admitted(e) == {r \in Requests : requests[r].email = e /\ requests[r].at \in {"lookup", "record"}}

Larger(m, n) == IF m > n THEN m ELSE n

\* A bearer only counts when SESSION_TOKEN_IN_BODY is set.
Bearer(q) == IF settings.bodyTokens THEN q.bearer ELSE NoToken

\* readSession: our signature, not past its time.
ReadsAs(t) == t \in Tokens /\ sessions[t] # "expired"

\* The token that says who is asking: the cookie's, if it reads, else the bearer's.
Identity(q) == IF ReadsAs(q.cookie) THEN q.cookie ELSE Bearer(q)

\* The token whose row is read: a cookie that is there, an empty one too, else the bearer.
PresentedBearer(q) == IF Bearer(q) # NoToken THEN Bearer(q) ELSE q.cookie
Presented(q) == IF q.cookie # NoToken THEN q.cookie ELSE Bearer(q)

\* loadSessionUser up to its row, which has to be live and the identity's. No row is
\* read for an empty cookie.
HasSession(q) ==
  /\ ReadsAs(Identity(q))
  /\ Presented(q) # Empty =>
       /\ Presented(q) \in Tokens
       /\ sessions[Presented(q)] = "live"
       /\ Presented(q)[1] = Identity(q)[1]

AccountsInit ==
  /\ users = [e \in Emails |-> "none"]
  /\ workspaces = {} /\ members = {} /\ ended = {} /\ clock = 0
  /\ attempts = [e \in Emails |-> 0]
  /\ widest = [e \in Emails |-> 0]
  /\ sessions = [t \in Tokens |-> "none"]
  /\ \E plan \in Plans :
       /\ settings = [selfRegistration |-> plan.selfRegistration, bodyTokens |-> plan.bodyTokens]
       /\ requests = [r \in Requests |->
            [op |-> IF r \in DOMAIN plan.asks THEN plan.asks[r].op ELSE "call",
             email |-> IF r \in DOMAIN plan.asks THEN plan.asks[r].email ELSE OwnerEmail,
             at |-> IF r \in DOMAIN plan.asks THEN "idle" ELSE "refused",
             right |-> FALSE, cookie |-> NoToken, bearer |-> NoToken, first |-> FALSE,
             late |-> FALSE, after |-> {}]]

\* A request arrives, with any password, and with what cookie and header it likes: only
\* a token that was issued carries our signature. (Requests arrive in the order of
\* their numbers, which mean nothing else.)
Arrive(r, right, c, b) ==
  /\ At(r, "idle") /\ \A s \in 1 .. r - 1 : ~At(s, "idle")
  /\ right => requests[r].op = "login"
  /\ requests[r].op \notin {"logout", "call"} => c = NoToken /\ b = NoToken
  /\ b # Empty
  /\ \A t \in {c, b} \cap Tokens : sessions[t] # "none"
  /\ requests' = [requests EXCEPT ![r] =
       [@ EXCEPT !.right = right, !.cookie = c, !.bearer = b, !.at = Start[requests[r].op],
                 !.late = \E u \in Emails : users[u] # "none", !.after = ended]]
  /\ UNCHANGED <<accountRows, attempts, sessions, accountSettled, ended, widest>>

\* A statement fails: the route answers with an error.
Break(r) ==
  /\ requests[r].at \in Working
  /\ requests' = [requests EXCEPT ![r] = Leave(@, "failed")]
  /\ UNCHANGED <<accountRows, attempts, sessions, accountSettled, ended, widest>>

\* registerUser refuses an e-mail it finds.
FindEmail(r) ==
  /\ At(r, "find") /\ requests[r].op = "register"
  /\ Goto(r, IF users[requests[r].email] # "none" THEN "refused" ELSE "count")
  /\ UNCHANGED <<accountRows, attempts, sessions, accountSettled, ended, widest>>

\* bootstrapOwner promotes the owner it finds.
FindOwner(r) ==
  LET e == requests[r].email IN
  /\ At(r, "find") /\ requests[r].op = "boot"
  /\ Goto(r, IF users[e] # "none" THEN "select" ELSE "create")
  /\ users' = IF users[e] = "user" THEN [users EXCEPT ![e] = "admin"] ELSE users
  /\ UNCHANGED <<workspaces, members, attempts, sessions, accountSettled, ended, widest>>

\* countUsers(db) = 0; counting workspaces, which come later, would not do.
NoWorkspaceYet == workspaces = {}
NobodyYet == \A e \in Emails : users[e] = "none"

\* isFirstUser, and whether anyone else may register; the password is hashed next.
CountUsers(r) ==
  /\ At(r, "count")
  /\ requests' = [requests EXCEPT
       ![r].first = NobodyYet,
       ![r].at = IF NobodyYet \/ settings.selfRegistration THEN "create" ELSE "refused"]
  /\ UNCHANGED <<accountRows, attempts, sessions, accountSettled, ended, widest>>

\* createUser: the e-mail is unique, so a second row is an error.
CreateUser(r) ==
  LET e == requests[r].email
      role == IF requests[r].op = "boot" \/ requests[r].first THEN "admin" ELSE "user" IN
  /\ At(r, "create")
  /\ users' = IF users[e] = "none" THEN [users EXCEPT ![e] = role] ELSE users
  /\ Goto(r, IF users[e] = "none" THEN "select" ELSE "failed")
  /\ UNCHANGED <<workspaces, members, attempts, sessions, accountSettled, ended, widest>>

\* What follows the workspace: a session for a registration or a login.
AfterWorkspace(r) == IF requests[r].op \in {"register", "login"} THEN "session" ELSE "done"

\* ensurePersonalWorkspace: look for the row, insert it (its tenant is unique), then
\* insert the membership. A workspace that is found is not asked for its member.
SelectWorkspace(r) ==
  /\ At(r, "select")
  /\ Goto(r, IF requests[r].email \in workspaces THEN AfterWorkspace(r) ELSE "workspace")
  /\ UNCHANGED <<accountRows, attempts, sessions, accountSettled, ended, widest>>

InsertWorkspace(r) ==
  LET e == requests[r].email IN
  /\ At(r, "workspace")
  /\ workspaces' = workspaces \cup {e}
  /\ Goto(r, IF e \in workspaces THEN "failed" ELSE "member")
  /\ UNCHANGED <<users, members, attempts, sessions, accountSettled, ended, widest>>

InsertMember(r) ==
  /\ At(r, "member")
  /\ members' = members \cup {requests[r].email}
  /\ Goto(r, AfterWorkspace(r))
  /\ UNCHANGED <<users, workspaces, attempts, sessions, accountSettled, ended, widest>>

\* createSession: a second token of one user in one millisecond is the same token, and
\* its row is unique. (When the user signed in, and the rows of the audit, are left out;
\* a registration looks for its workspace once more at the end, and finds it.)
CreateSession(r) ==
  LET t == <<requests[r].email, clock>> IN
  /\ At(r, "session")
  /\ sessions' = IF sessions[t] = "none" THEN [sessions EXCEPT ![t] = "live"] ELSE sessions
  /\ Goto(r, IF sessions[t] = "none" THEN "done" ELSE "failed")
  /\ UNCHANGED <<accountRows, attempts, accountSettled, ended, widest>>

ThrottledLate(e) == attempts[e] > FailLimit
Throttled(e) == attempts[e] >= FailLimit

\* The login counts the failed attempts of the e-mail before it looks at the password.
Throttle(r) ==
  LET e == requests[r].email IN
  /\ At(r, "throttle")
  /\ Goto(r, IF Throttled(e) THEN "refused" ELSE "lookup")
  /\ widest' = IF Throttled(e) THEN widest
               ELSE [widest EXCEPT ![e] = Larger(@, Cardinality(Admitted(e)) + 1)]
  /\ UNCHANGED <<accountRows, attempts, sessions, accountSettled, ended>>

\* findUserByEmail and verifyPassword: nobody's password is right.
Lookup(r) ==
  /\ At(r, "lookup")
  /\ requests' = [requests EXCEPT
       ![r].right = @ /\ users[requests[r].email] # "none",
       ![r].at = "record"]
  /\ UNCHANGED <<accountRows, attempts, sessions, accountSettled, ended, widest>>

RecordAttempt(r) ==
  LET q == requests[r] IN
  /\ At(r, "record")
  /\ attempts' = IF q.right THEN attempts ELSE [attempts EXCEPT ![q.email] = @ + 1]
  /\ Goto(r, IF q.right THEN "select" ELSE "refused")
  /\ UNCHANGED <<accountRows, sessions, accountSettled, ended, widest>>

\* The session a request is served under, and whether its cookie or its bearer names it.
LoggedOut(q) == [session |-> Identity(q), by |-> IF ReadsAs(q.cookie) THEN "cookie" ELSE "bearer"]

\* Logout revokes the session of the cookie, a bearer is not looked at, and succeeds.
RevokeSession(r) ==
  LET q == requests[r] IN
  /\ At(r, "revoke")
  /\ sessions' = IF q.cookie \in Tokens /\ sessions[q.cookie] = "live"
                 THEN [sessions EXCEPT ![q.cookie] = "revoked"] ELSE sessions
  /\ ended' = IF HasSession(q) THEN ended \cup {LoggedOut(q)} ELSE ended
  /\ requests' = [requests EXCEPT ![r] = Leave(@, "done")]
  /\ UNCHANGED <<accountRows, attempts, accountSettled, widest>>

\* The session check of a guarded route; the user it finds gets a workspace.
CheckSession(r) ==
  LET q == requests[r] IN
  /\ At(r, "check")
  /\ requests' = [requests EXCEPT ![r] =
       IF HasSession(q) THEN [Leave(q, "select") EXCEPT !.email = Identity(q)[1]]
       ELSE Leave(q, "refused")]
  /\ UNCHANGED <<accountRows, attempts, sessions, accountSettled, ended, widest>>

\* Time: a millisecond, a quarter of an hour, the seven days of a session.
Tick ==
  /\ clock < MaxClock /\ clock' = clock + 1
  /\ UNCHANGED <<accountRows, attempts, sessions, settings, requests, ended, widest>>
Lapse(e) ==
  /\ attempts[e] > 0 /\ attempts' = [attempts EXCEPT ![e] = 0]
  /\ UNCHANGED <<accountRows, sessions, accountSettled, requests, ended, widest>>
Expire(t) ==
  /\ sessions[t] \in {"live", "revoked"} /\ sessions' = [sessions EXCEPT ![t] = "expired"]
  /\ UNCHANGED <<accountRows, attempts, accountSettled, requests, ended, widest>>

ServeRequest(r) ==
  \/ \E right \in BOOLEAN, c, b \in Offered : Arrive(r, right, c, b)
  \/ Break(r) \/ FindEmail(r) \/ FindOwner(r) \/ CountUsers(r) \/ CreateUser(r)
  \/ SelectWorkspace(r) \/ InsertWorkspace(r) \/ InsertMember(r) \/ CreateSession(r)
  \/ Throttle(r) \/ Lookup(r) \/ RecordAttempt(r) \/ RevokeSession(r) \/ CheckSession(r)

AccountsNext ==
  \/ \E r \in Requests : ServeRequest(r)
  \/ Tick
  \/ \E e \in Emails : Lapse(e)
  \/ \E t \in Tokens : Expire(t)

AccountsSpec == AccountsInit /\ [][AccountsNext]_accountsVars

-----------------------------------------------------------------------------
\* The tables and the requests hold what they are declared to hold.
AccountsTypeOK ==
  /\ users \in [Emails -> Roles \cup {"none"}]
  /\ workspaces \subseteq Emails /\ members \subseteq workspaces
  /\ attempts \in [Emails -> Nat]
  /\ sessions \in [Tokens -> {"none", "live", "revoked", "expired"}]
  /\ clock \in 0 .. MaxClock
  /\ settings \in [selfRegistration : BOOLEAN, bodyTokens : BOOLEAN]
  /\ requests \in [Requests -> Request]
  /\ ended \subseteq Logouts
  /\ widest \in [Emails -> Nat]

\* Only who asks before anybody has an account registers as the first user: a
\* registration that arrives later never takes the administrator's role, and is refused
\* unless self-registration is on (registerUser counts the users long before it inserts).
LateComersAreUsers ==
  \A r \in Requests :
    LET q == requests[r] IN
    q.op = "register" /\ q.late
      => /\ ~q.first
         /\ q.at \in {"create", "select", "workspace", "member", "session", "done"}
              => settings.selfRegistration

\* Guesses sent at once are counted before any of them is recorded, and that is all
\* that gets past the limit: the failed logins of an e-mail stay below the limit plus
\* the most logins the throttle has let through side by side.
ThrottleHolds ==
  \A e \in Emails : attempts[e] + Cardinality(Admitted(e)) < FailLimit + widest[e]

\* A logout that was answered and whose cookie named its session ends that session: no
\* request that arrives after it is served under that token, whatever cookie and header it
\* combines. Two cases are excepted, in which the code serves it still: a logout that
\* named the session by bearer revoked nothing (the route looks at the cookie only), and
\* beside a cookie that is there and empty nobody looks at the row of a bearer.
LogoutEnds ==
  [][\A r \in Requests :
       At(r, "check") /\ requests'[r].at = "select" /\ requests[r].cookie # Empty
         => [session |-> Identity(requests[r]), by |-> "cookie"] \notin requests[r].after]_accountsVars

=============================================================================
