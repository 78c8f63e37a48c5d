----------------------------- MODULE AuthSessions -----------------------------
(***************************************************************************)
(* services/auth: accounts and refresh-token sessions.                     *)
(*                                                                         *)
(* Every HTTP request is a process.  Node runs a handler up to its next    *)
(* await, so one action is the code between two awaits together with the   *)
(* single SQL statement the await performs; handlers of one or of several  *)
(* replicas interleave between those actions.  A refresh token stands for  *)
(* its own SHA-256 hash (hashRefreshToken is deterministic and collision   *)
(* free), so the sessions table is keyed by token.                         *)
(***************************************************************************)
EXTENDS Naturals, Tables

CONSTANTS
    Emails,      \* normalised e-mail addresses
    Passwords,   \* passwords; a bcrypt hash verifies against exactly one
    UserIds,     \* uuids PostgreSQL may generate for users.id
    Tokens,      \* refresh-token strings; the random jti makes each unique
    Requests,    \* the HTTP requests of a behaviour, each served once
    TTL,         \* lifetime of a refresh token, in ticks
    MaxTime,     \* bound on the clock
    NULL         \* no value; also a token this service never signed

ASSUME TTLAssumption == TTL \in Nat \ {0} /\ MaxTime \in Nat
ASSUME NullAssumption == NULL \notin Emails \cup Passwords \cup UserIds \cup Tokens

VARIABLES
    now,         \* wall clock (Date.now, and jsonwebtoken's clock)
    users,       \* table users: id -> [email, password]
    usedIds,     \* every id ever generated, deleted users included
    issued,      \* JWT claims of every refresh token signed: token -> [sub, exp]
    sessions,    \* table sessions: token hash -> [userId, expiresAt, revoked]
    request,     \* what each client sent
    work,        \* the locals of each handler: the user found, the token minted
    pc           \* where each handler is, or the reply it gave

vars == <<now, users, usedIds, issued, sessions, request, work, pc>>

database == <<users, usedIds, sessions>>

-------------------------------------------------------------------------------

UserRow    == [email : Emails, password : Passwords]
Claims     == [sub : UserIds, exp : Nat]
SessionRow == [userId : UserIds, expiresAt : Nat, revoked : BOOLEAN]

\* The replies: 2xx; 409; 401; 500; and no reply at all, the connection lost.
Replies == {"ok", "conflict", "denied", "error", "lost"}

Phases  == {"signupFind", "signupCreate", "loginFind", "refreshFind", "refreshUser",
            "refreshRevoke", "issue", "insert", "logoutFind", "logoutRevoke"}

\* "dead" is a history field: whether the token sent was already spent, expired or
\* orphaned when the request arrived.
Request == [op : {"none", "signup", "login", "refresh", "logout"},
            email : Emails \cup {NULL}, password : Passwords \cup {NULL},
            token : Tokens \cup {NULL}, dead : BOOLEAN]

Work == [user : UserIds \cup {NULL}, minted : Tokens \cup {NULL}]

TypeOK ==
    /\ now \in Nat
    /\ IsTable(users, UserIds, UserRow)
    /\ usedIds \in SUBSET UserIds
    /\ IsTable(issued, Tokens, Claims)
    /\ IsTable(sessions, Tokens, SessionRow)
    /\ request \in [Requests -> Request]
    /\ work \in [Requests -> Work]
    /\ pc \in [Requests -> {"idle"} \cup Phases \cup Replies]

Init ==
    /\ now = 0
    /\ users = EmptyTable
    /\ usedIds = {}
    /\ issued = EmptyTable
    /\ sessions = EmptyTable
    /\ request = [r \in Requests |-> [op |-> "none", email |-> NULL, password |-> NULL,
                                      token |-> NULL, dead |-> FALSE]]
    /\ work = [r \in Requests |-> [user |-> NULL, minted |-> NULL]]
    /\ pc = [r \in Requests |-> "idle"]

-------------------------------------------------------------------------------
(* What the handlers read. *)

\* findByEmail, and the unique index users_email_unique.
EmailTaken(e) == \E u \in DOMAIN users : users[u].email = e

UniqueViolation_NoIndex(e) == FALSE
UniqueViolation(e) == EmailTaken(e)

\* signRefreshToken puts a random jti in the payload, so no string is signed twice.
\* Without it two tokens of one user signed in one tick are the same string.
FreshTokens(u) == Tokens \ DOMAIN issued

\* verifyRefreshToken: signed by this service, and exp not reached.
Verifies(t) == t \in DOMAIN issued /\ now < issued[t].exp

\* refresh()'s collapsed check on the session row it read.
SessionUsable_IgnoresRevocation(t) ==
    /\ t \in DOMAIN sessions
    /\ now < sessions[t].expiresAt
    /\ sessions[t].userId = issued[t].sub
SessionUsable(t) ==
    /\ t \in DOMAIN sessions
    /\ ~ sessions[t].revoked
    /\ now < sessions[t].expiresAt
    /\ sessions[t].userId = issued[t].sub

RevokedRow_Toggle(row) == [row EXCEPT !.revoked = ~ @]
RevokedRow(row) == [row EXCEPT !.revoked = TRUE]

\* DrizzleSessionRepository.revoke: an UPDATE by key, of no row when there is none,
\* and with no condition on revoked_at.
Revoke(t) == sessions' = IF t \in DOMAIN sessions
                         THEN Put(sessions, t, RevokedRow(sessions[t]))
                         ELSE sessions

\* The tokens clients hold: those of the replies that were delivered.
Delivered == {work[r].minted : r \in {q \in Requests : pc[q] = "ok"}} \ {NULL}

\* Whether t was answered for, out of time or orphaned by now (history only).
SpentBy(q, t) == pc[q] = "ok" /\ request[q].op \in {"refresh", "logout"} /\ request[q].token = t
Dead(t) ==
    \/ t \notin DOMAIN issued
    \/ issued[t].exp <= now
    \/ issued[t].sub \notin DOMAIN users
    \/ \E q \in Requests : SpentBy(q, t)

Goto(r, where) == pc' = [pc EXCEPT ![r] = where]

-------------------------------------------------------------------------------
(* Requests arrive: body validation has passed (app.ts), and the code up to   *)
(* the first await runs.                                                      *)

ArriveWithCredentials(r, op, first, e, p) ==
    /\ pc[r] = "idle"
    /\ request' = [request EXCEPT ![r] = [op |-> op, email |-> e, password |-> p,
                                          token |-> NULL, dead |-> FALSE]]
    /\ Goto(r, first)
    /\ UNCHANGED <<now, database, issued, work>>

ArriveWithToken(r, op, first, t) ==
    /\ pc[r] = "idle"
    /\ request' = [request EXCEPT ![r] = [op |-> op, email |-> NULL, password |-> NULL,
                                          token |-> t, dead |-> Dead(t)]]
    /\ Goto(r, IF Verifies(t) THEN first ELSE "denied")
    /\ UNCHANGED <<now, database, issued, work>>

SignupArrives(r)  == \E e \in Emails, p \in Passwords :
                        ArriveWithCredentials(r, "signup", "signupFind", e, p)
LoginArrives(r)   == \E e \in Emails, p \in Passwords :
                        ArriveWithCredentials(r, "login", "loginFind", e, p)
RefreshArrives(r) == \E t \in Delivered \cup {NULL} :
                        ArriveWithToken(r, "refresh", "refreshFind", t)
LogoutArrives(r)  == \E t \in Delivered \cup {NULL} :
                        ArriveWithToken(r, "logout", "logoutFind", t)

-------------------------------------------------------------------------------
(* signup *)

\* await userRepo.findByEmail: EmailInUseError when there is one.
SignupFind(r) ==
    /\ pc[r] = "signupFind"
    /\ Goto(r, IF EmailTaken(request[r].email) THEN "conflict" ELSE "signupCreate")
    /\ UNCHANGED <<now, database, issued, request, work>>

\* await userRepo.create: the insert, or the unique violation mapped to EmailInUseError.
SignupCreate(r) ==
    /\ pc[r] = "signupCreate"
    /\ \/ /\ UniqueViolation(request[r].email)
          /\ Goto(r, "conflict")
          /\ UNCHANGED <<users, usedIds, work>>
       \/ /\ ~ UniqueViolation(request[r].email)
          /\ \E u \in UserIds \ usedIds :
                /\ users' = Put(users, u, [email |-> request[r].email,
                                           password |-> request[r].password])
                /\ usedIds' = usedIds \cup {u}
                /\ work' = [work EXCEPT ![r].user = u]
          /\ Goto(r, "issue")
    /\ UNCHANGED <<now, sessions, issued, request>>

-------------------------------------------------------------------------------
(* login *)

\* await findByEmail, then verifyPassword: InvalidCredentialsError for either.
LoginFind(r) ==
    /\ pc[r] = "loginFind"
    /\ \/ \E u \in DOMAIN users :
             /\ users[u].email = request[r].email
             /\ users[u].password = request[r].password
             /\ work' = [work EXCEPT ![r].user = u]
             /\ Goto(r, "issue")
       \/ /\ \A u \in DOMAIN users :
                ~ (users[u].email = request[r].email /\ users[u].password = request[r].password)
          /\ Goto(r, "denied")
          /\ UNCHANGED work
    /\ UNCHANGED <<now, database, issued, request>>

-------------------------------------------------------------------------------
(* issueTokens, the tail of signup, login and refresh *)

\* Signs the token; expiresAt is read from the same clock before the next await.
Issue(r) ==
    /\ pc[r] = "issue"
    /\ \E t \in FreshTokens(work[r].user) :
          /\ issued' = Put(issued, t, [sub |-> work[r].user, exp |-> now + TTL])
          /\ work' = [work EXCEPT ![r].minted = t]
    /\ Goto(r, "insert")
    /\ UNCHANGED <<now, database, request>>

\* await sessionRepo.create: the foreign key and the unique index may reject the row.
InsertSession(r) ==
    LET u == work[r].user
        t == work[r].minted
    IN  /\ pc[r] = "insert"
        /\ IF u \in DOMAIN users /\ t \notin DOMAIN sessions
           THEN /\ sessions' = Put(sessions, t, [userId |-> u, expiresAt |-> issued[t].exp,
                                                 revoked |-> FALSE])
                /\ Goto(r, "ok")
           ELSE /\ UNCHANGED sessions
                /\ Goto(r, "error")
        /\ UNCHANGED <<now, users, usedIds, issued, request, work>>

-------------------------------------------------------------------------------
(* refresh *)

\* await findByRefreshTokenHash, then the collapsed check.
RefreshFind(r) ==
    LET t == request[r].token
    IN  /\ pc[r] = "refreshFind"
        /\ IF SessionUsable(t)
           THEN /\ work' = [work EXCEPT ![r].user = sessions[t].userId]
                /\ Goto(r, "refreshUser")
           ELSE /\ UNCHANGED work
                /\ Goto(r, "denied")
        /\ UNCHANGED <<now, database, issued, request>>

\* await userRepo.findById(session.userId).
RefreshUser(r) ==
    /\ pc[r] = "refreshUser"
    /\ Goto(r, IF work[r].user \in DOMAIN users THEN "refreshRevoke" ELSE "denied")
    /\ UNCHANGED <<now, database, issued, request, work>>

\* await sessionRepo.revoke(session.id), whatever happened to the row since it was read.
RefreshRevoke(r) ==
    /\ pc[r] = "refreshRevoke"
    /\ Revoke(request[r].token)
    /\ Goto(r, "issue")
    /\ UNCHANGED <<now, users, usedIds, issued, request, work>>

-------------------------------------------------------------------------------
(* logout *)

\* await findByRefreshTokenHash; no session, or a revoked one, is already logged out.
LogoutFind(r) ==
    LET t == request[r].token
    IN  /\ pc[r] = "logoutFind"
        /\ Goto(r, IF t \in DOMAIN sessions /\ ~ sessions[t].revoked
                   THEN "logoutRevoke" ELSE "ok")
        /\ UNCHANGED <<now, database, issued, request, work>>

LogoutRevoke(r) ==
    /\ pc[r] = "logoutRevoke"
    /\ Revoke(request[r].token)
    /\ Goto(r, "ok")
    /\ UNCHANGED <<now, users, usedIds, issued, request, work>>

-------------------------------------------------------------------------------
(* The environment *)

\* The connection drops, a query fails, or the process dies, between two awaits:
\* what the handler has written so far stays.
Abort(r) ==
    /\ pc[r] \in Phases
    /\ Goto(r, "lost")
    /\ UNCHANGED <<now, database, issued, request, work>>

Tick ==
    /\ now < MaxTime
    /\ now' = now + 1
    /\ UNCHANGED <<database, issued, request, work, pc>>

\* An operator deletes an account; sessions.user_id is ON DELETE CASCADE.
Owned(u) == {t \in DOMAIN sessions : sessions[t].userId = u}

DeleteUser(u) ==
    /\ u \in DOMAIN users
    /\ users' = Drop(users, {u})
    /\ sessions' = Drop(sessions, Owned(u))
    /\ UNCHANGED <<now, usedIds, issued, request, work, pc>>

-------------------------------------------------------------------------------

Arrival(r) == SignupArrives(r) \/ LoginArrives(r) \/ RefreshArrives(r) \/ LogoutArrives(r)

Step(r) ==
    \/ SignupFind(r) \/ SignupCreate(r)
    \/ LoginFind(r)
    \/ Issue(r) \/ InsertSession(r)
    \/ RefreshFind(r) \/ RefreshUser(r) \/ RefreshRevoke(r)
    \/ LogoutFind(r) \/ LogoutRevoke(r)

Next ==
    \/ \E r \in Requests : Arrival(r) \/ Step(r) \/ Abort(r)
    \/ Tick
    \/ \E u \in UserIds : DeleteUser(u)

Spec == Init /\ [][Next]_vars

-------------------------------------------------------------------------------
(* Correctness *)

\* Two signups for one address are never both accepted while both accounts exist: the
\* pre-check of signup() races, the unique index decides (repository.ts, create).
OneAccountPerEmail ==
    \A q, r \in Requests :
        /\ q # r
        /\ request[q].op = "signup" /\ request[r].op = "signup"
        /\ request[q].email = request[r].email
        /\ pc[q] = "ok" /\ pc[r] = "ok"
        => ~ {work[q].user, work[r].user} \subseteq DOMAIN users

\* No interleaving ends in a 500 unless the account was deleted under the request: lost
\* races are mapped to 409, and the jti keeps two sessions from sharing a token hash.
NoUnexplainedError ==
    \A r \in Requests : pc[r] = "error" => work[r].user \notin DOMAIN users

\* The session a refresh creates never lives beside the one it replaces: the presented
\* session is revoked, or gone with its account, before the new token is even signed.
RevokedBeforeReissue ==
    \A r \in Requests :
        request[r].op = "refresh" /\ work[r].minted # NULL =>
            LET t == request[r].token IN t \in DOMAIN sessions => sessions[t].revoked

\* A token that was spent, expired or orphaned when a refresh arrived never gets that
\* refresh a new session, whatever else is in flight (SessionInvalidError).
DeadTokensStayDead ==
    \A r \in Requests :
        request[r].op = "refresh" /\ request[r].dead => work[r].minted = NULL

\* Every session row is for an existing account and is the one its JWT names, so the
\* defensive test session.userId !== claims.sub never rejects a request.
SessionsMatchClaims ==
    \A t \in DOMAIN sessions :
        /\ sessions[t].userId \in DOMAIN users
        /\ t \in DOMAIN issued
        /\ sessions[t].userId = issued[t].sub
        /\ sessions[t].expiresAt = issued[t].exp

-------------------------------------------------------------------------------
(* Refinement: the tables, seen as one status per token.                       *)

\* Tokens signed by a handler that has not yet inserted their session.
Pending == {work[r].minted : r \in {q \in Requests : pc[q] = "insert"}}

Live == {t \in DOMAIN sessions : ~ sessions[t].revoked}

Settled == DOMAIN issued \ Pending

tokenStatus == [t \in Tokens |-> IF t \in Live THEN "live"
                                 ELSE IF t \in Settled THEN "dead"
                                 ELSE "fresh"]

Lifecycle == INSTANCE TokenLifecycle WITH status <- tokenStatus

\* The sessions table implements the token lifecycle: revocation is for ever, across
\* races of refresh with refresh and logout, and no token opens a session twice.
ImplementsLifecycle == Lifecycle!Spec

-------------------------------------------------------------------------------
(* The inductive invariant.                                                    *)

\* Ids are never reused, and the unique index holds.
AccountsOK ==
    /\ DOMAIN users \subseteq usedIds
    /\ \A u, v \in DOMAIN users : users[u].email = users[v].email => u = v

\* Which locals a handler has set, by where it is.
LocalsOK ==
    \A r \in Requests :
        /\ request[r].op = "none" <=> pc[r] = "idle"
        /\ request[r].op \in {"signup", "login"} =>
               request[r].email \in Emails /\ request[r].password \in Passwords
        /\ pc[r] \in {"refreshUser", "refreshRevoke", "issue", "insert"} =>
               work[r].user \in usedIds
        /\ work[r].user # NULL => work[r].user \in usedIds
        /\ work[r].minted # NULL =>
               /\ pc[r] \in {"insert", "ok", "error", "lost"}
               /\ request[r].op # "logout"
               /\ work[r].minted \in DOMAIN issued
               /\ issued[work[r].minted].sub = work[r].user
        /\ pc[r] = "insert" => work[r].minted # NULL
        /\ pc[r] = "error" => work[r].user \in usedIds \ DOMAIN users
        /\ pc[r] = "ok" /\ request[r].op # "logout" => work[r].minted # NULL
        /\ pc[r] \in {"refreshFind", "refreshUser", "refreshRevoke"} => request[r].op = "refresh"
        /\ pc[r] \in {"logoutFind", "logoutRevoke"} => request[r].op = "logout"
        /\ pc[r] \in {"issue", "insert"} => request[r].op # "logout"
        /\ pc[r] \in {"signupFind", "signupCreate"} => request[r].op = "signup"
        /\ pc[r] \in {"idle", "signupFind", "signupCreate"} => work[r].user = NULL
        /\ pc[r] = "loginFind" => request[r].op = "login"

\* No two handlers minted one token, none created by two signups is one account.
DistinctWork ==
    \A q, r \in Requests : q # r =>
        /\ work[q].minted # NULL => work[q].minted # work[r].minted
        /\ request[q].op = "signup" /\ request[r].op = "signup" /\ work[q].user # NULL =>
               work[q].user # work[r].user

\* A signup's account is the one it asked for.
SignupsOK ==
    \A r \in Requests :
        request[r].op = "signup" /\ work[r].user \in DOMAIN users =>
            users[work[r].user].email = request[r].email

\* A pending token has no session yet.
PendingOK ==
    \A r \in Requests : pc[r] = "insert" => work[r].minted \notin DOMAIN sessions

\* Clients present only tokens some reply delivered; a token whose refresh has revoked
\* it, or whose logout succeeded, has no live session.
PresentedOK ==
    \A r \in Requests :
        LET t == request[r].token
        IN  /\ t # NULL => t \in Delivered
            /\ pc[r] \in {"refreshFind", "refreshUser", "refreshRevoke",
                          "logoutFind", "logoutRevoke"} => t # NULL
            /\ request[r].op = "refresh" /\ pc[r] \in {"issue", "insert", "ok"} =>
                   t # NULL /\ t \notin Live
            /\ request[r].op = "refresh" /\ work[r].minted # NULL => t # NULL /\ t \notin Live
            /\ request[r].op = "logout" /\ pc[r] = "ok" => t # NULL /\ t \notin Live

\* A dead token gets no further than the lookup, which will reject it.
DeadOK ==
    \A r \in Requests :
        request[r].op = "refresh" /\ request[r].dead =>
            /\ pc[r] \in {"refreshFind", "denied", "lost"}
            /\ work[r].minted = NULL
            /\ pc[r] = "refreshFind" => request[r].token \notin Live

SessionInv ==
    /\ TypeOK
    /\ AccountsOK
    /\ LocalsOK
    /\ DistinctWork
    /\ SignupsOK
    /\ PendingOK
    /\ SessionsMatchClaims
    /\ PresentedOK
    /\ DeadOK

\* All of it: what clients may observe, with the conjunction it follows from.
SessionSafety ==
    /\ SessionInv
    /\ OneAccountPerEmail
    /\ NoUnexplainedError
    /\ RevokedBeforeReissue

===============================================================================
