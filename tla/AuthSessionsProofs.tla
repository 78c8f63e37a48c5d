-------------------------- MODULE AuthSessionsProofs --------------------------
(***************************************************************************)
(* Proofs about AuthSessions for any number of requests, tokens, accounts  *)
(* and any lifetime: the inductive invariant SessionInv, the safety        *)
(* properties the runs check, and the refinement of TokenLifecycle.        *)
(***************************************************************************)
EXTENDS AuthSessions, DataLemmas

-------------------------------------------------------------------------------
(* Facts used by several steps.                                                *)

\* A token a client holds was minted by a request that is answered.
LEMMA DeliveredMinter ==
    ASSUME NEW t \in Delivered
    PROVE  t # NULL /\ \E q \in Requests : pc[q] = "ok" /\ work[q].minted = t
  BY DEF Delivered

\* A token whose session a handler is about to insert has been presented by nobody.
LEMMA PendingNotPresented ==
    ASSUME SessionInv, NEW r \in Requests, pc[r] = "insert", NEW q \in Requests,
           request[q].token # NULL
    PROVE  request[q].token # work[r].minted
  <1>1. request[q].token \in Delivered
    BY DEF SessionInv, PresentedOK
  <1>2. PICK p \in Requests : pc[p] = "ok" /\ work[p].minted = request[q].token
    BY <1>1, DeliveredMinter
  <1>3. p # r
    BY <1>2
  <1> QED
    BY <1>2, <1>3 DEF SessionInv, DistinctWork

\* Revoking a session changes no row but its own and ends its life.
LEMMA RevokeEffect ==
    ASSUME SessionInv, NEW t \in Tokens, Revoke(t)
    PROVE  /\ DOMAIN sessions' = DOMAIN sessions
           /\ IsTable(sessions', Tokens, SessionRow)
           /\ \A x \in DOMAIN sessions :
                 /\ sessions'[x].userId = sessions[x].userId
                 /\ sessions'[x].expiresAt = sessions[x].expiresAt
           /\ Live' = Live \ {t}
  <1>1. CASE t \in DOMAIN sessions
    <2>1. sessions[t] \in SessionRow
      BY <1>1 DEF SessionInv, TypeOK, IsTable
    <2>2. RevokedRow(sessions[t]) \in SessionRow
      BY <2>1 DEF RevokedRow, SessionRow
    <2>3. sessions' = Put(sessions, t, RevokedRow(sessions[t]))
      BY <1>1 DEF Revoke
    <2>4. IsTable(sessions', Tokens, SessionRow)
      BY <2>2, <2>3, PutType DEF SessionInv, TypeOK
    <2>5. /\ DOMAIN sessions' = DOMAIN sessions
          /\ sessions'[t] = RevokedRow(sessions[t])
          /\ \A x \in DOMAIN sessions : x # t => sessions'[x] = sessions[x]
      BY <1>1, <2>3 DEF Put
    <2>6. /\ RevokedRow(sessions[t]).userId = sessions[t].userId
          /\ RevokedRow(sessions[t]).expiresAt = sessions[t].expiresAt
          /\ RevokedRow(sessions[t]).revoked = TRUE
      BY <2>1 DEF RevokedRow, SessionRow
    <2> QED
      BY <2>4, <2>5, <2>6 DEF Live
  <1>2. CASE t \notin DOMAIN sessions
    <2>1. sessions' = sessions
      BY <1>2 DEF Revoke
    <2> QED
      BY <1>2, <2>1 DEF SessionInv, TypeOK, Live
  <1> QED
    BY <1>1, <1>2

-------------------------------------------------------------------------------
(* Every action preserves the invariant.                                       *)

\* SessionInv survives the arrival of a signup.
LEMMA SignupArrivesInv ==
    ASSUME SessionInv, NEW r \in Requests, SignupArrives(r)
    PROVE  SessionInv'
  <1>1. PICK e \in Emails, p \in Passwords :
              ArriveWithCredentials(r, "signup", "signupFind", e, p)
    BY DEF SignupArrives
  <1>2. /\ pc[r] = "idle"
        /\ work[r].user = NULL /\ work[r].minted = NULL
        /\ request' = [request EXCEPT ![r] = [op |-> "signup", email |-> e, password |-> p,
                                              token |-> NULL, dead |-> FALSE]]
        /\ pc' = [pc EXCEPT ![r] = "signupFind"]
        /\ UNCHANGED <<now, users, usedIds, sessions, issued, work>>
    BY <1>1 DEF ArriveWithCredentials, Goto, database, SessionInv, LocalsOK
  <1> USE <1>2, NullAssumption DEF SessionInv, TypeOK
  <1>3. TypeOK'
    BY DEF Request, Phases
  <1>4. AccountsOK' /\ SessionsMatchClaims' /\ PendingOK'
    BY DEF AccountsOK, SessionsMatchClaims, PendingOK
  <1>5. LocalsOK'
    BY DEF LocalsOK
  <1>6. DistinctWork'
    BY DEF DistinctWork
  <1>7. SignupsOK'
    <2>1. NULL \notin DOMAIN users
      BY DEF IsTable
    <2> QED
      BY <2>1 DEF SignupsOK
  <1>8. PresentedOK'
    <2>1. Delivered \subseteq Delivered' /\ Live' = Live
      BY DEF Delivered, Live
    <2> QED
      BY <2>1 DEF PresentedOK
  <1>9. DeadOK'
    BY DEF DeadOK, Live
  <1> QED
    BY <1>3, <1>4, <1>5, <1>6, <1>7, <1>8, <1>9

\* SessionInv survives the arrival of a login.
LEMMA LoginArrivesInv ==
    ASSUME SessionInv, NEW r \in Requests, LoginArrives(r)
    PROVE  SessionInv'
  <1>1. PICK e \in Emails, p \in Passwords :
              ArriveWithCredentials(r, "login", "loginFind", e, p)
    BY DEF LoginArrives
  <1>2. /\ pc[r] = "idle"
        /\ work[r].user = NULL /\ work[r].minted = NULL
        /\ request' = [request EXCEPT ![r] = [op |-> "login", email |-> e, password |-> p,
                                              token |-> NULL, dead |-> FALSE]]
        /\ pc' = [pc EXCEPT ![r] = "loginFind"]
        /\ UNCHANGED <<now, users, usedIds, sessions, issued, work>>
    BY <1>1 DEF ArriveWithCredentials, Goto, database, SessionInv, LocalsOK
  <1> USE <1>2, NullAssumption DEF SessionInv, TypeOK
  <1>3. TypeOK'
    BY DEF Request, Phases
  <1>4. AccountsOK' /\ SessionsMatchClaims' /\ PendingOK'
    BY DEF AccountsOK, SessionsMatchClaims, PendingOK
  <1>5. LocalsOK'
    BY DEF LocalsOK
  <1>6. DistinctWork'
    BY DEF DistinctWork
  <1>7. SignupsOK'
    <2>1. NULL \notin DOMAIN users
      BY DEF IsTable
    <2> QED
      BY <2>1 DEF SignupsOK
  <1>8. PresentedOK'
    <2>1. Delivered \subseteq Delivered' /\ Live' = Live
      BY DEF Delivered, Live
    <2> QED
      BY <2>1 DEF PresentedOK
  <1>9. DeadOK'
    BY DEF DeadOK, Live
  <1> QED
    BY <1>3, <1>4, <1>5, <1>6, <1>7, <1>8, <1>9

\* SessionInv survives the arrival of a refresh.
LEMMA RefreshArrivesInv ==
    ASSUME SessionInv, NEW r \in Requests, RefreshArrives(r)
    PROVE  SessionInv'
  <1>1. PICK t \in Delivered \cup {NULL} : ArriveWithToken(r, "refresh", "refreshFind", t)
    BY DEF RefreshArrives
  <1>2. /\ pc[r] = "idle"
        /\ work[r].user = NULL /\ work[r].minted = NULL
        /\ request' = [request EXCEPT ![r] = [op |-> "refresh", email |-> NULL, password |-> NULL,
                                              token |-> t, dead |-> Dead(t)]]
        /\ pc' = [pc EXCEPT ![r] = IF Verifies(t) THEN "refreshFind" ELSE "denied"]
        /\ UNCHANGED <<now, users, usedIds, sessions, issued, work>>
    BY <1>1 DEF ArriveWithToken, Goto, database, SessionInv, LocalsOK
  <1>3. /\ t \in Tokens \cup {NULL} /\ Dead(t) \in BOOLEAN
        /\ t # NULL => t \in Delivered
    BY DEF Delivered, Dead, SessionInv, TypeOK, Work
  <1>4. Verifies(t) => t \in Tokens /\ t \in DOMAIN issued /\ now < issued[t].exp /\ t # NULL
    BY NullAssumption DEF Verifies, SessionInv, TypeOK, IsTable
  <1>5. Delivered \subseteq Delivered' /\ Live' = Live
    BY <1>2 DEF Delivered, Live, SessionInv, TypeOK
  <1> USE <1>2, NullAssumption DEF SessionInv, TypeOK
  <1>6. TypeOK'
    BY <1>3 DEF Request, Phases, Replies
  <1>7. AccountsOK' /\ SessionsMatchClaims' /\ PendingOK' /\ DistinctWork'
    BY DEF AccountsOK, SessionsMatchClaims, PendingOK, DistinctWork
  <1>8. LocalsOK'
    BY DEF LocalsOK
  <1>9. SignupsOK'
    BY DEF SignupsOK
  <1>10. PresentedOK'
    BY <1>3, <1>4, <1>5 DEF PresentedOK
  <1>11. DeadOK'
    <2>1. ASSUME Dead(t), Verifies(t) PROVE t \notin Live
      <3>1. CASE issued[t].sub \notin DOMAIN users
        BY <3>1 DEF SessionsMatchClaims, Live
      <3>2. CASE \E q \in Requests : SpentBy(q, t)
        BY <3>2, <1>4, <2>1 DEF SpentBy, PresentedOK
      <3>3. ~ (issued[t].exp <= now)
        BY <2>1, <1>4 DEF IsTable, Claims
      <3> QED
        BY <2>1, <1>4, <3>1, <3>2, <3>3 DEF Dead
    <2> QED
      BY <1>5, <2>1 DEF DeadOK
  <1> QED
    BY <1>6, <1>7, <1>8, <1>9, <1>10, <1>11

\* SessionInv survives the arrival of a logout.
LEMMA LogoutArrivesInv ==
    ASSUME SessionInv, NEW r \in Requests, LogoutArrives(r)
    PROVE  SessionInv'
  <1>1. PICK t \in Delivered \cup {NULL} : ArriveWithToken(r, "logout", "logoutFind", t)
    BY DEF LogoutArrives
  <1>2. /\ pc[r] = "idle"
        /\ work[r].user = NULL /\ work[r].minted = NULL
        /\ request' = [request EXCEPT ![r] = [op |-> "logout", email |-> NULL, password |-> NULL,
                                              token |-> t, dead |-> Dead(t)]]
        /\ pc' = [pc EXCEPT ![r] = IF Verifies(t) THEN "logoutFind" ELSE "denied"]
        /\ UNCHANGED <<now, users, usedIds, sessions, issued, work>>
    BY <1>1 DEF ArriveWithToken, Goto, database, SessionInv, LocalsOK
  <1>3. /\ t \in Tokens \cup {NULL} /\ Dead(t) \in BOOLEAN
        /\ t # NULL => t \in Delivered
    BY DEF Delivered, Dead, SessionInv, TypeOK, Work
  <1>4. Verifies(t) => t \in Tokens /\ t \in DOMAIN issued /\ now < issued[t].exp /\ t # NULL
    BY NullAssumption DEF Verifies, SessionInv, TypeOK, IsTable
  <1>5. Delivered \subseteq Delivered' /\ Live' = Live
    BY <1>2 DEF Delivered, Live, SessionInv, TypeOK
  <1> USE <1>2, NullAssumption DEF SessionInv, TypeOK
  <1>6. TypeOK'
    BY <1>3 DEF Request, Phases, Replies
  <1>7. AccountsOK' /\ SessionsMatchClaims' /\ PendingOK' /\ DistinctWork'
    BY DEF AccountsOK, SessionsMatchClaims, PendingOK, DistinctWork
  <1>8. LocalsOK'
    BY DEF LocalsOK
  <1>9. SignupsOK'
    BY DEF SignupsOK
  <1>10. PresentedOK'
    BY <1>3, <1>4, <1>5 DEF PresentedOK
  <1>11. DeadOK'
    <2>1. ASSUME Dead(t), Verifies(t) PROVE t \notin Live
      <3>1. CASE issued[t].sub \notin DOMAIN users
        BY <3>1 DEF SessionsMatchClaims, Live
      <3>2. CASE \E q \in Requests : SpentBy(q, t)
        BY <3>2, <1>4, <2>1 DEF SpentBy, PresentedOK
      <3>3. ~ (issued[t].exp <= now)
        BY <2>1, <1>4 DEF IsTable, Claims
      <3> QED
        BY <2>1, <1>4, <3>1, <3>2, <3>3 DEF Dead
    <2> QED
      BY <1>5, <2>1 DEF DeadOK
  <1> QED
    BY <1>6, <1>7, <1>8, <1>9, <1>10, <1>11

\* SessionInv survives the pre-check of signup.
LEMMA SignupFindInv ==
    ASSUME SessionInv, NEW r \in Requests, SignupFind(r)
    PROVE  SessionInv'
  <1> USE DEF SessionInv, TypeOK, SignupFind, Goto, database
  <1>1. TypeOK'
    BY DEF Phases, Replies
  <1>2. AccountsOK' /\ SignupsOK' /\ DistinctWork' /\ SessionsMatchClaims'
    BY DEF AccountsOK, SignupsOK, DistinctWork, SessionsMatchClaims
  <1>3. LocalsOK'
    BY DEF LocalsOK, Phases
  <1>4. PendingOK'
    BY DEF PendingOK, LocalsOK
  <1>5. PresentedOK'
    <2>1. Delivered \subseteq Delivered' /\ Live' = Live
      BY DEF Delivered, Live, Phases
    <2> QED
      BY <2>1 DEF PresentedOK, LocalsOK, Phases, Live
  <1>6. DeadOK'
    BY DEF DeadOK, Live, LocalsOK
  <1> QED
    BY <1>1, <1>2, <1>3, <1>4, <1>5, <1>6

\* SessionInv survives the account lookup of refresh.
LEMMA RefreshUserInv ==
    ASSUME SessionInv, NEW r \in Requests, RefreshUser(r)
    PROVE  SessionInv'
  <1> USE DEF SessionInv, TypeOK, RefreshUser, Goto, database
  <1>1. TypeOK'
    BY DEF Phases, Replies
  <1>2. AccountsOK' /\ SignupsOK' /\ DistinctWork' /\ SessionsMatchClaims'
    BY DEF AccountsOK, SignupsOK, DistinctWork, SessionsMatchClaims
  <1>3. LocalsOK'
    BY DEF LocalsOK, Phases
  <1>4. PendingOK'
    BY DEF PendingOK, LocalsOK
  <1>5. PresentedOK'
    <2>1. Delivered \subseteq Delivered' /\ Live' = Live
      BY DEF Delivered, Live, Phases
    <2> QED
      BY <2>1 DEF PresentedOK, LocalsOK, Phases, Live
  <1>6. DeadOK'
    BY DEF DeadOK, Live, LocalsOK
  <1> QED
    BY <1>1, <1>2, <1>3, <1>4, <1>5, <1>6

\* SessionInv survives the lookup of logout.
LEMMA LogoutFindInv ==
    ASSUME SessionInv, NEW r \in Requests, LogoutFind(r)
    PROVE  SessionInv'
  <1> USE DEF SessionInv, TypeOK, LogoutFind, Goto, database
  <1>1. TypeOK'
    BY DEF Phases, Replies
  <1>2. AccountsOK' /\ SignupsOK' /\ DistinctWork' /\ SessionsMatchClaims'
    BY DEF AccountsOK, SignupsOK, DistinctWork, SessionsMatchClaims
  <1>3. LocalsOK'
    BY DEF LocalsOK, Phases
  <1>4. PendingOK'
    BY DEF PendingOK, LocalsOK
  <1>5. PresentedOK'
    <2>1. Delivered \subseteq Delivered' /\ Live' = Live
      BY DEF Delivered, Live, Phases
    <2> QED
      BY <2>1 DEF PresentedOK, LocalsOK, Phases, Live
  <1>6. DeadOK'
    BY DEF DeadOK, Live, LocalsOK
  <1> QED
    BY <1>1, <1>2, <1>3, <1>4, <1>5, <1>6

\* SessionInv survives a lost connection.
LEMMA AbortInv ==
    ASSUME SessionInv, NEW r \in Requests, Abort(r)
    PROVE  SessionInv'
  <1> USE DEF SessionInv, TypeOK, Abort, Goto, database
  <1>1. TypeOK'
    BY DEF Phases, Replies
  <1>2. AccountsOK' /\ SignupsOK' /\ DistinctWork' /\ SessionsMatchClaims'
    BY DEF AccountsOK, SignupsOK, DistinctWork, SessionsMatchClaims
  <1>3. LocalsOK'
    BY DEF LocalsOK, Phases
  <1>4. PendingOK'
    BY DEF PendingOK, LocalsOK
  <1>5. PresentedOK'
    <2>1. Delivered \subseteq Delivered' /\ Live' = Live
      BY DEF Delivered, Live, Phases
    <2> QED
      BY <2>1 DEF PresentedOK, LocalsOK, Phases, Live
  <1>6. DeadOK'
    BY DEF DeadOK, Live, LocalsOK
  <1> QED
    BY <1>1, <1>2, <1>3, <1>4, <1>5, <1>6

\* SessionInv survives the revocation of a refresh.
LEMMA RefreshRevokeInv ==
    ASSUME SessionInv, NEW r \in Requests, RefreshRevoke(r)
    PROVE  SessionInv'
  <1>1. /\ pc[r] = "refreshRevoke" /\ Revoke(request[r].token)
        /\ pc' = [pc EXCEPT ![r] = "issue"]
        /\ UNCHANGED <<now, users, usedIds, issued, request, work>>
    BY DEF RefreshRevoke, Goto
  <1>2. request[r].token \in Tokens
    BY <1>1 DEF SessionInv, TypeOK, Request, PresentedOK
  <1>3. /\ DOMAIN sessions' = DOMAIN sessions
        /\ IsTable(sessions', Tokens, SessionRow)
        /\ \A x \in DOMAIN sessions :
              /\ sessions'[x].userId = sessions[x].userId
              /\ sessions'[x].expiresAt = sessions[x].expiresAt
        /\ Live' = Live \ {request[r].token}
    BY <1>1, <1>2, RevokeEffect
  <1>4. request[r].token # NULL /\ work[r].minted = NULL
    BY <1>1 DEF SessionInv, PresentedOK, LocalsOK
  <1>5. Delivered \subseteq Delivered'
    BY <1>1 DEF SessionInv, TypeOK, Delivered
  <1> USE <1>1, <1>4 DEF SessionInv, TypeOK
  <1>6. TypeOK'
    BY <1>3 DEF Phases, Replies
  <1>7. AccountsOK' /\ SignupsOK' /\ DistinctWork'
    BY DEF AccountsOK, SignupsOK, DistinctWork
  <1>8. LocalsOK'
    BY DEF LocalsOK
  <1>9. PendingOK' /\ SessionsMatchClaims'
    BY <1>3 DEF PendingOK, SessionsMatchClaims
  <1>10. PresentedOK'
    BY <1>3, <1>5 DEF PresentedOK, LocalsOK
  <1>11. DeadOK'
    BY <1>3 DEF DeadOK, LocalsOK
  <1> QED
    BY <1>6, <1>7, <1>8, <1>9, <1>10, <1>11

\* SessionInv survives the revocation of a logout.
LEMMA LogoutRevokeInv ==
    ASSUME SessionInv, NEW r \in Requests, LogoutRevoke(r)
    PROVE  SessionInv'
  <1>1. /\ pc[r] = "logoutRevoke" /\ Revoke(request[r].token)
        /\ pc' = [pc EXCEPT ![r] = "ok"]
        /\ UNCHANGED <<now, users, usedIds, issued, request, work>>
    BY DEF LogoutRevoke, Goto
  <1>2. request[r].token \in Tokens
    BY <1>1 DEF SessionInv, TypeOK, Request, PresentedOK
  <1>3. /\ DOMAIN sessions' = DOMAIN sessions
        /\ IsTable(sessions', Tokens, SessionRow)
        /\ \A x \in DOMAIN sessions :
              /\ sessions'[x].userId = sessions[x].userId
              /\ sessions'[x].expiresAt = sessions[x].expiresAt
        /\ Live' = Live \ {request[r].token}
    BY <1>1, <1>2, RevokeEffect
  <1>4. request[r].token # NULL /\ work[r].minted = NULL
    BY <1>1 DEF SessionInv, PresentedOK, LocalsOK
  <1>5. Delivered \subseteq Delivered'
    BY <1>1 DEF SessionInv, TypeOK, Delivered
  <1> USE <1>1, <1>4 DEF SessionInv, TypeOK
  <1>6. TypeOK'
    BY <1>3 DEF Phases, Replies
  <1>7. AccountsOK' /\ SignupsOK' /\ DistinctWork'
    BY DEF AccountsOK, SignupsOK, DistinctWork
  <1>8. LocalsOK'
    BY DEF LocalsOK
  <1>9. PendingOK' /\ SessionsMatchClaims'
    BY <1>3 DEF PendingOK, SessionsMatchClaims
  <1>10. PresentedOK'
    BY <1>3, <1>5 DEF PresentedOK, LocalsOK
  <1>11. DeadOK'
    BY <1>3 DEF DeadOK, LocalsOK
  <1> QED
    BY <1>6, <1>7, <1>8, <1>9, <1>10, <1>11

\* SessionInv survives the insert of the account, or its loss to another signup.
LEMMA SignupCreateInv ==
    ASSUME SessionInv, NEW r \in Requests, SignupCreate(r)
    PROVE  SessionInv'
  <1>1. CASE UniqueViolation(request[r].email)
    <2>1. /\ pc[r] = "signupCreate" /\ pc' = [pc EXCEPT ![r] = "conflict"]
          /\ UNCHANGED <<now, users, usedIds, sessions, issued, request, work>>
      BY <1>1 DEF SignupCreate, Goto
    <2> USE <2>1 DEF SessionInv, TypeOK
    <2>2. TypeOK'
      BY DEF Phases, Replies
    <2>3. AccountsOK' /\ SignupsOK' /\ DistinctWork' /\ SessionsMatchClaims' /\ PendingOK'
      BY DEF AccountsOK, SignupsOK, DistinctWork, SessionsMatchClaims, PendingOK
    <2>4. LocalsOK'
      BY DEF LocalsOK
    <2>5. PresentedOK' /\ DeadOK'
      BY DEF PresentedOK, Delivered, Live, DeadOK, LocalsOK
    <2> QED
      BY <2>2, <2>3, <2>4, <2>5
  <1>2. CASE ~ UniqueViolation(request[r].email)
    <2> DEFINE row == [email |-> request[r].email, password |-> request[r].password]
    <2>1. PICK u \in UserIds \ usedIds : /\ users' = Put(users, u, row)
                                         /\ usedIds' = usedIds \cup {u}
                                         /\ work' = [work EXCEPT ![r].user = u]
      BY <1>2 DEF SignupCreate
    <2>2. /\ pc[r] = "signupCreate" /\ pc' = [pc EXCEPT ![r] = "issue"]
          /\ UNCHANGED <<now, sessions, issued, request>>
      BY <1>2 DEF SignupCreate, Goto
    <2>3. /\ request[r].op = "signup" /\ work[r].user = NULL /\ work[r].minted = NULL
          /\ row \in UserRow /\ row.email = request[r].email
      BY <2>2 DEF SessionInv, LocalsOK, UserRow
    <2>4. u \notin DOMAIN users /\ u # NULL /\ \A q \in Requests : work[q].user # u
      BY NullAssumption DEF SessionInv, AccountsOK, LocalsOK
    <2>5. /\ DOMAIN users' = DOMAIN users \cup {u}
          /\ users'[u] = row
          /\ \A x \in DOMAIN users : users'[x] = users[x]
      BY <2>1, <2>4 DEF Put
    <2>6. IsTable(users', UserIds, UserRow)
      BY <2>1, <2>3, PutType DEF SessionInv, TypeOK
    <2>7. /\ work' \in [Requests -> Work]
          /\ \A q \in Requests : /\ work'[q].minted = work[q].minted
                                 /\ work'[q].user = IF q = r THEN u ELSE work[q].user
      BY <2>1 DEF SessionInv, TypeOK, Work
    <2>8. TypeOK'
      BY <2>1, <2>2, <2>6, <2>7 DEF SessionInv, TypeOK, Phases
    <2>9. AccountsOK'
      <3>1. \A x \in DOMAIN users : users[x].email # row.email
        BY <1>2, <2>3 DEF UniqueViolation, EmailTaken
      <3>2. DOMAIN users' \subseteq usedIds'
        BY <2>1, <2>5 DEF SessionInv, AccountsOK
      <3>3. ASSUME NEW x \in DOMAIN users', NEW y \in DOMAIN users',
                   users'[x].email = users'[y].email
            PROVE  x = y
        BY <2>5, <3>1, <3>3 DEF SessionInv, AccountsOK
      <3> QED
        BY <3>2, <3>3 DEF AccountsOK
    <2>10. LocalsOK'
      BY <2>1, <2>2, <2>3, <2>5, <2>7, NullAssumption DEF SessionInv, TypeOK, LocalsOK
    <2>11. DistinctWork'
      BY <2>2, <2>4, <2>7 DEF SessionInv, DistinctWork
    <2>12. SignupsOK'
      <3>1. ASSUME NEW q \in Requests, request'[q].op = "signup",
                   work'[q].user \in DOMAIN users'
            PROVE  users'[work'[q].user].email = request'[q].email
        <4>1. CASE q = r
          BY <4>1, <2>2, <2>3, <2>5, <2>7
        <4>2. CASE q # r
          BY <4>2, <3>1, <2>2, <2>4, <2>5, <2>7 DEF SessionInv, SignupsOK
        <4> QED
          BY <4>1, <4>2
      <3> QED
        BY <3>1 DEF SignupsOK
    <2>13. PendingOK' /\ SessionsMatchClaims'
      BY <2>2, <2>5, <2>7 DEF SessionInv, TypeOK, PendingOK, SessionsMatchClaims
    <2>14. Delivered \subseteq Delivered' /\ Live' = Live
      BY <2>2, <2>7 DEF SessionInv, TypeOK, Delivered, Live
    <2>15. PresentedOK'
      BY <2>2, <2>3, <2>7, <2>14 DEF SessionInv, TypeOK, PresentedOK
    <2>16. DeadOK'
      BY <2>2, <2>3, <2>7, <2>14 DEF SessionInv, TypeOK, DeadOK
    <2> QED
      BY <2>8, <2>9, <2>10, <2>11, <2>12, <2>13, <2>15, <2>16 DEF SessionInv
  <1> QED
    BY <1>1, <1>2

\* SessionInv survives the lookup of login.
LEMMA LoginFindInv ==
    ASSUME SessionInv, NEW r \in Requests, LoginFind(r)
    PROVE  SessionInv'
  <1>1. pc[r] = "loginFind" /\ request[r].op = "login" /\ work[r].minted = NULL
    BY DEF LoginFind, SessionInv, LocalsOK
  <1>2. UNCHANGED <<now, users, usedIds, sessions, issued, request>>
    BY DEF LoginFind, database
  <1>3. PICK v \in UserIds \cup {NULL}, where \in {"issue", "denied"} :
           /\ v # NULL \/ where = "issue" => v \in usedIds
           /\ work' = [work EXCEPT ![r].user = v]
           /\ pc' = [pc EXCEPT ![r] = where]
    <2>1. CASE \E u \in DOMAIN users : work' = [work EXCEPT ![r].user = u] /\ Goto(r, "issue")
      BY <2>1 DEF Goto, SessionInv, AccountsOK, TypeOK
    <2>2. CASE Goto(r, "denied") /\ UNCHANGED work
      <3>1. work' = [work EXCEPT ![r].user = work[r].user]
        BY <2>2 DEF SessionInv, TypeOK, Work
      <3> QED
        BY <2>2, <3>1 DEF Goto, SessionInv, LocalsOK, TypeOK, Work
    <2> QED
      BY <2>1, <2>2 DEF LoginFind
  <1>4. /\ work' \in [Requests -> Work]
        /\ \A q \in Requests : /\ work'[q].minted = work[q].minted
                               /\ work'[q].user = IF q = r THEN v ELSE work[q].user
    BY <1>3 DEF SessionInv, TypeOK, Work
  <1>5. TypeOK'
    BY <1>2, <1>3, <1>4 DEF SessionInv, TypeOK, Phases, Replies
  <1>6. AccountsOK' /\ SessionsMatchClaims' /\ PendingOK'
    BY <1>1, <1>2, <1>3, <1>4 DEF SessionInv, TypeOK, AccountsOK, SessionsMatchClaims, PendingOK
  <1>7. LocalsOK'
    BY <1>1, <1>2, <1>3, <1>4 DEF SessionInv, TypeOK, LocalsOK
  <1>8. DistinctWork' /\ SignupsOK'
    BY <1>1, <1>2, <1>4 DEF SessionInv, DistinctWork, SignupsOK
  <1>9. PresentedOK' /\ DeadOK'
    BY <1>1, <1>2, <1>3, <1>4 DEF SessionInv, TypeOK, PresentedOK, Delivered, Live, DeadOK
  <1> QED
    BY <1>5, <1>6, <1>7, <1>8, <1>9 DEF SessionInv

\* SessionInv survives the lookup of refresh: a dead token is found unusable.
LEMMA RefreshFindInv ==
    ASSUME SessionInv, NEW r \in Requests, RefreshFind(r)
    PROVE  SessionInv'
  <1> DEFINE t == request[r].token
  <1>1. /\ pc[r] = "refreshFind" /\ request[r].op = "refresh" /\ work[r].minted = NULL
        /\ t # NULL
    BY DEF RefreshFind, SessionInv, LocalsOK, PresentedOK
  <1>2. UNCHANGED <<now, users, usedIds, sessions, issued, request>>
    BY DEF RefreshFind, database
  <1>3. SessionUsable(t) => t \in Live /\ sessions[t].userId \in usedIds
    BY DEF SessionUsable, Live, SessionInv, SessionsMatchClaims, AccountsOK
  <1>4. PICK v \in UserIds \cup {NULL}, where \in {"refreshUser", "denied"} :
           /\ v # NULL \/ where = "refreshUser" => v \in usedIds
           /\ where = "refreshUser" => t \in Live
           /\ work' = [work EXCEPT ![r].user = v]
           /\ pc' = [pc EXCEPT ![r] = where]
    <2>1. CASE SessionUsable(t)
      BY <2>1, <1>3 DEF RefreshFind, Goto, SessionInv, TypeOK
    <2>2. CASE ~ SessionUsable(t)
      <3>1. work' = [work EXCEPT ![r].user = work[r].user]
        BY <2>2 DEF RefreshFind, SessionInv, TypeOK, Work
      <3> QED
        BY <2>2, <3>1 DEF RefreshFind, Goto, SessionInv, LocalsOK, TypeOK, Work
    <2> QED
      BY <2>1, <2>2
  <1>5. /\ work' \in [Requests -> Work]
        /\ \A q \in Requests : /\ work'[q].minted = work[q].minted
                               /\ work'[q].user = IF q = r THEN v ELSE work[q].user
    BY <1>4 DEF SessionInv, TypeOK, Work
  <1>6. TypeOK'
    BY <1>2, <1>4, <1>5 DEF SessionInv, TypeOK, Phases, Replies
  <1>7. AccountsOK' /\ SessionsMatchClaims' /\ PendingOK'
    BY <1>1, <1>2, <1>4, <1>5 DEF SessionInv, TypeOK, AccountsOK, SessionsMatchClaims, PendingOK
  <1>8. LocalsOK'
    BY <1>1, <1>2, <1>4, <1>5 DEF SessionInv, TypeOK, LocalsOK
  <1>9. DistinctWork' /\ SignupsOK'
    BY <1>1, <1>2, <1>5 DEF SessionInv, DistinctWork, SignupsOK
  <1>10. Delivered \subseteq Delivered' /\ Live' = Live
    BY <1>1, <1>2, <1>4, <1>5 DEF SessionInv, TypeOK, Delivered, Live
  <1>11. PresentedOK'
    BY <1>1, <1>2, <1>4, <1>5, <1>10 DEF SessionInv, TypeOK, PresentedOK
  <1>12. DeadOK'
    BY <1>1, <1>2, <1>4, <1>5, <1>10 DEF SessionInv, TypeOK, DeadOK
  <1> QED
    BY <1>6, <1>7, <1>8, <1>9, <1>11, <1>12 DEF SessionInv

\* SessionInv survives the signing of a token, because its jti is new.
LEMMA IssueInv ==
    ASSUME SessionInv, NEW r \in Requests, Issue(r)
    PROVE  SessionInv'
  <1> DEFINE claims == [sub |-> work[r].user, exp |-> now + TTL]
  <1>1. PICK t \in Tokens \ DOMAIN issued : /\ issued' = Put(issued, t, claims)
                                            /\ work' = [work EXCEPT ![r].minted = t]
    BY DEF Issue, FreshTokens
  <1>2. /\ pc[r] = "issue" /\ pc' = [pc EXCEPT ![r] = "insert"]
        /\ UNCHANGED <<now, users, usedIds, sessions, request>>
    BY DEF Issue, Goto, database
  <1>3. /\ work[r].user \in usedIds /\ work[r].user \in UserIds /\ work[r].minted = NULL
        /\ claims \in Claims /\ claims.sub = work[r].user
    BY <1>2, TTLAssumption DEF SessionInv, LocalsOK, TypeOK, Claims
  <1>4. /\ DOMAIN issued' = DOMAIN issued \cup {t}
        /\ issued'[t] = claims
        /\ \A x \in DOMAIN issued : issued'[x] = issued[x]
    BY <1>1 DEF Put
  <1>5. IsTable(issued', Tokens, Claims)
    BY <1>1, <1>3, PutType DEF SessionInv, TypeOK
  <1>6. /\ work' \in [Requests -> Work]
        /\ \A q \in Requests : /\ work'[q].user = work[q].user
                               /\ work'[q].minted = IF q = r THEN t ELSE work[q].minted
    BY <1>1 DEF SessionInv, TypeOK, Work
  <1>7. t # NULL /\ t \notin DOMAIN sessions /\ \A q \in Requests : work[q].minted # t
    BY NullAssumption DEF SessionInv, SessionsMatchClaims, LocalsOK
  <1>8. TypeOK'
    BY <1>2, <1>5, <1>6 DEF SessionInv, TypeOK, Phases
  <1>9. AccountsOK' /\ SignupsOK'
    BY <1>2, <1>6 DEF SessionInv, AccountsOK, SignupsOK
  <1>10. request[r].op # "logout"
    BY <1>2 DEF SessionInv, LocalsOK
  <1>11. LocalsOK'
    BY <1>2, <1>3, <1>4, <1>6, <1>7, <1>10 DEF SessionInv, TypeOK, LocalsOK
  <1>12. DistinctWork'
    BY <1>2, <1>6, <1>7 DEF SessionInv, DistinctWork
  <1>13. PendingOK' /\ SessionsMatchClaims'
    BY <1>2, <1>4, <1>6, <1>7 DEF SessionInv, TypeOK, PendingOK, SessionsMatchClaims
  <1>14. Delivered \subseteq Delivered' /\ Live' = Live
    BY <1>2, <1>6 DEF SessionInv, TypeOK, Delivered, Live
  <1>15. PresentedOK'
    BY <1>2, <1>3, <1>6, <1>14 DEF SessionInv, TypeOK, PresentedOK
  <1>16. DeadOK'
    BY <1>2, <1>6, <1>14 DEF SessionInv, TypeOK, DeadOK
  <1> QED
    BY <1>8, <1>9, <1>11, <1>12, <1>13, <1>15, <1>16 DEF SessionInv

\* SessionInv survives the insert of the session: nobody has presented its token yet.
LEMMA InsertSessionInv ==
    ASSUME SessionInv, NEW r \in Requests, InsertSession(r)
    PROVE  SessionInv'
  <1> DEFINE u == work[r].user
             t == work[r].minted
             row == [userId |-> u, expiresAt |-> issued[t].exp, revoked |-> FALSE]
  <1>1. /\ pc[r] = "insert"
        /\ UNCHANGED <<now, users, usedIds, issued, request, work>>
    BY DEF InsertSession
  <1>2. /\ t \in Tokens /\ t # NULL /\ t \in DOMAIN issued /\ issued[t].sub = u
        /\ u \in usedIds /\ request[r].op # "logout" /\ t \notin DOMAIN sessions
    BY <1>1, NullAssumption DEF SessionInv, LocalsOK, PendingOK, TypeOK, Work
  <1>3. CASE u \in DOMAIN users
    <2>1. sessions' = Put(sessions, t, row) /\ pc' = [pc EXCEPT ![r] = "ok"]
      BY <1>2, <1>3 DEF InsertSession, Goto
    <2>2. row \in SessionRow
      BY <1>2 DEF SessionInv, TypeOK, IsTable, Claims, SessionRow
    <2>3. IsTable(sessions', Tokens, SessionRow)
      BY <1>2, <2>1, <2>2, PutType DEF SessionInv, TypeOK
    <2>4. /\ DOMAIN sessions' = DOMAIN sessions \cup {t}
          /\ sessions'[t] = row
          /\ \A x \in DOMAIN sessions : sessions'[x] = sessions[x]
      BY <1>2, <2>1 DEF Put
    <2>5. Live' = Live \cup {t}
      BY <2>4 DEF Live
    <2>6. \A q \in Requests : request[q].token # NULL => request[q].token # t
      BY <1>1, PendingNotPresented
    <2>7. TypeOK'
      BY <1>1, <2>1, <2>3 DEF SessionInv, TypeOK, Phases, Replies
    <2>8. AccountsOK' /\ SignupsOK' /\ DistinctWork'
      BY <1>1 DEF SessionInv, AccountsOK, SignupsOK, DistinctWork
    <2>9. LocalsOK'
      BY <1>1, <1>2, <2>1 DEF SessionInv, TypeOK, LocalsOK
    <2>10. PendingOK'
      BY <1>1, <1>2, <2>1, <2>4 DEF SessionInv, TypeOK, PendingOK, DistinctWork, LocalsOK
    <2>11. SessionsMatchClaims'
      BY <1>1, <1>2, <1>3, <2>4 DEF SessionInv, SessionsMatchClaims
    <2>12. Delivered \subseteq Delivered'
      BY <1>1, <2>1 DEF SessionInv, TypeOK, Delivered
    <2>13. PresentedOK'
      BY <1>1, <1>2, <2>1, <2>5, <2>6, <2>12 DEF SessionInv, TypeOK, PresentedOK
    <2>14. DeadOK'
      BY <1>1, <1>2, <2>1, <2>5, <2>6 DEF SessionInv, TypeOK, DeadOK, PresentedOK
    <2> QED
      BY <2>7, <2>8, <2>9, <2>10, <2>11, <2>13, <2>14 DEF SessionInv
  <1>4. CASE u \notin DOMAIN users
    <2>1. sessions' = sessions /\ pc' = [pc EXCEPT ![r] = "error"]
      BY <1>4 DEF InsertSession, Goto
    <2>2. TypeOK'
      BY <1>1, <2>1 DEF SessionInv, TypeOK, Replies
    <2>3. AccountsOK' /\ SignupsOK' /\ DistinctWork' /\ SessionsMatchClaims'
      BY <1>1, <2>1 DEF SessionInv, AccountsOK, SignupsOK, DistinctWork, SessionsMatchClaims
    <2>4. LocalsOK'
      BY <1>1, <1>2, <1>4, <2>1 DEF SessionInv, TypeOK, LocalsOK
    <2>5. PendingOK'
      BY <1>1, <2>1 DEF SessionInv, TypeOK, PendingOK
    <2>6. Delivered \subseteq Delivered' /\ Live' = Live
      BY <1>1, <2>1 DEF SessionInv, TypeOK, Delivered, Live
    <2>7. PresentedOK'
      BY <1>1, <2>1, <2>6 DEF SessionInv, TypeOK, PresentedOK
    <2>8. DeadOK'
      BY <1>1, <2>1, <2>6 DEF SessionInv, TypeOK, DeadOK
    <2> QED
      BY <2>2, <2>3, <2>4, <2>5, <2>7, <2>8 DEF SessionInv
  <1> QED
    BY <1>3, <1>4

\* SessionInv survives the passing of time, which no part of it mentions.
LEMMA TickInv ==
    ASSUME SessionInv, Tick
    PROVE  SessionInv'
  <1>1. now' = now + 1 /\ UNCHANGED <<users, usedIds, sessions, issued, request, work, pc>>
    BY DEF Tick, database
  <1>2. TypeOK'
    BY <1>1 DEF SessionInv, TypeOK
  <1>3. AccountsOK' /\ LocalsOK' /\ SignupsOK' /\ DistinctWork' /\ SessionsMatchClaims' /\ PendingOK'
    BY <1>1 DEF SessionInv, AccountsOK, LocalsOK, SignupsOK, DistinctWork,
                SessionsMatchClaims, PendingOK
  <1>4. PresentedOK' /\ DeadOK'
    BY <1>1 DEF SessionInv, PresentedOK, Delivered, Live, DeadOK
  <1> QED
    BY <1>2, <1>3, <1>4 DEF SessionInv

\* SessionInv survives the deletion of an account together with its sessions.
LEMMA DeleteUserInv ==
    ASSUME SessionInv, NEW u \in UserIds, DeleteUser(u)
    PROVE  SessionInv'
  <1>1. /\ users' = Drop(users, {u}) /\ sessions' = Drop(sessions, Owned(u))
        /\ UNCHANGED <<now, usedIds, issued, request, work, pc>>
    BY DEF DeleteUser
  <1>2. /\ DOMAIN users' = DOMAIN users \ {u}
        /\ \A x \in DOMAIN users' : users'[x] = users[x]
        /\ DOMAIN sessions' = {t \in DOMAIN sessions : sessions[t].userId # u}
        /\ \A x \in DOMAIN sessions' : sessions'[x] = sessions[x]
    BY <1>1 DEF Drop, Owned
  <1>3. IsTable(users', UserIds, UserRow) /\ IsTable(sessions', Tokens, SessionRow)
    BY <1>1, DropType DEF SessionInv, TypeOK
  <1>4. Live' \subseteq Live /\ Delivered' = Delivered
    BY <1>1, <1>2 DEF Live, Delivered
  <1>5. TypeOK'
    BY <1>1, <1>3 DEF SessionInv, TypeOK
  <1>6. AccountsOK'
    BY <1>1, <1>2, ZenonT(60) DEF SessionInv, AccountsOK
  <1>7. SignupsOK' /\ DistinctWork'
    <2>1. DistinctWork'
      BY <1>1 DEF SessionInv, DistinctWork
    <2>2. SignupsOK'
      BY <1>1, <1>2 DEF SessionInv, SignupsOK
    <2> QED
      BY <2>1, <2>2
  <1>8. LocalsOK'
    BY <1>1, <1>2 DEF SessionInv, LocalsOK
  <1>10. SessionsMatchClaims' /\ PendingOK'
    BY <1>1, <1>2 DEF SessionInv, SessionsMatchClaims, PendingOK
  <1>9. PresentedOK' /\ DeadOK'
    BY <1>1, <1>4 DEF SessionInv, PresentedOK, DeadOK
  <1> QED
    BY <1>5, <1>6, <1>7, <1>8, <1>9, <1>10 DEF SessionInv

-------------------------------------------------------------------------------
(* The invariant and what follows from it.                                     *)

\* SessionInv holds of the empty store.
LEMMA InitInv == Init => SessionInv
  BY EmptyTableType, NullAssumption
  DEF Init, SessionInv, TypeOK, AccountsOK, LocalsOK, DistinctWork, SignupsOK, PendingOK,
      SessionsMatchClaims, PresentedOK, DeadOK, Request, Work

\* SessionInv is inductive.
LEMMA NextInv == SessionInv /\ [Next]_vars => SessionInv'
  <1> SUFFICES ASSUME SessionInv, [Next]_vars
               PROVE  SessionInv'
    OBVIOUS
  <1>1. ASSUME NEW r \in Requests, Arrival(r)
        PROVE  SessionInv'
    BY <1>1, SignupArrivesInv, LoginArrivesInv, RefreshArrivesInv, LogoutArrivesInv DEF Arrival
  <1>2. ASSUME NEW r \in Requests, Step(r)
        PROVE  SessionInv'
    BY <1>2, SignupFindInv, SignupCreateInv, LoginFindInv, IssueInv, InsertSessionInv,
       RefreshFindInv, RefreshUserInv, RefreshRevokeInv, LogoutFindInv, LogoutRevokeInv DEF Step
  <1>3. ASSUME NEW r \in Requests, Abort(r)
        PROVE  SessionInv'
    BY <1>3, AbortInv
  <1>4. CASE Tick
    BY <1>4, TickInv
  <1>5. ASSUME NEW u \in UserIds, DeleteUser(u)
        PROVE  SessionInv'
    BY <1>5, DeleteUserInv
  <1>6. CASE UNCHANGED vars
    BY <1>6 DEF vars, SessionInv, TypeOK, AccountsOK, LocalsOK, DistinctWork, SignupsOK,
                PendingOK, SessionsMatchClaims, PresentedOK, DeadOK, Delivered, Live
  <1> QED
    BY <1>1, <1>2, <1>3, <1>4, <1>5, <1>6 DEF Next

\* The inductive invariant of the session store, for any number of concurrent requests.
THEOREM SessionInvariance == Spec => []SessionInv
  BY InitInv, NextInv, PTL DEF Spec

\* The type invariant of the session store.
THEOREM TypeCorrectness == Spec => []TypeOK
  BY SessionInvariance, PTL DEF SessionInv

\* Every session is for an existing account and is the one its JWT names.
THEOREM SessionsAreOwned == Spec => []SessionsMatchClaims
  BY SessionInvariance, PTL DEF SessionInv

\* The race of two signups for one address leaves at most one account.
THEOREM SignupsAreUnique == Spec => []OneAccountPerEmail
  <1>1. SessionInv => OneAccountPerEmail
    <2>1. SUFFICES ASSUME SessionInv, NEW q \in Requests, NEW r \in Requests, q # r,
                          request[q].op = "signup", request[r].op = "signup",
                          request[q].email = request[r].email,
                          work[q].user \in DOMAIN users, work[r].user \in DOMAIN users
                   PROVE  FALSE
      BY DEF OneAccountPerEmail
    <2>2. work[q].user = work[r].user
      BY <2>1 DEF SessionInv, SignupsOK, AccountsOK
    <2>3. work[q].user # NULL
      BY <2>1, NullAssumption DEF SessionInv, TypeOK, IsTable
    <2> QED
      BY <2>1, <2>2, <2>3 DEF SessionInv, DistinctWork
  <1> QED
    BY <1>1, SessionInvariance, PTL

\* Only the deletion of its account can make a request end in an internal error.
THEOREM ErrorsAreExplained == Spec => []NoUnexplainedError
  <1>1. SessionInv => NoUnexplainedError
    BY DEF SessionInv, LocalsOK, NoUnexplainedError
  <1> QED
    BY <1>1, SessionInvariance, PTL

\* A refreshed session is over before its successor is signed.
THEOREM RotationRevokesFirst == Spec => []RevokedBeforeReissue
  <1>1. SessionInv => RevokedBeforeReissue
    <2>1. SUFFICES ASSUME SessionInv, NEW r \in Requests, request[r].op = "refresh",
                          work[r].minted # NULL, request[r].token \in DOMAIN sessions
                   PROVE  sessions[request[r].token].revoked
      BY DEF RevokedBeforeReissue
    <2>2. request[r].token \notin Live
      BY <2>1 DEF SessionInv, PresentedOK
    <2>3. sessions[request[r].token] \in SessionRow
      BY <2>1 DEF SessionInv, TypeOK, IsTable
    <2> QED
      BY <2>1, <2>2, <2>3 DEF Live, SessionRow
  <1> QED
    BY <1>1, SessionInvariance, PTL

\* One account per address, errors that are explained, revocation before reissue: whatever
\* handlers interleave.
THEOREM SessionsAreSafe == Spec => []SessionSafety
  BY SessionInvariance, SignupsAreUnique, ErrorsAreExplained, RotationRevokesFirst, PTL
  DEF SessionSafety

\* A dead token never gets its refresh a new session.
THEOREM DeadTokensStayRejected == Spec => []DeadTokensStayDead
  <1>1. SessionInv => DeadTokensStayDead
    BY DEF SessionInv, DeadOK, DeadTokensStayDead
  <1> QED
    BY <1>1, SessionInvariance, PTL

-------------------------------------------------------------------------------
(* The session store implements the token lifecycle.                           *)

\* A live token has been signed, and its insert is over.
LEMMA LiveIsSettled == SessionInv => Live \subseteq Settled
  BY DEF SessionInv, Live, Settled, Pending, SessionsMatchClaims, PendingOK

\* Whatever only ends sessions, or discards signed tokens, is a Retire step.
LEMMA RetireStep ==
    ASSUME SessionInv, SessionInv', Live' \subseteq Live, Settled \subseteq Settled'
    PROVE  Lifecycle!Next
  <1> DEFINE T == (Live \ Live') \cup (Settled' \ Settled)
  <1>1. Live \subseteq Settled /\ Live' \subseteq Settled'
    BY LiveIsSettled
  <1>2. T \in SUBSET Tokens
    BY DEF SessionInv, TypeOK, IsTable, Live, Settled
  <1>3. Lifecycle!Retire(T)
    BY <1>1 DEF Lifecycle!Retire, tokenStatus
  <1> QED
    BY <1>2, <1>3 DEF Lifecycle!Next

\* A handler that moves on without minting leaves no new token pending.
LEMMA MovesOn ==
    ASSUME SessionInv, NEW r \in Requests, NEW where, where # "insert",
           pc' = [pc EXCEPT ![r] = where], issued' = issued,
           \A q \in Requests : work'[q].minted = work[q].minted
    PROVE  Settled \subseteq Settled'
  <1>1. Pending' \subseteq Pending
    BY DEF SessionInv, TypeOK, Pending
  <1> QED
    BY <1>1 DEF Settled

\* The insert opens the session of its token, or discards the token.
LEMMA InsertSimulation ==
    ASSUME SessionInv, SessionInv', NEW r \in Requests, InsertSession(r)
    PROVE  Lifecycle!Next
  <1> DEFINE t == work[r].minted
             u == work[r].user
  <1>1. /\ pc[r] = "insert" /\ t \in Tokens /\ t \notin DOMAIN sessions
        /\ t \in Pending /\ t \in DOMAIN issued
        /\ UNCHANGED <<issued, work>>
    BY NullAssumption DEF InsertSession, SessionInv, LocalsOK, PendingOK, TypeOK, Work, Pending
  <1>2. CASE u \in DOMAIN users
    <2>1. /\ sessions' = Put(sessions, t, [userId |-> u, expiresAt |-> issued[t].exp,
                                           revoked |-> FALSE])
          /\ pc' = [pc EXCEPT ![r] = "ok"]
      BY <1>1, <1>2 DEF InsertSession, Goto
    <2>2. Live' = Live \cup {t}
      BY <1>1, <2>1 DEF Live, Put
    <2>3. Pending' = Pending \ {t}
      BY <1>1, <2>1 DEF SessionInv, TypeOK, DistinctWork, LocalsOK, Pending
    <2>4. Settled' = Settled \cup {t}
      BY <1>1, <2>3 DEF Settled
    <2>5. t \notin Live /\ t \notin Settled
      BY <1>1 DEF Live, Settled
    <2>6. Lifecycle!Open(t)
      BY <1>1, <2>2, <2>4, <2>5 DEF Lifecycle!Open, tokenStatus
    <2> QED
      BY <1>1, <2>6 DEF Lifecycle!Next
  <1>3. CASE u \notin DOMAIN users
    <2>1. sessions' = sessions /\ pc' = [pc EXCEPT ![r] = "error"]
      BY <1>3 DEF InsertSession, Goto
    <2>2. Live' = Live
      BY <2>1 DEF Live
    <2>3. Settled \subseteq Settled'
      BY <1>1, <2>1, MovesOn
    <2> QED
      BY <2>2, <2>3, RetireStep
  <1> QED
    BY <1>2, <1>3

\* The initial state has no session and no signed token.
LEMMA InitSimulation == Init => Lifecycle!Init
  BY EmptyTableType DEF Init, Lifecycle!Init, tokenStatus, Live, Settled

\* Every step of the store is a step of the lifecycle, or leaves it alone.
LEMMA NextSimulation ==
    ASSUME SessionInv, SessionInv', [Next]_vars
    PROVE  [Lifecycle!Next]_tokenStatus
  <1>1. ASSUME NEW r \in Requests, Arrival(r)
        PROVE  Lifecycle!Next
    <2>1. PICK where \in {"signupFind", "loginFind", "refreshFind", "logoutFind", "denied"} :
             /\ pc' = [pc EXCEPT ![r] = where]
             /\ UNCHANGED <<sessions, issued, work>>
      BY <1>1 DEF Arrival, SignupArrives, LoginArrives, RefreshArrives, LogoutArrives,
                  ArriveWithCredentials, ArriveWithToken, Goto, database
    <2> QED
      BY <2>1, MovesOn, RetireStep DEF Live
  <1>2. ASSUME NEW r \in Requests, SignupFind(r) \/ RefreshUser(r) \/ LogoutFind(r) \/ Abort(r)
        PROVE  Lifecycle!Next
    <2>1. PICK where \in {"conflict", "signupCreate", "refreshRevoke", "denied",
                          "logoutRevoke", "ok", "lost"} :
             /\ pc' = [pc EXCEPT ![r] = where]
             /\ UNCHANGED <<sessions, issued, work>>
      BY <1>2 DEF SignupFind, RefreshUser, LogoutFind, Abort, Goto, database
    <2> QED
      BY <2>1, MovesOn, RetireStep DEF Live
  <1>3. ASSUME NEW r \in Requests, SignupCreate(r) \/ LoginFind(r) \/ RefreshFind(r)
        PROVE  Lifecycle!Next
    <2>1. PICK where \in {"conflict", "issue", "denied", "refreshUser"} :
             /\ pc' = [pc EXCEPT ![r] = where]
             /\ UNCHANGED <<sessions, issued>>
      BY <1>3 DEF SignupCreate, LoginFind, RefreshFind, Goto, database
    <2>2. work' = work \/ \E u : work' = [work EXCEPT ![r].user = u]
      BY <1>3 DEF SignupCreate, LoginFind, RefreshFind
    <2>3. \A q \in Requests : work'[q].minted = work[q].minted
      BY <2>2 DEF SessionInv, TypeOK, Work
    <2> QED
      BY <2>1, <2>3, MovesOn, RetireStep DEF Live
  <1>4. ASSUME NEW r \in Requests, Issue(r)
        PROVE  Lifecycle!Next
    <2>1. PICK t \in Tokens \ DOMAIN issued :
             /\ issued' = Put(issued, t, [sub |-> work[r].user, exp |-> now + TTL])
             /\ work' = [work EXCEPT ![r].minted = t]
             /\ pc' = [pc EXCEPT ![r] = "insert"]
             /\ UNCHANGED sessions
      BY <1>4 DEF Issue, FreshTokens, Goto, database
    <2>2. DOMAIN issued' = DOMAIN issued \cup {t}
      BY <2>1 DEF Put
    <2>3. Pending' \subseteq Pending \cup {t}
      BY <2>1 DEF SessionInv, TypeOK, Work, Pending
    <2> QED
      BY <2>1, <2>2, <2>3, RetireStep DEF Live, Settled
  <1>5. ASSUME NEW r \in Requests, RefreshRevoke(r) \/ LogoutRevoke(r)
        PROVE  Lifecycle!Next
    <2>1. PICK where \in {"issue", "ok"} :
             /\ pc' = [pc EXCEPT ![r] = where]
             /\ Revoke(request[r].token)
             /\ UNCHANGED <<issued, work>>
      BY <1>5 DEF RefreshRevoke, LogoutRevoke, Goto
    <2>2. request[r].token \in Tokens
      BY <1>5 DEF RefreshRevoke, LogoutRevoke, SessionInv, TypeOK, Request, PresentedOK
    <2>3. Live' \subseteq Live
      BY <2>1, <2>2, RevokeEffect
    <2> QED
      BY <2>1, <2>3, MovesOn, RetireStep
  <1>6. CASE Tick
    BY <1>6, RetireStep DEF Tick, database, Live, Settled, Pending
  <1>7. ASSUME NEW u \in UserIds, DeleteUser(u)
        PROVE  Lifecycle!Next
    <2>1. Live' \subseteq Live /\ Settled' = Settled
      BY <1>7 DEF DeleteUser, Drop, Live, Settled, Pending
    <2> QED
      BY <2>1, RetireStep
  <1>8. CASE UNCHANGED vars
    BY <1>8 DEF vars, tokenStatus, Live, Settled, Pending
  <1>9. ASSUME NEW r \in Requests, Step(r)
        PROVE  Lifecycle!Next
    BY <1>2, <1>3, <1>4, <1>5, <1>9, InsertSimulation DEF Step
  <1> QED
    BY <1>1, <1>2, <1>6, <1>7, <1>8, <1>9 DEF Next

\* The session store implements the atomic token lifecycle, for any number of tokens
\* and requests: the races of refresh and logout never revive a session.
THEOREM Refinement == Spec => ImplementsLifecycle
  BY InitSimulation, NextSimulation, SessionInvariance, PTL
  DEF Spec, ImplementsLifecycle, Lifecycle!Spec

===============================================================================
