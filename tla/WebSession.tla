------------------------------ MODULE WebSession ------------------------------
(***************************************************************************)
(* The session of a user of apps/web: auth-actions.ts (login, logout,      *)
(* restoreSession) over token-store.ts, with the React state AuthProvider  *)
(* keeps, in several tabs that share one localStorage.                     *)
(*                                                                         *)
(* A stored session is its refresh token; its access token is good until   *)
(* the gateway first answers 401 to it.  Of services/auth only the life of *)
(* a refresh token is seen (TokenLifecycle): fresh, live, dead.  Each tab  *)
(* has its own module-level `current`, read from localStorage once per     *)
(* page load.                                                              *)
(***************************************************************************)
EXTENDS Naturals

CONSTANTS BrowserTabs,
          MaxTokens,   \* bounds the sessions that logins and refreshes open
          NoSession

\* Sessions are numbered in the order in which they are opened.
Tokens == 1..MaxTokens

ASSUME NoSessionAssumption == NoSession \notin Tokens

VARIABLES
    server,      \* services/auth: the state of each refresh token
    access,      \* whether the access token issued with it is still accepted
    storage,      \* localStorage
    current,     \* token-store.ts, per tab
    status,      \* React: "closed" without a page, or AuthStatus
    seen,        \* React: the session whose user the screens show
    restore,     \* the pending restoreSession(): where it is, and the session it read
    refreshed,   \* the services' answer to its refresh: the new token, or NoSession
    submitting,  \* a pending login()
    logouts,     \* the sessions of the pending logout() calls
    retired,     \* history: every session that storage has held and holds no more
    rejected,    \* history: the sessions whose refresh a tab saw rejected
    overlapped   \* history: login() ran beside another action of the tab

web  == <<storage, current, status, seen, restore, submitting, logouts>>
past == <<retired, rejected, overlapped>>
webVars == <<server, access, refreshed, web, past>>

-------------------------------------------------------------------------------

NotRestoring == [at |-> "none", token |-> NoSession]

\* "served": the services have answered the refresh, the browser has not delivered it.
Restores == {NotRestoring} \cup [at : {"me", "refresh", "served"}, token : Tokens]

WebTypeOK ==
    /\ server \in [Tokens -> {"fresh", "live", "dead"}]
    /\ access \in [Tokens -> BOOLEAN]
    /\ storage \in Tokens \cup {NoSession}
    /\ current \in [BrowserTabs -> Tokens \cup {NoSession}]
    /\ status \in [BrowserTabs -> {"closed", "loading", "authenticated", "unauthenticated"}]
    /\ seen \in [BrowserTabs -> Tokens \cup {NoSession}]
    /\ restore \in [BrowserTabs -> Restores]
    /\ refreshed \in [BrowserTabs -> Tokens \cup {NoSession}]
    /\ submitting \in [BrowserTabs -> BOOLEAN]
    /\ logouts \in [BrowserTabs -> SUBSET Tokens]
    /\ retired \subseteq Tokens
    /\ rejected \in [BrowserTabs -> SUBSET Tokens]
    /\ overlapped \in [BrowserTabs -> BOOLEAN]

WebInit ==
    /\ server = [t \in Tokens |-> "fresh"]
    /\ access = [t \in Tokens |-> FALSE]
    /\ storage = NoSession
    /\ current = [b \in BrowserTabs |-> NoSession]
    /\ status = [b \in BrowserTabs |-> "closed"]
    /\ seen = [b \in BrowserTabs |-> NoSession]
    /\ restore = [b \in BrowserTabs |-> NotRestoring]
    /\ refreshed = [b \in BrowserTabs |-> NoSession]
    /\ submitting = [b \in BrowserTabs |-> FALSE]
    /\ logouts = [b \in BrowserTabs |-> {}]
    /\ retired = {}
    /\ rejected = [b \in BrowserTabs |-> {}]
    /\ overlapped = [b \in BrowserTabs |-> FALSE]

-------------------------------------------------------------------------------
(* token-store.ts *)

Retire == retired' = retired \cup ({storage} \ {NoSession})

SetSession(b, t) ==
    /\ current' = [current EXCEPT ![b] = t]
    /\ storage' = t
    /\ Retire

ClearSession(b) ==
    /\ current' = [current EXCEPT ![b] = NoSession]
    /\ storage' = NoSession
    /\ Retire

KeepSession == UNCHANGED <<current, storage, retired>>

-------------------------------------------------------------------------------
(* services/auth, behind the gateway *)

\* A login or a refresh opens a session with a token nobody has had.
Issue(t) ==
    /\ server[t] = "fresh"
    /\ \A n \in 1..(t - 1) : server[n] # "fresh"
    /\ access' = [access EXCEPT ![t] = TRUE]

\* POST /v1/auth/refresh: the presented token dies and a new one is answered, or it was
\* dead already and the answer is 401.
ServeRefresh(b) ==
    LET t == restore[b].token
    IN  /\ restore[b].at = "refresh"
        /\ restore' = [restore EXCEPT ![b].at = "served"]
        /\ \/ /\ server[t] = "live"
              /\ \E n \in Tokens :
                    /\ Issue(n)
                    /\ server' = [server EXCEPT ![t] = "dead", ![n] = "live"]
                    /\ refreshed' = [refreshed EXCEPT ![b] = n]
           \/ /\ server[t] # "live"
              /\ UNCHANGED <<server, access, refreshed>>
        /\ UNCHANGED <<storage, current, status, seen, submitting, logouts, past>>

-------------------------------------------------------------------------------
(* AuthProvider and restoreSession *)

\* What the effect does with the result of restoreSession.
Restored(b, t) ==
    /\ restore' = [restore EXCEPT ![b] = NotRestoring]
    /\ seen' = [seen EXCEPT ![b] = t]
    /\ status' = [status EXCEPT ![b] = IF t = NoSession THEN "unauthenticated" ELSE "authenticated"]

\* A page is loaded or reloaded: hydrate(), then me() if there is a session.  What ran in
\* the old page is never answered.
LoadPage(b) ==
    /\ current' = [current EXCEPT ![b] = storage]
    /\ restore' = [restore EXCEPT ![b] = IF storage = NoSession THEN NotRestoring
                                         ELSE [at |-> "me", token |-> storage]]
    /\ status' = [status EXCEPT ![b] = IF storage = NoSession THEN "unauthenticated" ELSE "loading"]
    /\ seen' = [seen EXCEPT ![b] = NoSession]
    /\ submitting' = [submitting EXCEPT ![b] = FALSE]
    /\ logouts' = [logouts EXCEPT ![b] = {}]
    /\ overlapped' = [overlapped EXCEPT ![b] = FALSE]
    /\ refreshed' = [refreshed EXCEPT ![b] = NoSession]
    /\ UNCHANGED <<server, access, storage, retired, rejected>>

\* await me(): the user, 401 (which it stays), or any other failure, after which the
\* session goes on as it is.
MeAnswered_Persists(b) ==
    LET t == restore[b].token
    IN  /\ restore[b].at = "me"
        /\ \/ access[t] /\ Restored(b, t) /\ KeepSession /\ UNCHANGED access
           \/ Restored(b, t) /\ SetSession(b, t) /\ UNCHANGED access
           \/ /\ access' = [access EXCEPT ![t] = FALSE]
              /\ restore' = [restore EXCEPT ![b].at = "refresh"]
              /\ KeepSession
              /\ UNCHANGED <<seen, status>>
        /\ UNCHANGED <<server, refreshed, submitting, logouts, rejected, overlapped>>
MeAnswered(b) ==
    LET t == restore[b].token
    IN  /\ restore[b].at = "me"
        /\ \/ access[t] /\ Restored(b, t) /\ UNCHANGED access
           \/ Restored(b, t) /\ UNCHANGED access
           \/ /\ access' = [access EXCEPT ![t] = FALSE]
              /\ restore' = [restore EXCEPT ![b].at = "refresh"]
              /\ UNCHANGED <<seen, status>>
        /\ KeepSession
        /\ UNCHANGED <<server, refreshed, submitting, logouts, rejected, overlapped>>

\* await refresh(), answered: the new session replaces whatever is stored, or an answer
\* that is not 2xx clears it.
RefreshAnswered_KeepsRejected(b) ==
    LET t == restore[b].token
    IN  /\ restore[b].at = "served"
        /\ \/ /\ refreshed[b] # NoSession
              /\ SetSession(b, refreshed[b])
              /\ Restored(b, refreshed[b])
              /\ UNCHANGED rejected
           \/ /\ refreshed[b] = NoSession
              /\ KeepSession
              /\ Restored(b, t)
              /\ rejected' = [rejected EXCEPT ![b] = @ \cup {t}]
        /\ refreshed' = [refreshed EXCEPT ![b] = NoSession]
        /\ UNCHANGED <<server, access, submitting, logouts, overlapped>>
RefreshAnswered(b) ==
    LET t == restore[b].token
    IN  /\ restore[b].at = "served"
        /\ \/ /\ refreshed[b] # NoSession
              /\ SetSession(b, refreshed[b])
              /\ Restored(b, refreshed[b])
              /\ UNCHANGED rejected
           \/ /\ refreshed[b] = NoSession
              /\ ClearSession(b)
              /\ Restored(b, NoSession)
              /\ rejected' = [rejected EXCEPT ![b] = @ \cup {t}]
        /\ refreshed' = [refreshed EXCEPT ![b] = NoSession]
        /\ UNCHANGED <<server, access, submitting, logouts, overlapped>>

\* await refresh(), failed before or after the services served it: the same catch.
RefreshFails_Uncaught(b) ==
    /\ restore[b].at \in {"refresh", "served"}
    /\ ClearSession(b)
    /\ restore' = [restore EXCEPT ![b] = NotRestoring]
    /\ refreshed' = [refreshed EXCEPT ![b] = NoSession]
    /\ UNCHANGED <<server, access, seen, status, submitting, logouts, rejected, overlapped>>
RefreshFails(b) ==
    /\ restore[b].at \in {"refresh", "served"}
    /\ ClearSession(b)
    /\ Restored(b, NoSession)
    /\ refreshed' = [refreshed EXCEPT ![b] = NoSession]
    /\ UNCHANGED <<server, access, submitting, logouts, rejected, overlapped>>

-------------------------------------------------------------------------------
(* login() *)

\* The login page answers while the session is still being restored, too.
Login(b) ==
    /\ status[b] \in {"loading", "unauthenticated"}
    /\ ~submitting[b]
    /\ submitting' = [submitting EXCEPT ![b] = TRUE]
    /\ overlapped' = [overlapped EXCEPT ![b] = @ \/ restore[b].at # "none" \/ logouts[b] # {}]
    /\ UNCHANGED <<server, access, refreshed, storage, current, status, seen, restore, logouts,
                   retired, rejected>>

\* await login(): a session, or an error on the page.
LoginAnswered(b) ==
    /\ submitting[b]
    /\ submitting' = [submitting EXCEPT ![b] = FALSE]
    /\ \/ \E n \in Tokens :
              /\ Issue(n)
              /\ server' = [server EXCEPT ![n] = "live"]
              /\ SetSession(b, n)
              /\ seen' = [seen EXCEPT ![b] = n]
              /\ status' = [status EXCEPT ![b] = "authenticated"]
       \/ KeepSession /\ UNCHANGED <<server, access, seen, status>>
    /\ UNCHANGED <<restore, refreshed, logouts, rejected, overlapped>>

-------------------------------------------------------------------------------
(* logout() *)

\* The session is cleared before the call; without one there is no call.
Logout(b) ==
    /\ status[b] = "authenticated"
    /\ ClearSession(b)
    /\ \/ /\ current[b] # NoSession
          /\ logouts' = [logouts EXCEPT ![b] = @ \cup {current[b]}]
          /\ UNCHANGED <<seen, status>>
       \/ /\ current[b] = NoSession
          /\ seen' = [seen EXCEPT ![b] = NoSession]
          /\ status' = [status EXCEPT ![b] = "unauthenticated"]
          /\ UNCHANGED logouts
    /\ UNCHANGED <<server, access, refreshed, restore, submitting, rejected, overlapped>>

\* await logout(), whatever the answer: the session is revoked, or still lives.
LogoutAnswered(b, t) ==
    /\ t \in logouts[b]
    /\ logouts' = [logouts EXCEPT ![b] = @ \ {t}]
    /\ server' \in {server, [server EXCEPT ![t] = "dead"]}
    /\ seen' = [seen EXCEPT ![b] = NoSession]
    /\ status' = [status EXCEPT ![b] = "unauthenticated"]
    /\ UNCHANGED <<access, refreshed, storage, current, restore, submitting, past>>

-------------------------------------------------------------------------------

FetchAnswered(b) ==
    \/ MeAnswered(b) \/ ServeRefresh(b) \/ RefreshAnswered(b) \/ RefreshFails(b)
    \/ LoginAnswered(b)
    \/ \E t \in Tokens : LogoutAnswered(b, t)

WebNext == \E b \in BrowserTabs : LoadPage(b) \/ Login(b) \/ Logout(b) \/ FetchAnswered(b)

WebSpec == WebInit /\ [][WebNext]_webVars

\* A browser settles every fetch: restoreSession's calls are answered or fail.
WebFairness ==
    \A b \in BrowserTabs : /\ WF_webVars(MeAnswered(b))
                          /\ WF_webVars(RefreshAnswered(b) \/ RefreshFails(b))

FairWebSpec == WebSpec /\ WebFairness

-------------------------------------------------------------------------------
(* Correctness *)

\* A session that storage has given up, by a logout, a rejection, or a newer session in any
\* tab, is never stored again, however late an answer of another tab arrives.
NoSessionReturns == storage \notin retired

\* A session whose refresh a tab saw rejected is in nobody's storage, and the tab neither
\* sends nor shows it (restoreSession: "never silently keeps a session the server has
\* already rejected").
RejectedIsDropped ==
    \A b \in BrowserTabs : \A t \in rejected[b] : t \notin {storage, current[b], seen[b]}

\* A tab whose login did not overlap another action shows the user whose tokens it sends,
\* and has tokens to send (auth-context.tsx: one place for every transition).
ScreenMatchesStore ==
    \A b \in BrowserTabs :
        status[b] = "authenticated" /\ logouts[b] = {} /\ ~overlapped[b] =>
            seen[b] = current[b] /\ current[b] # NoSession

\* Unless the user keeps reloading, no tab stays at "Restoring your session".
RestoringEnds == \A b \in BrowserTabs : <>[][~LoadPage(b)]_webVars => <>[](status[b] # "loading")

-------------------------------------------------------------------------------
(* The inductive invariant.                                                    *)

\* The sessions that have been in storage.
Known == ({storage} \ {NoSession}) \cup retired

\* What storage, memory and screen hold was opened, and has been stored.
KnownOK ==
    /\ \A t \in Known : server[t] # "fresh"
    /\ \A b \in BrowserTabs :
           /\ current[b] \in Known \cup {NoSession}
           /\ seen[b] \in Known \cup {NoSession}
           /\ rejected[b] \subseteq retired

\* A new session that was answered and not delivered is known to its one tab.
PendingOK ==
    \A b \in BrowserTabs :
        refreshed[b] # NoSession =>
            /\ restore[b].at = "served"
            /\ server[refreshed[b]] # "fresh"
            /\ refreshed[b] \notin Known
            /\ \A c \in BrowserTabs \ {b} : refreshed[c] # refreshed[b]

\* A pending restore read its session from storage; unless a login overlaps it, the tab
\* still holds that session.  A login that overlaps nothing runs where nobody can log out.
RestoringOK ==
    \A b \in BrowserTabs :
        /\ restore[b].at # "none" =>
               /\ restore[b].token \in Known \ rejected[b]
               /\ ~overlapped[b] =>
                      /\ status[b] = "loading"
                      /\ current[b] = restore[b].token
                      /\ logouts[b] = {}
                      /\ ~submitting[b]
        /\ status[b] = "loading" => restore[b].at # "none"
        /\ submitting[b] /\ ~overlapped[b] => status[b] = "unauthenticated" /\ logouts[b] = {}

WebInv ==
    /\ WebTypeOK
    /\ KnownOK
    /\ PendingOK
    /\ RestoringOK
    /\ NoSessionReturns
    /\ RejectedIsDropped
    /\ ScreenMatchesStore

===============================================================================
