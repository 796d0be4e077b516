------------------------------ MODULE Services ------------------------------
(***************************************************************************)
(* The linking of accounts, the reads, the audit trail and the session of  *)
(* the mobile client share no state, so that no step of one can matter to  *)
(* another: one specification holds them all, each moving with the others  *)
(* at rest.                                                                *)
(***************************************************************************)
EXTENDS Naturals

CONSTANTS
    Sessions, UserOf, Subjects, MaxStarts, Callbacks,     \* OAuthLink
    Repositories, Reads, MaxTokens, MaxKeys,              \* InstallationToken
    Ids, LastTick, Limits,                                \* AuditTrail
    Targets, Unlinked, Size, MaxPages, Loads,             \* ReadPanel
    Accounts, Workspaces, MaxLogins, MaxRequests          \* MobileSession

ASSUME BoundAssumption == MaxStarts \in Nat

\* Ids are compared; a limit is at least one.
ASSUME TrailAssumption == Ids \subseteq Nat /\ Limits \subseteq Nat \ {0}

VARIABLES
    issuer, stored, expired, started, link, pcLink, session, state, subject,
    links, misled,
    allowlist, token, expiry, version, current, retired, issued, reach, life,
    pcRead, wanted, row, using, answered,
    clock, stamp, begun, committed, limit, cursor, listed, there,
    target, pcPanel, aim, pages, done, newest, readState, selected, shown,
    created, userOf, valid, binding, cookieStore, restoring, hasSession,
    boundRoom, visit, rooms, login, pcApp, cookie, asks, visitOf, lost,
    unread,
    part  \* the one that moves

linkVars == <<issuer, stored, expired, started, link, pcLink, session, state,
              subject, links, misled>>
tokenVars == <<allowlist, token, expiry, version, current, retired, issued,
               reach, life, pcRead, wanted, row, using, answered>>
trailVars == <<clock, stamp, begun, committed, limit, cursor, listed, there>>
panelVars == <<target, pcPanel, aim, pages, done, newest, readState, selected,
               shown>>
appVars == <<created, userOf, valid, binding, cookieStore, restoring,
             hasSession, boundRoom, visit, rooms, login, pcApp, cookie, asks,
             visitOf, lost, unread>>

Link == INSTANCE OAuthLink WITH pc <- pcLink
Token == INSTANCE InstallationToken WITH pc <- pcRead, Requests <- Reads
Trail == INSTANCE AuditTrail
Panel == INSTANCE ReadPanel WITH pc <- pcPanel, current <- newest
App == INSTANCE MobileSession
           WITH pc <- pcApp, stored <- cookieStore, Users <- Accounts

\* Whose the sessions are that the mobile client does not use.
SomeUser == CHOOSE u \in Accounts : TRUE

Init ==
    /\ part \in {"link", "token", "trail", "panel", "app"}
    /\ Link!Init /\ Token!Init /\ Trail!Init /\ Panel!Init /\ App!Init
    /\ part = "token" \/ issued = 0
    /\ part = "app" \/ (cookieStore = 0 /\ userOf = [n \in App!Cookies |-> SomeUser])

Next ==
    /\ \/ part = "link" /\ Link!Next
          /\ UNCHANGED <<tokenVars, trailVars, panelVars, appVars>>
       \/ part = "token" /\ Token!Next
          /\ UNCHANGED <<linkVars, trailVars, panelVars, appVars>>
       \/ part = "trail" /\ Trail!Next
          /\ UNCHANGED <<linkVars, tokenVars, panelVars, appVars>>
       \/ part = "panel" /\ Panel!Next
          /\ UNCHANGED <<linkVars, tokenVars, trailVars, appVars>>
       \/ part = "app" /\ App!Next
          /\ UNCHANGED <<linkVars, tokenVars, trailVars, panelVars>>
    /\ UNCHANGED part

vars == <<linkVars, tokenVars, trailVars, panelVars, appVars, part>>

Spec == Init /\ [][Next]_vars

-----------------------------------------------------------------------------
\* OAuthLink: a state leads to one link at most, and a link is made by the
\* session that asked for it, in time.
LinkIsEarned == Link!LinkIsEarned

\* InstallationToken: the cached token is kept with its own expiry.
TokenHasItsExpiry == Token!TokenHasItsExpiry

\* InstallationToken: answers keep to the allowlist of their authorisation.
AnswersAreAllowed == Token!AnswersAreAllowed

\* AuditTrail: the pages list every record once that was there at the
\* beginning, in one descending order.
ListingIsComplete == Trail!ListingIsComplete

\* ReadPanel: what is shown as ready is what the screen was last given.
ShowsItsTarget == Panel!ShowsItsTarget

\* MobileSession: an empty store behind the screens is noticed.
EmptyStoreIsNoticed == App!EmptyStoreIsNoticed

=============================================================================
