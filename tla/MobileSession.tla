---------------------------- MODULE MobileSession ----------------------------
(***************************************************************************)
(* The session of the mobile client: the cookie in the secure store, the   *)
(* navigator that shows the login or the screens behind it, and the        *)
(* requests of those screens, each with the cookie that was stored when it *)
(* was sent.  A request is not cancelled when its screen goes: its 401     *)
(* clears what is stored by then, and its answer is used.  The store may   *)
(* throw whenever it is used.                                              *)
(*                                                                         *)
(* Of the requests, a binding is followed through its route.  A cookie is  *)
(* named by the number of its login.                                       *)
(***************************************************************************)
EXTENDS Naturals

CONSTANTS
    Users,
    Workspaces,
    MaxLogins,   \* bound: sessions created
    MaxRequests  \* bound: requests of the screens

Cookies == 1..MaxLogins
Requests == 1..MaxRequests

VARIABLES
    \* sessions: how many were created, whose they are, those still valid;
    \* room_bindings of one room, by user
    created, userOf, valid, binding,
    \* the secure store (0: empty)
    stored,
    \* the navigator: hasSession and boundRoom (user and workspace, at most
    \* one), how often the screens behind the login were mounted; the rooms
    \* are loaded
    restoring, hasSession, boundRoom, visit, rooms,
    login,  \* where LoginScreen's submit stands
    \* per request: position, cookie, what it asks for, the visit it is of;
    \* those whose screen was told that they failed; ghost: those for which the
    \* store threw when it was to be read
    pc, cookie, asks, visitOf, lost, unread

server == <<created, userOf, valid, binding>>
navigator == <<restoring, hasSession, boundRoom, visit, rooms>>
requests == <<cookie, asks, visitOf, lost, unread>>
vars == <<server, stored, navigator, login, pc, requests>>

\* A workspace stands for the binding of the room to it.
Calls == {"rooms", "workspace"} \cup Workspaces

\* The app is started, with the cookie of an earlier login or without one.
Init ==
    /\ stored \in {0, 1}
    /\ created = stored
    /\ userOf \in [Cookies -> Users]
    /\ valid \in {{}, 1..stored}
    /\ binding = [u \in Users |-> {}]
    /\ restoring = TRUE /\ hasSession = FALSE /\ boundRoom = {}
    /\ visit = 0 /\ rooms = FALSE
    /\ login = "idle"
    /\ pc = [q \in Requests |-> "unused"]
    /\ cookie = [q \in Requests |-> 0]
    /\ asks = [q \in Requests |-> "rooms"]
    /\ visitOf = [q \in Requests |-> 0]
    /\ lost = {} /\ unread = {}

-----------------------------------------------------------------------------
Goto(q, position) == pc' = [pc EXCEPT ![q] = position]

Call(q, what, of) ==
    /\ pc[q] = "unused"
    /\ \A p \in 1..(q - 1) : pc[p] # "unused"
    /\ Goto(q, "load")
    /\ asks' = [asks EXCEPT ![q] = what]
    /\ visitOf' = [visitOf EXCEPT ![q] = of]
    /\ UNCHANGED <<cookie, lost, unread>>

LoadsNothing(q) == UNCHANGED <<pc, requests>>  \* wrong: the user refreshes

\* The effect of RoomBindingScreen.
LoadsRooms(q) == Call(q, "rooms", visit + 1)

\* The screens behind the login are mounted, RoomBinding in front.
Mount(q) ==
    /\ hasSession' = TRUE
    /\ visit' = visit + 1
    /\ rooms' = FALSE
    /\ LoadsRooms(q)

\* Nothing is stored, or the store throws: the login is shown.
Restore(q) ==
    /\ restoring
    /\ restoring' = FALSE
    /\ \/ stored # 0 /\ Mount(q)
       \/ UNCHANGED <<hasSession, visit, rooms, pc, requests>>
    /\ UNCHANGED <<server, stored, boundRoom, login>>

SignIn ==
    /\ ~restoring /\ ~hasSession
    /\ login = "idle"
    /\ login' = "ask"
    /\ UNCHANGED <<server, stored, navigator, pc, requests>>

\* whoami, then createSession; or an error.
CreateSession ==
    /\ login = "ask"
    /\ \/ /\ created < MaxLogins
          /\ created' = created + 1
          /\ valid' = valid \cup {created'}
          /\ login' = "save"
       \/ login' = "idle" /\ UNCHANGED <<created, valid>>
    /\ UNCHANGED <<userOf, binding, stored, navigator, pc, requests>>

\* Without a cookie in the answer, or when the store throws, the login fails
\* although the session is there.
Save ==
    /\ login = "save"
    /\ \/ stored' = created /\ login' = "arrive"
       \/ login' = "idle" /\ UNCHANGED stored
    /\ UNCHANGED <<server, navigator, pc, requests>>

Arrive(q) ==
    /\ login = "arrive"
    /\ login' = "idle"
    /\ Mount(q)
    /\ UNCHANGED <<server, stored, restoring, boundRoom>>

\* Expiry, or DELETE /api/auth/session.
EndSession(n) ==
    /\ n \in valid
    /\ valid' = valid \ {n}
    /\ UNCHANGED <<created, userOf, binding, stored, navigator, login, pc,
                   requests>>

-----------------------------------------------------------------------------
(* The requests of the screens.                                            *)

\* Each button is disabled while its own request is awaited.
Ask(q, what) ==
    /\ hasSession
    /\ what \in Workspaces => rooms
    /\ \A p \in Requests \ lost :
           visitOf[p] = visit /\ pc[p] \notin {"unused", "done"} =>
               asks[p] # what /\ ~({asks[p], what} \subseteq Workspaces)
    /\ Call(q, what, visit)
    /\ UNCHANGED <<server, stored, navigator, login>>

ThrowsOnly(q) == Goto(q, "done")  \* wrong: the user is left where he is

Invalidates(q) == Goto(q, "clear")

\* authenticatedRaw: without a session the user is sent to the login.  When
\* the store throws, the request fails and that is all.
Load(q) ==
    /\ pc[q] = "load"
    /\ \/ /\ cookie' = [cookie EXCEPT ![q] = stored]
          /\ \/ stored = 0 /\ Invalidates(q)
             \/ stored # 0 /\ Goto(q, "serve")
          /\ UNCHANGED unread
       \/ /\ unread' = unread \cup {q}
          /\ Goto(q, "done")
          /\ UNCHANGED cookie
    /\ UNCHANGED <<server, stored, navigator, login, asks, visitOf, lost>>

\* getSessionByOpaqueId: neither revoked nor expired.
Current(q) == cookie[q] \in valid

\* The list of rooms and a new workspace are answered at once.
Serve(q) == Goto(q, IF asks[q] \in Workspaces THEN "bind" ELSE "answer")

\* requireSession; the homeserver may refuse the token of a valid session.
Authenticate(q) ==
    /\ pc[q] = "serve"
    /\ \/ Current(q) /\ Serve(q)
       \/ Goto(q, "clear")
    /\ UNCHANGED <<server, stored, navigator, login, requests>>

\* Access to the workspace, membership in the room, then the upsert; or no.
Bind(q) ==
    /\ pc[q] = "bind"
    /\ \/ /\ binding' = [binding EXCEPT ![userOf[cookie[q]]] = {asks[q]}]
          /\ Goto(q, "answer")
       \/ Goto(q, "done") /\ UNCHANGED binding
    /\ UNCHANGED <<created, userOf, valid, stored, navigator, login, requests>>

\* The screen may be gone: only the navigator's onBound outlives it.
Answer(q) ==
    /\ pc[q] = "answer"
    /\ Goto(q, "done")
    /\ rooms' = (rooms \/ (asks[q] = "rooms" /\ visitOf[q] = visit /\ q \notin lost))
    /\ boundRoom' = IF asks[q] \in Workspaces /\ q \notin lost
                    THEN {<<userOf[cookie[q]], asks[q]>>} ELSE boundRoom
    /\ UNCHANGED <<server, stored, restoring, hasSession, visit, login,
                   requests>>

\* The connection breaks; the route may go on, and its answer is not heard.
LoseAnswer(q) ==
    /\ pc[q] \in {"serve", "bind", "answer"}
    /\ q \notin lost
    /\ lost' = lost \cup {q}
    /\ UNCHANGED <<server, stored, navigator, login, pc, cookie, asks, visitOf,
                   unread>>

\* expireControlPlaneSession: whatever is stored by now goes, or stays when
\* the store throws.  A 401 that was not heard clears nothing.
Clear(q) ==
    /\ pc[q] = "clear"
    /\ \/ q \notin lost /\ stored' = 0 /\ Goto(q, "reset")
       \/ q \notin lost /\ UNCHANGED stored /\ Goto(q, "reset")
       \/ q \in lost /\ UNCHANGED stored /\ Goto(q, "done")
    /\ UNCHANGED <<server, navigator, login, requests>>

\* handleUnauthorized.
Reset(q) ==
    /\ pc[q] = "reset"
    /\ hasSession' = FALSE
    /\ boundRoom' = {}
    /\ Goto(q, "done")
    /\ UNCHANGED <<server, stored, restoring, visit, rooms, login, requests>>

Next ==
    \/ SignIn \/ CreateSession \/ Save
    \/ \E n \in Cookies : EndSession(n)
    \/ \E q \in Requests :
        \/ Restore(q) \/ Arrive(q)
        \/ \E what \in Calls : Ask(q, what)
        \/ Load(q) \/ Authenticate(q) \/ Bind(q) \/ Answer(q) \/ LoseAnswer(q)
        \/ Clear(q) \/ Reset(q)

Spec == Init /\ [][Next]_vars

-----------------------------------------------------------------------------
\* The screens behind the login are not shown over an empty store, whichever
\* late 401 emptied it during or after a new login, unless a request is on
\* its way that leads back to the login or else the store itself threw in
\* this visit: then no rooms were loaded either.
EmptyStoreIsNoticed ==
    hasSession /\ stored = 0 =>
        \/ \E q \in Requests : pc[q] \in {"load", "clear", "reset"} /\ q \notin lost
        \/ ~rooms /\ \E q \in unread : visitOf[q] = visit

=============================================================================
