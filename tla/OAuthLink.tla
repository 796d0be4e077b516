------------------------------ MODULE OAuthLink ------------------------------
(***************************************************************************)
(* Linking a GitHub account: the start route stores a state for one use,   *)
(* the callback route takes it, trades the code for a token, asks GitHub   *)
(* whose it is and writes the link.  The browser may deliver a callback    *)
(* twice, late, or under another session of the user or of another user.   *)
(*                                                                         *)
(* A state is named by the number of its start.  Encryption, signatures    *)
(* and the shape of GitHub's answers are left out; an answer of the wrong  *)
(* shape is a refusal.                                                     *)
(***************************************************************************)
EXTENDS Naturals

CONSTANTS
    Sessions,   \* session opaque ids
    UserOf,     \* [Sessions -> users]
    Subjects,   \* GitHub accounts
    MaxStarts,  \* bound: states issued
    Callbacks   \* requests to the callback route

Users == {UserOf[s] : s \in Sessions}
States == 1..MaxStarts

VARIABLES
    \* github_links rows with the scope oauth_state: issued by session s, and
    \* past expires_at or not; how many were issued
    issuer, stored, expired, started,
    \* github_links by user and oauth_subject: the state it came from (0: none)
    link,
    \* per callback: position, session, state, GitHub account
    pc, session, state, subject,
    \* ghost: the links each state led to, and those it led to wrongly: under
    \* another session, or taken after its TTL
    links, misled

stateRows == <<issuer, stored, expired, started>>
callbacks == <<session, state, subject>>
vars == <<stateRows, link, pc, callbacks, links, misled>>

\* Whose state or callback it is, before there is one.
Anyone == CHOOSE s \in Sessions : TRUE

Init ==
    /\ issuer = [n \in States |-> Anyone]
    /\ stored = {} /\ expired = {} /\ started = 0
    /\ link = [u \in Users |-> [g \in Subjects |-> 0]]
    /\ pc = [c \in Callbacks |-> "new"]
    /\ session = [c \in Callbacks |-> Anyone]
    /\ state = [c \in Callbacks |-> 0]
    /\ subject = [c \in Callbacks |-> CHOOSE g \in Subjects : TRUE]
    /\ links = [n \in States |-> 0]
    /\ misled = {}

-----------------------------------------------------------------------------
\* put: the user's expired states go, the new one comes.
Start(s) ==
    /\ started < MaxStarts
    /\ started' = started + 1
    /\ issuer' = [issuer EXCEPT ![started'] = s]
    /\ stored' = {n \in stored : n \in expired => UserOf[issuer[n]] # UserOf[s]}
                     \cup {started'}
    /\ UNCHANGED <<expired, link, pc, callbacks, links, misled>>

\* The TTL of ten minutes passes.
Expire(n) ==
    /\ n \in 1..started \ expired
    /\ expired' = expired \cup {n}
    /\ UNCHANGED <<issuer, stored, started, link, pc, callbacks, links, misled>>

Goto(c, position) == pc' = [pc EXCEPT ![c] = position]

\* GitHub sends the browser back with a state it was given.
Deliver(c, n, s) ==
    /\ pc[c] = "new"
    /\ n <= started
    /\ session' = [session EXCEPT ![c] = s]
    /\ Goto(c, "take")
    /\ state' = [state EXCEPT ![c] = n]
    /\ UNCHANGED <<stateRows, link, subject, links, misled>>

\* Row-level security and the query: only the states of the session's user.
Found(c) ==
    /\ state[c] \in stored
    /\ UserOf[issuer[state[c]]] = UserOf[session[c]]

Keep(c) == stored  \* wrong: read, not taken

Remove(c) == stored \ {state[c]}

AnySession(c) == TRUE  \* wrong: the user is enough

IssuedHere(c) == issuer[state[c]] = session[c]

\* consume: the state is gone whether or not it is then accepted.
Take(c) ==
    /\ pc[c] = "take"
    /\ IF Found(c)
       THEN /\ stored' = Remove(c)
            /\ Goto(c, IF state[c] \notin expired /\ IssuedHere(c)
                       THEN "exchange" ELSE "refused")
            /\ misled' = IF state[c] \in expired \/ issuer[state[c]] # session[c]
                         THEN misled \cup {c} ELSE misled
       ELSE Goto(c, "refused") /\ UNCHANGED <<stored, misled>>
    /\ UNCHANGED <<issuer, expired, started, link, callbacks, links>>

\* The code for a token, whose scopes are allowed.
Exchange(c) ==
    /\ pc[c] = "exchange"
    /\ Goto(c, "identify")
    /\ UNCHANGED <<stateRows, link, callbacks, links, misled>>

\* GET /user: whom the browser was signed in as at GitHub.
Identify(c, g) ==
    /\ pc[c] = "identify"
    /\ subject' = [subject EXCEPT ![c] = g]
    /\ Goto(c, "upsert")
    /\ UNCHANGED <<stateRows, link, session, state, links, misled>>

\* A request to GitHub fails, or the process dies: the user starts again.
GiveUp(c) ==
    /\ pc[c] \in {"take", "exchange", "identify", "upsert"}
    /\ Goto(c, "refused")
    /\ UNCHANGED <<stateRows, link, callbacks, links, misled>>

\* One link for a user and a subject; a later one replaces its tokens.
Upsert(c) ==
    /\ pc[c] = "upsert"
    /\ link' = [link EXCEPT ![UserOf[session[c]]][subject[c]] = state[c]]
    /\ links' = [links EXCEPT ![state[c]] = @ + 1]
    /\ Goto(c, "linked")
    /\ UNCHANGED <<stateRows, callbacks, misled>>

Next ==
    \/ \E s \in Sessions : Start(s)
    \/ \E n \in States : Expire(n)
    \/ \E c \in Callbacks :
        \/ \E n \in States, s \in Sessions : Deliver(c, n, s)
        \/ \E g \in Subjects : Identify(c, g)
        \/ Take(c) \/ Exchange(c) \/ GiveUp(c) \/ Upsert(c)

Spec == Init /\ [][Next]_vars

-----------------------------------------------------------------------------
\* A state leads to one link at most, however often its callback is delivered,
\* concurrently or later.
OneLinkPerState == \A n \in States : links[n] <= 1

\* A callback that goes on to GitHub came back to the session that started it,
\* in time.
LateIsRefused == \A c \in misled : pc[c] = "refused"

\* A link was asked for by the user it is stored for.
LinkedByItsStarter ==
    \A u \in Users, g \in Subjects :
        link[u][g] # 0 => UserOf[issuer[link[u][g]]] = u

\* What a link is worth: it answers one start, of the same session and user,
\* within its TTL, under replays and deliveries to other sessions.
LinkIsEarned == OneLinkPerState /\ LateIsRefused /\ LinkedByItsStarter

=============================================================================
