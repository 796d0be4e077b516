--------------------------- MODULE ServicesProofs ---------------------------
(***************************************************************************)
(* Theorems about the five parts of Services: for every set of sessions,   *)
(* accounts, callbacks, repositories, requests, installations and loads,   *)
(* and any number of states, tokens, keys, records, pages, logins and      *)
(* requests of the screens.  Each part has an inductive invariant of its   *)
(* own specification.                                                      *)
(***************************************************************************)
EXTENDS Services, SequenceTheorems, TLAPS

-----------------------------------------------------------------------------
(***************************************************************************)
(* The parts do not disturb one another.                                   *)
(***************************************************************************)

LEMMA StepOfOnePart ==
  ASSUME [Next]_vars
  PROVE  /\ [Link!Next]_(Link!vars)
         /\ [Token!Next]_(Token!vars)
         /\ [Trail!Next]_(Trail!vars)
         /\ [Panel!Next]_(Panel!vars)
         /\ [App!Next]_(App!vars)
<1> USE DEF linkVars, tokenVars, trailVars, panelVars, appVars
<1>1. [Link!Next]_(Link!vars)
  BY DEF Next, vars, Link!vars, Link!stateRows, Link!callbacks
<1>2. [Token!Next]_(Token!vars)
  BY DEF Next, vars, Token!vars, Token!installation, Token!keyring, Token!github
<1>3. [Trail!Next]_(Trail!vars)
  BY DEF Next, vars, Trail!vars
<1>4. [Panel!Next]_(Panel!vars)
  BY DEF Next, vars, Panel!vars, Panel!screen, Panel!load
<1>5. [App!Next]_(App!vars)
  BY DEF Next, vars, App!vars, App!server, App!navigator, App!requests
<1> QED
  BY <1>1, <1>2, <1>3, <1>4, <1>5

\* Side by side, each part keeps to its own specification, so that what is
\* proved of a part by itself holds in Services.
THEOREM PartsKeepTheirSpecs ==
  Spec => Link!Spec /\ Token!Spec /\ Trail!Spec /\ Panel!Spec /\ App!Spec
<1>1. Init => Link!Init /\ Token!Init /\ Trail!Init /\ Panel!Init /\ App!Init
  BY DEF Init
<1> QED
  BY <1>1, StepOfOnePart, PTL
     DEF Spec, Link!Spec, Token!Spec, Trail!Spec, Panel!Spec, App!Spec

-----------------------------------------------------------------------------
(***************************************************************************)
(* OAuthLink.                                                              *)
(***************************************************************************)

LinkPositions == {"new", "take", "exchange", "identify", "upsert", "linked",
              "refused"}

Issued == 1..started

LinkTypeOK ==
    /\ started \in 0..MaxStarts
    /\ issuer \in [Link!States -> Sessions \cup {Link!Anyone}]
    /\ stored \in SUBSET Issued
    /\ pcLink \in [Callbacks -> LinkPositions]
    /\ session \in [Callbacks -> Sessions \cup {Link!Anyone}]
    /\ state \in [Callbacks -> Link!States \cup {0}]
    /\ links \in [Link!States -> {0, 1}]
    /\ link \in [Link!Users -> [Subjects -> Link!States \cup {0}]]
    /\ misled \in SUBSET Callbacks

\* A callback whose state was accepted.
InFlight(c) == pcLink[c] \in {"exchange", "identify", "upsert"}

\* An accepted state is gone from the store, has led to no link yet, and is of
\* the session that brought it back.
AcceptedOnce ==
    \A c \in Callbacks :
        InFlight(c) =>
            /\ state[c] \in Issued \ stored
            /\ links[state[c]] = 0
            /\ issuer[state[c]] = session[c]

\* No two callbacks were accepted for one state.
OwnState ==
    \A c, d \in Callbacks :
        InFlight(c) /\ InFlight(d) /\ state[c] = state[d] => c = d

\* A state that can still be accepted has led to no link.
UnusedStates == \A n \in Link!States : n \in stored \/ n \notin Issued => links[n] = 0

LinksIssued ==
    \A u \in Link!Users, g \in Subjects :
        link[u][g] # 0 =>
            link[u][g] \in Issued /\ UserOf[issuer[link[u][g]]] = u

LinkInv ==
    /\ LinkTypeOK
    /\ AcceptedOnce
    /\ OwnState
    /\ UnusedStates
    /\ LinksIssued
    /\ Link!LateIsRefused

-----------------------------------------------------------------------------
LEMMA InitLinkInv ==
  ASSUME Link!Init
  PROVE  LinkInv
<1>1. LinkTypeOK
  BY BoundAssumption DEF Link!Init, LinkTypeOK, LinkPositions, Issued,
     Link!States
<1>2. AcceptedOnce /\ OwnState
  BY DEF Link!Init, AcceptedOnce, OwnState, InFlight
<1>3. UnusedStates /\ LinksIssued /\ Link!LateIsRefused
  BY DEF Link!Init, UnusedStates, LinksIssued, Link!LateIsRefused
<1> QED
  BY <1>1, <1>2, <1>3 DEF LinkInv

LEMMA StartLinkInv ==
  ASSUME LinkInv, NEW s \in Sessions, Link!Start(s)
  PROVE  LinkInv'
<1> USE DEF LinkInv
<1>1. /\ started \in Nat
      /\ started' = started + 1
      /\ started' \in Link!States
      /\ Issued' = Issued \cup {started'}
      /\ started' \notin Issued
  BY BoundAssumption DEF Link!Start, LinkTypeOK, Link!States, Issued
<1>2. /\ stored' \subseteq stored \cup {started'}
      /\ UNCHANGED <<pcLink, session, state, links, link, misled>>
  BY DEF Link!Start, Link!callbacks
<1>3. /\ issuer' \in [Link!States -> Sessions \cup {Link!Anyone}]
      /\ \A n \in Issued : issuer'[n] = issuer[n]
  BY <1>1 DEF Link!Start, LinkTypeOK, Link!States, Issued
<1>4. LinkTypeOK'
  <2>1. started' \in 0..MaxStarts
    BY <1>1 DEF Link!States
  <2>2. stored' \in SUBSET Issued'
    BY <1>1, <1>2 DEF LinkTypeOK
  <2> QED
    BY <1>2, <1>3, <2>1, <2>2 DEF LinkTypeOK
<1>5. AcceptedOnce'
  <2> SUFFICES ASSUME NEW c \in Callbacks, InFlight(c)
               PROVE  /\ state[c] \in Issued' \ stored'
                      /\ links[state[c]] = 0
                      /\ issuer'[state[c]] = session[c]
    BY <1>2 DEF AcceptedOnce, InFlight
  <2> QED
    BY <1>1, <1>2, <1>3 DEF AcceptedOnce
<1>6. OwnState'
  BY <1>2 DEF OwnState, InFlight
<1>7. UnusedStates'
  BY <1>1, <1>2 DEF UnusedStates
<1>8. LinksIssued'
  BY <1>1, <1>2, <1>3 DEF LinksIssued
<1>9. Link!LateIsRefused'
  BY <1>2 DEF Link!LateIsRefused
<1> QED
  BY <1>4, <1>5, <1>6, <1>7, <1>8, <1>9

LEMMA ExpireLinkInv ==
  ASSUME LinkInv, NEW n \in Link!States, Link!Expire(n)
  PROVE  LinkInv'
<1> USE DEF LinkInv
<1>1. UNCHANGED <<issuer, stored, started, link, pcLink, session, state, links,
                  misled>>
  BY DEF Link!Expire, Link!callbacks
<1>2. LinkTypeOK' /\ UnusedStates' /\ LinksIssued'
  BY <1>1 DEF LinkTypeOK, UnusedStates, LinksIssued, Issued
<1>3. AcceptedOnce' /\ OwnState' /\ Link!LateIsRefused'
  BY <1>1 DEF AcceptedOnce, OwnState, Link!LateIsRefused, InFlight, Issued
<1> QED
  BY <1>2, <1>3

\* A callback that goes to a position in which nothing is accepted.
LEMMA LeaveLinkInv ==
  ASSUME LinkInv, NEW c \in Callbacks,
         NEW position \in LinkPositions \ {"exchange", "identify", "upsert"},
         Link!Goto(c, position), c \in misled => position = "refused",
         \A d \in Callbacks \ {c} : state'[d] = state[d] /\ session'[d] = session[d],
         state' \in [Callbacks -> Link!States \cup {0}],
         session' \in [Callbacks -> Sessions \cup {Link!Anyone}],
         UNCHANGED <<issuer, stored, started, link, links, misled>>
  PROVE  LinkInv'
<1> USE DEF LinkInv
<1>1. /\ pcLink' \in [Callbacks -> LinkPositions]
      /\ pcLink'[c] = position
      /\ \A d \in Callbacks \ {c} : pcLink'[d] = pcLink[d]
  BY DEF Link!Goto, LinkTypeOK
<1>2. \A d \in Callbacks :
          InFlight(d)' => /\ d # c /\ InFlight(d)
                          /\ state'[d] = state[d] /\ session'[d] = session[d]
  BY <1>1 DEF InFlight, LinkPositions
<1>3. LinkTypeOK' /\ UnusedStates' /\ LinksIssued'
  BY <1>1 DEF LinkTypeOK, Issued, UnusedStates, LinksIssued
<1>4. AcceptedOnce' /\ OwnState'
  BY <1>2 DEF AcceptedOnce, OwnState, Issued
<1>5. Link!LateIsRefused'
  BY <1>1 DEF Link!LateIsRefused, LinkTypeOK
<1> QED
  BY <1>3, <1>4, <1>5

LEMMA DeliverLinkInv ==
  ASSUME LinkInv, NEW c \in Callbacks, NEW n \in Link!States, NEW s \in Sessions,
         Link!Deliver(c, n, s)
  PROVE  LinkInv'
<1>1. /\ \A d \in Callbacks \ {c} :
             state'[d] = state[d] /\ session'[d] = session[d]
      /\ state' \in [Callbacks -> Link!States \cup {0}]
      /\ session' \in [Callbacks -> Sessions \cup {Link!Anyone}]
  BY DEF LinkInv, LinkTypeOK, Link!Deliver
<1>2. c \notin misled
  BY DEF LinkInv, Link!LateIsRefused, Link!Deliver
<1> QED
  BY <1>1, <1>2, LeaveLinkInv DEF Link!Deliver, Link!stateRows, LinkPositions

LEMMA GiveUpLinkInv ==
  ASSUME LinkInv, NEW c \in Callbacks, Link!GiveUp(c)
  PROVE  LinkInv'
<1>1. c \notin misled
  BY DEF LinkInv, Link!LateIsRefused, Link!GiveUp
<1>2. /\ Link!Goto(c, "refused")
      /\ UNCHANGED <<issuer, stored, started, link, session, state, links,
                     misled>>
  BY DEF Link!GiveUp, Link!stateRows, Link!callbacks
<1>3. /\ state \in [Callbacks -> Link!States \cup {0}]
      /\ session \in [Callbacks -> Sessions \cup {Link!Anyone}]
  BY DEF LinkInv, LinkTypeOK
<1> QED
  BY <1>1, <1>2, <1>3, LeaveLinkInv DEF LinkPositions

\* A callback that goes on from one accepted position to the next.
LEMMA AdvanceLinkInv ==
  ASSUME LinkInv, NEW c \in Callbacks,
         NEW position \in {"identify", "upsert"},
         InFlight(c), Link!Goto(c, position),
         UNCHANGED <<Link!stateRows, link, session, state, links, misled>>
  PROVE  LinkInv'
<1> USE DEF LinkInv, Link!stateRows
<1>1. /\ pcLink' \in [Callbacks -> LinkPositions]
      /\ pcLink'[c] = position
      /\ \A d \in Callbacks \ {c} : pcLink'[d] = pcLink[d]
  BY DEF Link!Goto, LinkTypeOK, LinkPositions
<1>2. \A d \in Callbacks : InFlight(d)' => InFlight(d)
  BY <1>1 DEF InFlight
<1>3. LinkTypeOK' /\ UnusedStates' /\ LinksIssued'
  BY <1>1 DEF LinkTypeOK, Issued, UnusedStates, LinksIssued
<1>4. AcceptedOnce' /\ OwnState'
  BY <1>2 DEF AcceptedOnce, OwnState, Issued
<1>5. Link!LateIsRefused'
  BY <1>1 DEF Link!LateIsRefused, InFlight, LinkTypeOK
<1> QED
  BY <1>3, <1>4, <1>5

LEMMA ExchangeLinkInv ==
  ASSUME LinkInv, NEW c \in Callbacks, Link!Exchange(c)
  PROVE  LinkInv'
BY AdvanceLinkInv DEF Link!Exchange, InFlight, Link!callbacks

LEMMA IdentifyLinkInv ==
  ASSUME LinkInv, NEW c \in Callbacks, NEW g \in Subjects, Link!Identify(c, g)
  PROVE  LinkInv'
BY AdvanceLinkInv DEF Link!Identify, InFlight

LEMMA TakeLinkInv ==
  ASSUME LinkInv, NEW c \in Callbacks, Link!Take(c)
  PROVE  LinkInv'
<1> USE DEF LinkInv
<1>1. CASE ~Link!Found(c)
  <2>1. Link!Goto(c, "refused") /\ UNCHANGED <<stored, misled>>
    BY <1>1 DEF Link!Take
  <2> QED
    BY <2>1, LeaveLinkInv DEF Link!Take, LinkTypeOK, Link!callbacks,
       LinkPositions
<1>2. CASE Link!Found(c)
  <2>1. /\ state[c] \in stored
        /\ stored' = stored \ {state[c]}
        /\ UNCHANGED <<issuer, expired, started, link, session, state, links>>
    BY <1>2 DEF Link!Take, Link!Found, Link!Remove, Link!callbacks
  <2>2. /\ pcLink' \in [Callbacks -> LinkPositions]
        /\ \A d \in Callbacks \ {c} : pcLink'[d] = pcLink[d]
        /\ pcLink'[c] = IF state[c] \notin expired /\ issuer[state[c]] = session[c]
                    THEN "exchange" ELSE "refused"
    BY <1>2 DEF Link!Take, Link!Goto, LinkTypeOK, LinkPositions, Link!IssuedHere
  <2>3. \A d \in Callbacks \ {c} :
            InFlight(d) => state[d] # state[c]
    BY <2>1 DEF AcceptedOnce
  <2>4. \A d \in Callbacks \ {c} : InFlight(d)' <=> InFlight(d)
    BY <2>2 DEF InFlight
  <2>5. state[c] \in Issued /\ state[c] \in Link!States /\ links[state[c]] = 0
    BY <2>1 DEF LinkTypeOK, Issued, Link!States, UnusedStates
  <2>6. LinkTypeOK'
    <3>1. misled' \in SUBSET Callbacks
      BY <1>2 DEF Link!Take, LinkTypeOK
    <3> QED
      BY <2>1, <2>2, <3>1 DEF LinkTypeOK, Issued
  <2>7. AcceptedOnce'
    <3>1. InFlight(c)' => issuer[state[c]] = session[c]
      BY <2>2 DEF InFlight
    <3> QED
      BY <2>1, <2>4, <2>5, <3>1 DEF AcceptedOnce, Issued
  <2>8. OwnState'
    BY <2>1, <2>3, <2>4 DEF OwnState
  <2>9. UnusedStates' /\ LinksIssued'
    BY <2>1 DEF UnusedStates, LinksIssued, Issued
  <2>10. Link!LateIsRefused'
    <3>1. c \in misled' => pcLink'[c] = "refused"
      BY <1>2, <2>2 DEF Link!Take, Link!LateIsRefused
    <3>2. misled' \subseteq misled \cup {c}
      BY <1>2 DEF Link!Take
    <3>3. misled \subseteq Callbacks
      BY DEF LinkTypeOK
    <3> QED
      BY <2>2, <3>1, <3>2, <3>3 DEF Link!LateIsRefused
  <2> QED
    BY <2>6, <2>7, <2>8, <2>9, <2>10
<1> QED
  BY <1>1, <1>2

LEMMA UpsertLinkInv ==
  ASSUME LinkInv, NEW c \in Callbacks, Link!Upsert(c)
  PROVE  LinkInv'
<1> USE DEF LinkInv
<1> DEFINE n == state[c]
           u == UserOf[session[c]]
<1>1. /\ InFlight(c) /\ n \in Issued \ stored /\ links[n] = 0
      /\ issuer[n] = session[c]
  BY DEF Link!Upsert, AcceptedOnce, InFlight
<1>2. n \in Link!States /\ n # 0
  BY <1>1 DEF LinkTypeOK, Issued, Link!States
<1>3. /\ links' \in [Link!States -> {0, 1}]
      /\ \A m \in Link!States \ {n} : links'[m] = links[m]
  BY <1>1, <1>2 DEF Link!Upsert, LinkTypeOK
<1>4. /\ pcLink' \in [Callbacks -> LinkPositions]
      /\ pcLink'[c] = "linked"
      /\ \A d \in Callbacks \ {c} : pcLink'[d] = pcLink[d]
      /\ UNCHANGED <<issuer, stored, started, session, state, misled>>
  BY DEF Link!Upsert, Link!Goto, LinkTypeOK, LinkPositions, Link!stateRows,
     Link!callbacks
<1>5. \A d \in Callbacks : InFlight(d)' => InFlight(d) /\ d # c
  BY <1>4 DEF InFlight
<1>6. /\ link' \in [Link!Users -> [Subjects -> Link!States \cup {0}]]
      /\ \A v \in Link!Users, g \in Subjects :
             \/ link'[v][g] = link[v][g]
             \/ link'[v][g] = n /\ v = u
  <2>1. link' = [link EXCEPT ![u] = [link[u] EXCEPT ![subject[c]] = n]]
    BY DEF Link!Upsert
  <2>2. \A v \in Link!Users : link'[v] = IF v = u THEN [link[u] EXCEPT ![subject[c]] = n]
                                            ELSE link[v]
    BY <2>1 DEF LinkTypeOK
  <2>3. \A v \in Link!Users : link'[v] \in [Subjects -> Link!States \cup {0}]
    BY <1>2, <2>2 DEF LinkTypeOK
  <2>4. link' \in [Link!Users -> [Subjects -> Link!States \cup {0}]]
    BY <2>1, <2>3 DEF LinkTypeOK
  <2>5. ASSUME NEW v \in Link!Users, NEW g \in Subjects
        PROVE  \/ link'[v][g] = link[v][g]
               \/ link'[v][g] = n /\ v = u
    <3>1. CASE v = u
      BY <2>2, <3>1 DEF LinkTypeOK
    <3>2. CASE v # u
      BY <2>2, <3>2
    <3> QED
      BY <3>1, <3>2
  <2> QED
    BY <2>4, <2>5
<1>7. LinkTypeOK'
  BY <1>3, <1>4, <1>6 DEF LinkTypeOK, Issued
<1>8. OwnState'
  BY <1>4, <1>5 DEF OwnState
<1>9. AcceptedOnce'
  <2> SUFFICES ASSUME NEW d \in Callbacks, InFlight(d)'
               PROVE  /\ state[d] \in Issued \ stored
                      /\ links'[state[d]] = 0
                      /\ issuer[state[d]] = session[d]
    BY <1>4 DEF AcceptedOnce, Issued
  <2>1. InFlight(d) /\ d # c
    BY <1>5
  <2>2. state[d] # n /\ state[d] \in Link!States
    BY <1>1, <2>1 DEF OwnState, AcceptedOnce, LinkTypeOK, Issued, Link!States
  <2> QED
    BY <1>3, <2>1, <2>2 DEF AcceptedOnce
<1>10. UnusedStates'
  BY <1>1, <1>3, <1>4 DEF UnusedStates, Issued
<1>11. LinksIssued'
  BY <1>1, <1>4, <1>6 DEF LinksIssued, Issued
<1>12. Link!LateIsRefused'
  BY <1>4 DEF Link!LateIsRefused, Link!Upsert, LinkTypeOK
<1> QED
  BY <1>7, <1>8, <1>9, <1>10, <1>11, <1>12

LEMMA NextLinkInv ==
  ASSUME LinkInv, [Link!Next]_(Link!vars)
  PROVE  LinkInv'
<1>1. CASE UNCHANGED Link!vars
  BY <1>1 DEF Link!vars, Link!stateRows, Link!callbacks, LinkInv, LinkTypeOK,
     Issued,
     AcceptedOnce, OwnState, UnusedStates, LinksIssued, Link!LateIsRefused, InFlight
<1>2. ASSUME NEW s \in Sessions, Link!Start(s) PROVE LinkInv'
  BY <1>2, StartLinkInv
<1>3. ASSUME NEW n \in Link!States, Link!Expire(n) PROVE LinkInv'
  BY <1>3, ExpireLinkInv
<1>4. ASSUME NEW c \in Callbacks,
             \/ \E n \in Link!States, s \in Sessions : Link!Deliver(c, n, s)
             \/ \E g \in Subjects : Link!Identify(c, g)
             \/ Link!Take(c) \/ Link!Exchange(c) \/ Link!GiveUp(c) \/ Link!Upsert(c)
      PROVE  LinkInv'
  BY <1>4, DeliverLinkInv, IdentifyLinkInv, TakeLinkInv, ExchangeLinkInv,
     GiveUpLinkInv, UpsertLinkInv
<1> QED
  BY <1>1, <1>2, <1>3, <1>4 DEF Link!Next

-----------------------------------------------------------------------------
\* The invariant of the stored states and the callbacks that took them
\* (createDatabaseOAuthStateStore, createGithubOAuthStateService).
THEOREM LinkInvariantHolds == Link!Spec => []LinkInv
<1>1. Link!Init => LinkInv
  BY InitLinkInv
<1>2. LinkInv /\ [Link!Next]_(Link!vars) => LinkInv'
  BY NextLinkInv
<1> QED
  BY <1>1, <1>2, PTL DEF Link!Spec

\* A state leads to one link at most, a late or foreign callback to none, and
\* a link is of the user who asked for it, whatever callbacks are repeated.
THEOREM LinkIsEarnedHolds == Spec => []LinkIsEarned
<1>1. LinkInv => LinkIsEarned
  <2> SUFFICES ASSUME LinkInv PROVE LinkIsEarned
    OBVIOUS
  <2>1. Link!OneLinkPerState
    <3> SUFFICES ASSUME NEW n \in Link!States PROVE links[n] <= 1
      BY DEF Link!OneLinkPerState
    <3>1. links[n] \in {0, 1}
      BY DEF LinkInv, LinkTypeOK
    <3> QED
      BY <3>1
  <2>2. Link!LinkedByItsStarter
    BY DEF LinkInv, LinksIssued, Link!LinkedByItsStarter
  <2> QED
    BY <2>1, <2>2 DEF LinkInv, LinkIsEarned, Link!LinkIsEarned
<1> QED
  BY <1>1, LinkInvariantHolds, PartsKeepTheirSpecs, PTL

-----------------------------------------------------------------------------
(***************************************************************************)
(* InstallationToken.                                                      *)
(***************************************************************************)

TokenPositions == {"new", "acquire", "rotate", "store", "read", "answered", "refused"}

Rows == [allowlist : SUBSET Repositories, token : Nat, expiry : Nat,
         version : Nat]

Wanted == Repositories \cup {"all"}

TokenTypeOK ==
    /\ allowlist \in SUBSET Repositories
    /\ token \in Nat /\ expiry \in Nat /\ version \in Nat
    /\ current \in Nat
    /\ issued \in Nat
    /\ pcRead \in [Reads -> TokenPositions]
    /\ wanted \in [Reads -> Wanted]
    /\ row \in [Reads -> Rows]
    /\ using \in [Reads -> Nat]
    /\ answered \in [Reads -> SUBSET Repositories]

\* What every request holds is a pair that was in the row together, so that
\* writing it back cannot part a token from its expiry.
PairsKept ==
    /\ token = expiry
    /\ \A q \in Reads : row[q].token = row[q].expiry

\* A request that was not refused works on something its row allows.
WantsAllowed ==
    \A q \in Reads :
        pcRead[q] \notin {"new", "refused"} =>
            wanted[q] \in row[q].allowlist \cup {"all"}

AnsweredAllowed ==
    \A q \in Reads :
        /\ answered[q] \subseteq row[q].allowlist
        /\ pcRead[q] = "new" => answered[q] = {}

\* What a request does to itself.
RequestsKept ==
    WantsAllowed /\ AnsweredAllowed /\ pcRead \in [Reads -> TokenPositions]

TokenInv == TokenTypeOK /\ PairsKept /\ WantsAllowed /\ AnsweredAllowed

-----------------------------------------------------------------------------
LEMMA InitTokenInv == Token!Init => TokenInv
<1> SUFFICES ASSUME Token!Init PROVE TokenInv
  OBVIOUS
<1>1. /\ Token!Row \in Rows /\ Token!Row.token = Token!Row.expiry
      /\ Token!Row.allowlist = Repositories
  BY DEF Token!Init, Token!Row, Rows
<1>2. TokenTypeOK
  BY <1>1 DEF Token!Init, TokenTypeOK, TokenPositions, Wanted
<1>3. PairsKept
  BY <1>1 DEF Token!Init, PairsKept
<1>4. WantsAllowed /\ AnsweredAllowed
  BY <1>1 DEF Token!Init, WantsAllowed, AnsweredAllowed
<1> QED
  BY <1>2, <1>3, <1>4 DEF TokenInv

\* What happens around the requests touches nothing they hold.
LEMMA SurroundingsTokenInv ==
  ASSUME TokenInv,
         \/ \E repositories \in SUBSET Repositories : Token!Allow(repositories)
         \/ \E t \in Token!Tokens : Token!Age(t)
         \/ Token!RotateKey
  PROVE  TokenInv'
<1>1. TokenTypeOK'
  <2>1. CASE \E repositories \in SUBSET Repositories : Token!Allow(repositories)
    BY <2>1 DEF TokenInv, TokenTypeOK, Token!Allow, Token!keyring, Token!github
  <2>2. CASE \E t \in Token!Tokens : Token!Age(t)
    BY <2>2 DEF TokenInv, TokenTypeOK, Token!Age, Token!installation,
       Token!keyring
  <2>3. CASE Token!RotateKey
    BY <2>3 DEF TokenInv, TokenTypeOK, Token!RotateKey, Token!installation,
       Token!github
  <2> QED
    BY <2>1, <2>2, <2>3
<1>2. UNCHANGED <<token, expiry, pcRead, wanted, row, answered>>
  BY DEF Token!Allow, Token!Age, Token!RotateKey, Token!installation,
     Token!keyring, Token!github
<1>3. PairsKept' /\ WantsAllowed' /\ AnsweredAllowed'
  BY <1>2 DEF TokenInv, PairsKept, WantsAllowed, AnsweredAllowed
<1> QED
  BY <1>1, <1>3 DEF TokenInv

LEMMA AuthorizeTokenInv ==
  ASSUME TokenInv, NEW q \in Reads, NEW asked \in Wanted,
         Token!Authorize(q, asked)
  PROVE  TokenInv'
<1> USE DEF TokenInv
<1>1. /\ Token!Row \in Rows /\ Token!Row.token = Token!Row.expiry
      /\ Token!Row.allowlist = allowlist
  BY DEF TokenTypeOK, PairsKept, Token!Row, Rows
<1>2. /\ row'[q] = Token!Row /\ wanted'[q] = asked
      /\ \A p \in Reads \ {q} :
             row'[p] = row[p] /\ wanted'[p] = wanted[p] /\ pcRead'[p] = pcRead[p]
      /\ pcRead'[q] = IF asked \in allowlist \cup {"all"}
                  THEN "acquire" ELSE "refused"
      /\ UNCHANGED <<answered, token, expiry, using, issued, current, version,
                     allowlist>>
  BY DEF Token!Authorize, Token!Goto, TokenTypeOK, Token!installation,
     Token!keyring, Token!github
<1>3. TokenTypeOK'
  BY <1>1 DEF Token!Authorize, Token!Goto, TokenTypeOK, TokenPositions,
     Token!installation, Token!keyring, Token!github
<1>4. PairsKept'
  BY <1>1, <1>2 DEF PairsKept
<1>5. WantsAllowed'
  BY <1>1, <1>2 DEF WantsAllowed
<1>6. AnsweredAllowed'
  <2>1. answered[q] = {}
    BY DEF Token!Authorize, AnsweredAllowed
  <2> QED
    BY <1>2, <2>1 DEF AnsweredAllowed
<1> QED
  BY <1>3, <1>4, <1>5, <1>6

\* A request that moves on without a new row and without an answer.
LEMMA MoveTokenInv ==
  ASSUME TokenInv, NEW q \in Reads, NEW position \in TokenPositions \ {"new"},
         pcRead[q] \notin {"new", "refused"}, Token!Goto(q, position),
         UNCHANGED <<wanted, row, answered>>
  PROVE  RequestsKept'
<1>1. /\ pcRead'[q] = position
      /\ \A p \in Reads \ {q} : pcRead'[p] = pcRead[p]
      /\ pcRead' \in [Reads -> TokenPositions]
  BY DEF TokenInv, TokenTypeOK, Token!Goto
<1>2. WantsAllowed'
  BY <1>1 DEF TokenInv, WantsAllowed
<1>3. AnsweredAllowed'
  BY <1>1 DEF TokenInv, AnsweredAllowed
<1> QED
  BY <1>1, <1>2, <1>3 DEF RequestsKept

LEMMA UseCachedTokenInv ==
  ASSUME TokenInv, NEW q \in Reads, Token!UseCached(q)
  PROVE  TokenInv'
<1>1. Token!AfterDecrypt(q) \in TokenPositions \ {"new"}
  BY DEF Token!AfterDecrypt, TokenPositions
<1>2. RequestsKept'
  BY <1>1, MoveTokenInv DEF Token!UseCached
<1>3. row[q].token \in Nat
  BY DEF TokenInv, TokenTypeOK, Rows
<1>4. TokenTypeOK'
  BY <1>2, <1>3 DEF RequestsKept, TokenInv, TokenTypeOK, Token!UseCached,
     Token!installation,
     Token!keyring, Token!github
<1>5. PairsKept'
  BY DEF TokenInv, PairsKept, Token!UseCached, Token!installation
<1> QED
  BY <1>2, <1>4, <1>5 DEF RequestsKept, TokenInv

LEMMA StoreRotatedTokenInv ==
  ASSUME TokenInv, NEW q \in Reads, Token!StoreRotated(q)
  PROVE  TokenInv'
<1>1. RequestsKept'
  BY MoveTokenInv DEF Token!StoreRotated, TokenPositions
<1>2. row[q].token \in Nat /\ row[q].expiry \in Nat
  BY DEF TokenInv, TokenTypeOK, Rows
<1>3. TokenTypeOK'
  BY <1>1, <1>2 DEF RequestsKept, TokenInv, TokenTypeOK, Token!StoreRotated,
     Token!OwnExpiry,
     Token!keyring, Token!github
<1>4. PairsKept'
  BY DEF TokenInv, PairsKept, Token!StoreRotated, Token!OwnExpiry
<1> QED
  BY <1>1, <1>3, <1>4 DEF RequestsKept, TokenInv

LEMMA FetchTokenInv ==
  ASSUME TokenInv, NEW q \in Reads, Token!Fetch(q)
  PROVE  TokenInv'
<1>1. RequestsKept'
  BY MoveTokenInv DEF Token!Fetch, TokenPositions
<1>2. TokenTypeOK'
  BY <1>1 DEF RequestsKept, TokenInv, TokenTypeOK, Token!Fetch,
     Token!installation,
     Token!keyring
<1>3. PairsKept'
  BY DEF TokenInv, PairsKept, Token!Fetch, Token!installation
<1> QED
  BY <1>1, <1>2, <1>3 DEF RequestsKept, TokenInv

LEMMA StoreFetchedTokenInv ==
  ASSUME TokenInv, NEW q \in Reads, Token!StoreFetched(q)
  PROVE  TokenInv'
<1>1. RequestsKept'
  BY MoveTokenInv DEF Token!StoreFetched, TokenPositions
<1>2. TokenTypeOK'
  BY <1>1 DEF RequestsKept, TokenInv, TokenTypeOK, Token!StoreFetched,
     Token!keyring,
     Token!github
<1>3. PairsKept'
  BY DEF TokenInv, PairsKept, Token!StoreFetched
<1> QED
  BY <1>1, <1>2, <1>3 DEF RequestsKept, TokenInv

LEMMA ReadTokenInv ==
  ASSUME TokenInv, NEW q \in Reads, Token!Read(q)
  PROVE  TokenInv'
<1>1. PairsKept'
  BY DEF TokenInv, PairsKept, Token!Read, Token!installation
<1>2. CASE UNCHANGED answered
  <2>1. RequestsKept'
    BY <1>2, MoveTokenInv DEF Token!Read, TokenPositions
  <2>2. TokenTypeOK'
    BY <1>2, <2>1 DEF RequestsKept, TokenInv, TokenTypeOK, Token!Read,
       Token!installation,
       Token!keyring, Token!github
  <2> QED
    BY <1>1, <2>1, <2>2 DEF RequestsKept, TokenInv
<1>3. CASE /\ answered' = [answered EXCEPT ![q] = Token!Items(q)]
           /\ Token!Goto(q, "answered")
  <2>1. Token!Items(q) \subseteq row[q].allowlist
    BY DEF Token!Items, Token!Listed, Token!Read, TokenInv, WantsAllowed
  <2>2. row[q].allowlist \subseteq Repositories
    BY DEF TokenInv, TokenTypeOK, Rows
  <2>3. TokenTypeOK'
    BY <1>3, <2>1, <2>2
       DEF TokenInv, TokenTypeOK, TokenPositions, Token!Goto, Token!Read,
          Token!installation, Token!keyring, Token!github
  <2>4. /\ answered'[q] = Token!Items(q) /\ pcRead'[q] = "answered"
        /\ \A p \in Reads \ {q} :
               answered'[p] = answered[p] /\ pcRead'[p] = pcRead[p]
        /\ UNCHANGED <<wanted, row>>
    BY <1>3 DEF TokenInv, TokenTypeOK, Token!Goto, Token!Read
  <2>5. WantsAllowed'
    BY <2>4 DEF TokenInv, WantsAllowed, Token!Read
  <2>6. AnsweredAllowed'
    BY <2>1, <2>4 DEF TokenInv, AnsweredAllowed
  <2> QED
    BY <1>1, <2>3, <2>5, <2>6 DEF TokenInv
<1> QED
  BY <1>2, <1>3 DEF Token!Read

LEMMA NextTokenInv == TokenInv /\ [Token!Next]_(Token!vars) => TokenInv'
<1> SUFFICES ASSUME TokenInv, [Token!Next]_(Token!vars) PROVE TokenInv'
  OBVIOUS
<1>1. CASE UNCHANGED Token!vars
  BY <1>1 DEF Token!vars, Token!installation, Token!keyring, Token!github,
     TokenInv, TokenTypeOK, PairsKept,
              WantsAllowed, AnsweredAllowed
<1>2. CASE \/ \E repositories \in SUBSET Repositories : Token!Allow(repositories)
           \/ \E t \in Token!Tokens : Token!Age(t)
           \/ Token!RotateKey
  BY <1>2, SurroundingsTokenInv
<1>3. ASSUME NEW q \in Reads,
             \/ \E asked \in Repositories \cup {"all"} : Token!Authorize(q, asked)
             \/ Token!UseCached(q) \/ Token!StoreRotated(q) \/ Token!Fetch(q)
             \/ Token!StoreFetched(q) \/ Token!Read(q)
      PROVE  TokenInv'
  BY <1>3, AuthorizeTokenInv, UseCachedTokenInv, StoreRotatedTokenInv,
     FetchTokenInv, StoreFetchedTokenInv, ReadTokenInv DEF Wanted
<1> QED
  BY <1>1, <1>2, <1>3 DEF Token!Next

\* The invariant of the installation row and its requests, for any number of
\* concurrent requests (acquireInstallationToken, the read routes).
THEOREM TokenInvariantHolds == Token!Spec => []TokenInv
<1> QED
  BY InitTokenInv, NextTokenInv, PTL DEF Token!Spec

\* The columns of the token and of expires_at are always of one token, however
\* refreshes and rotations on rows read earlier interleave.
THEOREM TokenHasItsExpiryHolds == Spec => []TokenHasItsExpiry
<1>1. TokenInv => TokenHasItsExpiry
  BY DEF TokenInv, PairsKept, TokenHasItsExpiry,
     Token!TokenHasItsExpiry
<1> QED
  BY <1>1, TokenInvariantHolds, PartsKeepTheirSpecs, PTL

\* No answer holds a repository that was off the allowlist when its request was
\* authorised, whatever the token it used reaches.
THEOREM AnswersAreAllowedHolds == Spec => []AnswersAreAllowed
<1>1. TokenInv => AnswersAreAllowed
  BY DEF TokenInv, AnsweredAllowed, AnswersAreAllowed,
     Token!AnswersAreAllowed
<1> QED
  BY <1>1, TokenInvariantHolds, PartsKeepTheirSpecs, PTL

-----------------------------------------------------------------------------
(***************************************************************************)
(* AuditTrail.                                                             *)
(***************************************************************************)

TrailTypeOK ==
    /\ clock \in Nat
    /\ stamp \in [Ids -> Nat]
    /\ begun \in SUBSET Ids
    /\ committed \in SUBSET begun
    /\ there \in SUBSET committed
    /\ listed \in Seq(committed)
    /\ cursor \in [at : {"start", "row", "end"}, stamp : Nat, id : Nat]

\* Nothing that was listed lies behind the cursor.
CursorInv ==
    /\ cursor.at = "start" => listed = <<>>
    /\ cursor.at = "row" => \A i \in DOMAIN listed : ~Trail!Behind(listed[i])

\* What the client still owes its user is behind the cursor.
OwedInv ==
    cursor.at # "start" =>
        \A r \in there :
            \/ r \in Trail!Range(listed)
            \/ cursor.at = "row" /\ Trail!Behind(r)

TrailInv == TrailTypeOK /\ Trail!ListedOnce /\ CursorInv /\ OwedInv

-----------------------------------------------------------------------------
LEMMA InitTrailInv == Trail!Init => TrailInv
<1> SUFFICES ASSUME Trail!Init PROVE TrailInv
  OBVIOUS
<1>1. TrailTypeOK
  BY DEF Trail!Init, TrailTypeOK
<1>2. Trail!ListedOnce /\ CursorInv /\ OwedInv
  BY DEF Trail!Init, Trail!ListedOnce, CursorInv, OwedInv
<1> QED
  BY <1>1, <1>2 DEF TrailInv

\* What a writer does leaves the records that are visible as they are.
LEMMA WritersTrailInv ==
  ASSUME TrailInv,
         \/ Trail!Tick
         \/ \E r \in Ids : Trail!BeginRecord(r) \/ Trail!CommitRecord(r)
  PROVE  TrailInv'
<1> USE DEF TrailInv
<1> DEFINE Kept ==
        /\ UNCHANGED <<cursor, listed, there>>
        /\ clock' \in Nat /\ stamp' \in [Ids -> Nat]
        /\ begun' \in SUBSET Ids /\ committed' \in SUBSET begun'
        /\ committed \subseteq committed'
        /\ \A r \in committed : stamp'[r] = stamp[r]
<1>1. Kept
  <2>1. CASE Trail!Tick
    BY <2>1 DEF Trail!Tick, TrailTypeOK
  <2>2. ASSUME NEW r \in Ids, Trail!BeginRecord(r) PROVE Kept
    BY <2>2 DEF Trail!BeginRecord, TrailTypeOK
  <2>3. ASSUME NEW r \in Ids, Trail!CommitRecord(r) PROVE Kept
    BY <2>3 DEF Trail!CommitRecord, TrailTypeOK
  <2> QED
    BY <2>1, <2>2, <2>3
<1>2. \A i \in DOMAIN listed : listed[i] \in committed
  BY DEF TrailTypeOK
<1>3. TrailTypeOK'
  <2>1. listed' \in Seq(committed')
    BY <1>1, <1>2 DEF TrailTypeOK
  <2> QED
    BY <1>1, <2>1 DEF TrailTypeOK
<1>4. Trail!ListedOnce'
  BY <1>1, <1>2 DEF Trail!ListedOnce, Trail!Newer
<1>5. CursorInv'
  BY <1>1, <1>2 DEF CursorInv, Trail!Behind
<1>6. OwedInv'
  <2> SUFFICES ASSUME cursor.at # "start", NEW r \in there
               PROVE  \/ r \in Trail!Range(listed)
                      \/ cursor.at = "row" /\ Trail!Behind(r)'
    BY <1>1 DEF OwedInv, Trail!Range
  <2>1. r \in committed
    BY DEF TrailTypeOK
  <2> QED
    BY <1>1, <2>1 DEF OwedInv, Trail!Behind
<1> QED
  BY <1>3, <1>4, <1>5, <1>6

LEMMA ReadPageTrailInv ==
  ASSUME TrailInv, NEW size \in Limits, Trail!ReadPage(size)
  PROVE  TrailInv'
<1> USE DEF TrailInv
<1>1. PICK page \in Trail!SeqOf(Trail!Matching, size) :
          /\ Trail!IsPage(page, size)
          /\ listed' = listed \o page
          /\ cursor' = IF Len(page) = size
                       THEN [at |-> "row", stamp |-> stamp[page[size]],
                             id |-> page[size]]
                       ELSE [cursor EXCEPT !.at = "end"]
  BY DEF Trail!ReadPage, Trail!InMicroseconds
<1>2. /\ size \in Nat \ {0}
      /\ cursor.at \in {"start", "row"}
      /\ there' = IF cursor.at = "start" THEN committed ELSE there
      /\ UNCHANGED <<clock, stamp, begun, committed>>
  BY TrailAssumption DEF Trail!ReadPage, TrailTypeOK
<1>3. /\ page \in Seq(Trail!Matching) /\ page \in Seq(committed)
      /\ Len(page) \in Nat /\ DOMAIN page = 1..Len(page)
      /\ \A i \in 1..Len(page) : page[i] \in Trail!Matching
  <2>1. PICK n \in 0..size : page \in [1..n -> Trail!Matching]
    BY DEF Trail!SeqOf
  <2>2. n \in Nat /\ Len(page) = n /\ page \in Seq(Trail!Matching)
    BY <1>2, <2>1
  <2>3. Trail!Matching \subseteq committed
    BY DEF Trail!Matching
  <2> QED
    BY <2>1, <2>2, <2>3
<1>4. /\ listed \in Seq(committed) /\ Len(listed) \in Nat
      /\ DOMAIN listed = 1..Len(listed)
      /\ \A i \in 1..Len(listed) : listed[i] \in committed
      /\ committed \subseteq Ids /\ Ids \subseteq Nat
      /\ \A r \in Ids : stamp[r] \in Nat
  BY TrailAssumption DEF TrailTypeOK
<1>5. /\ listed' \in Seq(committed)
      /\ Len(listed') = Len(listed) + Len(page)
      /\ DOMAIN listed' = 1..(Len(listed) + Len(page))
      /\ \A i \in 1..Len(listed) : listed'[i] = listed[i]
      /\ \A i \in 1..Len(page) : listed'[Len(listed) + i] = page[i]
  BY <1>1, <1>3, <1>4, ConcatProperties
<1>6. \A i \in DOMAIN listed' :
          \/ i \in 1..Len(listed) /\ listed'[i] = listed[i]
          \/ \E k \in 1..Len(page) : i = Len(listed) + k /\ listed'[i] = page[k]
  <2> SUFFICES ASSUME NEW i \in DOMAIN listed', i \notin 1..Len(listed)
               PROVE  \E k \in 1..Len(page) : i = Len(listed) + k /\ listed'[i] = page[k]
    BY <1>5
  <2> DEFINE k == i - Len(listed)
  <2>1. k \in 1..Len(page) /\ i = Len(listed) + k
    BY <1>3, <1>4, <1>5
  <2>2. listed'[i] = page[k]
    BY <1>5, <2>1
  <2> QED
    BY <2>1, <2>2
\* Across the border of the pages: what was listed is not behind the cursor,
\* what is new is.
<1>7. \A i \in 1..Len(listed), k \in 1..Len(page) : Trail!Newer(listed[i], page[k])
  <2> SUFFICES ASSUME NEW i \in 1..Len(listed), NEW k \in 1..Len(page)
               PROVE  Trail!Newer(listed[i], page[k])
    OBVIOUS
  <2>1. cursor.at = "row"
    BY <1>2, <1>4 DEF CursorInv
  <2>2. ~Trail!Behind(listed[i]) /\ Trail!Behind(page[k])
    BY <1>3, <1>4, <2>1 DEF CursorInv, Trail!Matching
  <2>3. /\ stamp[listed[i]] \in Nat /\ stamp[page[k]] \in Nat
        /\ listed[i] \in Nat /\ page[k] \in Nat
        /\ cursor.stamp \in Nat /\ cursor.id \in Nat
    BY <1>3, <1>4 DEF TrailTypeOK, Trail!Matching
  <2> QED
    BY <2>2, <2>3 DEF Trail!Behind, Trail!Newer
<1>8. Trail!ListedOnce'
  <2> SUFFICES ASSUME NEW i \in DOMAIN listed', NEW j \in DOMAIN listed', i < j
               PROVE  Trail!Newer(listed'[i], listed'[j])
    BY <1>2 DEF Trail!ListedOnce, Trail!Newer
  <2>1. CASE i \in 1..Len(listed) /\ j \in 1..Len(listed)
    BY <1>4, <1>5, <2>1 DEF Trail!ListedOnce
  <2>2. CASE i \in 1..Len(listed) /\ j \notin 1..Len(listed)
    BY <1>5, <1>6, <1>7, <2>2
  <2>3. CASE i \notin 1..Len(listed)
    <3>1. PICK k \in 1..Len(page) : i = Len(listed) + k /\ listed'[i] = page[k]
      BY <1>6, <2>3
    <3>2. j \notin 1..Len(listed)
      BY <1>4, <1>5, <3>1
    <3>3. PICK l \in 1..Len(page) : j = Len(listed) + l /\ listed'[j] = page[l]
      BY <1>6, <3>2
    <3>4. k < l
      BY <1>4, <3>1, <3>3
    <3> QED
      BY <1>1, <1>3, <3>1, <3>3, <3>4 DEF Trail!IsPage
  <2> QED
    BY <2>1, <2>2, <2>3
<1>9. CASE Len(page) = size
  <2> DEFINE last == page[size]
  <2>1. /\ cursor' = [at |-> "row", stamp |-> stamp[last], id |-> last]
        /\ size \in 1..Len(page) /\ last \in committed
        /\ last \in Nat /\ stamp[last] \in Nat
        /\ listed'[Len(listed) + size] = last
        /\ Len(listed) + size \in DOMAIN listed'
    BY <1>1, <1>2, <1>3, <1>4, <1>5, <1>9 DEF Trail!Matching
  <2>2. TrailTypeOK'
    BY <1>2, <1>5, <2>1 DEF TrailTypeOK
  <2>3. CursorInv'
    <3> SUFFICES ASSUME NEW i \in DOMAIN listed' PROVE ~Trail!Behind(listed[i])'
      BY <2>1 DEF CursorInv
    <3>1. listed'[i] \in committed
      BY <1>5
    <3>2. listed'[i] = last \/ Trail!Newer(listed'[i], last)
      <4>1. i = Len(listed) + size \/ i < Len(listed) + size
        BY <1>3, <1>4, <1>5, <1>9
      <4> QED
        BY <1>2, <1>8, <2>1, <4>1 DEF Trail!ListedOnce, Trail!Newer
    <3>3. /\ listed'[i] \in Nat /\ stamp[listed'[i]] \in Nat
          /\ cursor'.stamp = stamp[last] /\ cursor'.id = last
      BY <1>4, <2>1, <3>1
    <3> QED
      BY <1>2, <2>1, <3>2, <3>3 DEF Trail!Behind, Trail!Newer
  <2>4. OwedInv'
    <3> SUFFICES ASSUME NEW r \in there'
                 PROVE  r \in Trail!Range(listed') \/ Trail!Behind(r)'
      BY <2>1 DEF OwedInv, Trail!Range
    <3>1. CASE r \in Trail!Range(listed)
      BY <1>4, <1>5, <3>1 DEF Trail!Range
    <3>2. CASE r \in Trail!Range(page)
      BY <1>3, <1>4, <1>5, <3>2 DEF Trail!Range
    <3>3. CASE r \notin Trail!Range(listed) \cup Trail!Range(page)
      <4>1. r \in Trail!Matching
        BY <1>2, <3>3 DEF OwedInv, Trail!Matching, TrailTypeOK
      <4>2. Trail!Newer(last, r)
        BY <1>1, <1>3, <2>1, <3>3, <4>1 DEF Trail!IsPage
      <4>3. cursor'.stamp = stamp[last] /\ cursor'.id = last
        BY <2>1
      <4>4. r \in Nat /\ stamp[r] \in Nat
        BY <1>4, <4>1 DEF Trail!Matching
      <4> QED
        BY <1>2, <2>1, <4>2, <4>3, <4>4 DEF Trail!Newer, Trail!Behind
    <3> QED
      BY <3>1, <3>2, <3>3
  <2> QED
    BY <1>8, <2>2, <2>3, <2>4
<1>10. CASE Len(page) # size
  <2>1. cursor' = [cursor EXCEPT !.at = "end"] /\ cursor'.at = "end"
    BY <1>1, <1>10 DEF TrailTypeOK
  <2>2. TrailTypeOK'
    BY <1>2, <1>5, <2>1 DEF TrailTypeOK
  <2>3. CursorInv'
    BY <2>1 DEF CursorInv
  <2>4. OwedInv'
    <3> SUFFICES ASSUME NEW r \in there' PROVE r \in Trail!Range(listed')
      BY DEF OwedInv, Trail!Range
    <3>1. r \in Trail!Range(listed) \/ r \in Trail!Matching
      BY <1>2 DEF OwedInv, Trail!Matching, TrailTypeOK
    <3>2. r \in Trail!Range(listed) \/ r \in Trail!Range(page)
      BY <1>1, <1>10, <3>1 DEF Trail!IsPage
    <3>3. \A i \in 1..Len(page) : Len(listed) + i \in DOMAIN listed'
      BY <1>3, <1>4, <1>5
    <3>4. \A i \in DOMAIN listed : i \in DOMAIN listed'
      BY <1>3, <1>4, <1>5
    <3> QED
      BY <1>3, <1>4, <1>5, <3>2, <3>3, <3>4 DEF Trail!Range
  <2> QED
    BY <1>8, <2>2, <2>3, <2>4
<1> QED
  BY <1>9, <1>10

LEMMA NextTrailInv == TrailInv /\ [Trail!Next]_(Trail!vars) => TrailInv'
<1> SUFFICES ASSUME TrailInv, [Trail!Next]_(Trail!vars) PROVE TrailInv'
  OBVIOUS
<1>1. CASE UNCHANGED Trail!vars
  BY <1>1 DEF Trail!vars, TrailInv, TrailTypeOK, Trail!ListedOnce, CursorInv,
     OwedInv, Trail!Newer, Trail!Behind, Trail!Range
<1>2. CASE Trail!Next
  BY <1>2, WritersTrailInv, ReadPageTrailInv DEF Trail!Next
<1> QED
  BY <1>1, <1>2

\* The invariant of the listing and its cursor (databaseAuditStore.list).
THEOREM TrailInvariantHolds == Trail!Spec => []TrailInv
<1> QED
  BY InitTrailInv, NextTrailInv, PTL DEF Trail!Spec

\* The pages of a listing are one descending order without repetition, and hold
\* at the end all that was there at the beginning, whatever is written in
\* between and whatever the limit is.
THEOREM ListingIsCompleteHolds == Spec => []ListingIsComplete
<1>1. TrailInv => ListingIsComplete
  BY DEF TrailInv, OwedInv, ListingIsComplete, Trail!ListingIsComplete,
     Trail!NothingSkipped
<1> QED
  BY <1>1, TrailInvariantHolds, PartsKeepTheirSpecs, PTL

-----------------------------------------------------------------------------
(***************************************************************************)
(* ReadPanel.                                                              *)
(***************************************************************************)

PanelTypeOK ==
    /\ pcPanel \in [Loads -> {"new", "choose", "load", "end"}]
    /\ aim \in [Loads -> Targets \cup {Unlinked}]
    /\ pages \in [Loads -> [Panel!Lists -> Nat]]
    /\ done \in [Loads -> SUBSET Panel!Lists]
    /\ newest \in SUBSET Loads

\* The load that was not cancelled is the one for what the screen was given.
AimInv == \A l \in newest : aim[l] = target /\ pcPanel[l] # "new"

\* A list is done with one page at least.
PagesInv == \A l \in Loads, k \in Panel!Lists : k \in done[l] => pages[l][k] # 0

PanelInv == PanelTypeOK /\ AimInv /\ PagesInv /\ ShowsItsTarget

-----------------------------------------------------------------------------
LEMMA InitPanelInv == Panel!Init => PanelInv
<1> SUFFICES ASSUME Panel!Init PROVE PanelInv
  OBVIOUS
<1>1. PanelTypeOK
  BY DEF Panel!Init, PanelTypeOK
<1>2. AimInv /\ PagesInv
  BY DEF Panel!Init, AimInv, PagesInv
<1>3. ShowsItsTarget
  BY DEF Panel!Init, ShowsItsTarget, Panel!ShowsItsTarget
<1> QED
  BY <1>1, <1>2, <1>3 DEF PanelInv

LEMMA RetargetPanelInv ==
  ASSUME PanelInv, NEW l \in Loads, NEW t \in Targets \cup {Unlinked},
         Panel!Retarget(l, t)
  PROVE  PanelInv'
<1> USE DEF PanelInv
<1>1. PanelTypeOK'
  BY DEF PanelTypeOK, Panel!Retarget
<1>2. AimInv'
  BY DEF AimInv, PanelTypeOK, Panel!Retarget
<1>3. PagesInv'
  BY DEF PagesInv, Panel!Retarget
<1>4. readState' # "ready"
  BY DEF Panel!Retarget
<1> QED
  BY <1>1, <1>2, <1>3, <1>4 DEF ShowsItsTarget, Panel!ShowsItsTarget

\* Whatever else a load does, it does not change whose the screen is, and
\* never begins anew.
LEMMA LoadPanelInv ==
  ASSUME PanelInv, NEW l \in Loads, PanelTypeOK', PagesInv',
         UNCHANGED <<target, newest, aim>>,
         pcPanel'[l] # "new", \A m \in Loads \ {l} : pcPanel'[m] = pcPanel[m],
         \/ UNCHANGED <<readState, selected, shown>>
         \/ readState' # "ready"
         \/ /\ readState' = "ready" /\ l \in newest
            /\ \/ selected' = aim[l] /\ \A k \in Panel!Lists : shown'[k] # 0
               \/ selected' = Unlinked /\ Size[aim[l]] = 0
  PROVE  PanelInv'
<1> USE DEF PanelInv
<1>1. AimInv'
  BY DEF AimInv, PanelTypeOK
<1>2. ShowsItsTarget'
  BY DEF AimInv, ShowsItsTarget, Panel!ShowsItsTarget
<1> QED
  BY <1>1, <1>2

LEMMA ChoosePanelInv ==
  ASSUME PanelInv, NEW l \in Loads, Panel!Choose(l)
  PROVE  PanelInv'
<1> USE DEF PanelInv
<1>1. /\ UNCHANGED <<target, newest, aim, pages, done>>
      /\ \E position \in {"load", "end"} :
             pcPanel' = [pcPanel EXCEPT ![l] = position]
  BY DEF Panel!Choose, Panel!Finish, Panel!load
<1>2. PanelTypeOK' /\ PagesInv'
  BY <1>1 DEF PanelTypeOK, PagesInv
<1>3. pcPanel'[l] # "new" /\ \A m \in Loads \ {l} : pcPanel'[m] = pcPanel[m]
  BY <1>1 DEF PanelTypeOK
<1>4. \/ UNCHANGED <<readState, selected, shown>>
      \/ readState' # "ready"
      \/ /\ readState' = "ready" /\ l \in newest
         /\ selected' = Unlinked /\ Size[aim[l]] = 0
  BY DEF Panel!Choose, Panel!Finish, Panel!NotCancelled, Panel!screen
<1> QED
  BY <1>1, <1>2, <1>3, <1>4, LoadPanelInv

LEMMA NextPagePanelInv ==
  ASSUME PanelInv, NEW l \in Loads, NEW k \in Panel!Lists, Panel!NextPage(l, k)
  PROVE  PanelInv'
<1> USE DEF PanelInv
<1>1. UNCHANGED <<target, newest, aim, pcPanel, readState, selected, shown>>
  BY DEF Panel!NextPage, Panel!screen
<1>2. /\ pages' \in [Loads -> [Panel!Lists -> Nat]]
      /\ pages'[l][k] = pages[l][k] + 1
      /\ \A m \in Loads, j \in Panel!Lists :
             m # l \/ j # k => pages'[m][j] = pages[m][j]
  <2>1. pages' = [pages EXCEPT ![l] = [pages[l] EXCEPT ![k] = pages[l][k] + 1]]
    BY DEF Panel!NextPage
  <2>2. [pages[l] EXCEPT ![k] = pages[l][k] + 1] \in [Panel!Lists -> Nat]
    BY DEF PanelTypeOK
  <2> QED
    BY <2>1, <2>2 DEF PanelTypeOK
<1>3. /\ done' \in [Loads -> SUBSET Panel!Lists]
      /\ \A m \in Loads, j \in Panel!Lists :
             j \in done'[m] => j \in done[m] \/ (m = l /\ j = k)
  BY DEF Panel!NextPage, PanelTypeOK
<1>4. PanelTypeOK'
  BY <1>1, <1>2, <1>3 DEF PanelTypeOK
<1>5. PagesInv'
  <2> SUFFICES ASSUME NEW m \in Loads, NEW j \in Panel!Lists, j \in done'[m]
               PROVE  pages'[m][j] # 0
    BY DEF PagesInv
  <2>1. CASE m = l /\ j = k
    <3>1. pages[l][k] \in Nat
      BY DEF PanelTypeOK
    <3> QED
      BY <1>2, <2>1, <3>1
  <2>2. CASE m # l \/ j # k
    BY <1>2, <1>3, <2>2 DEF PagesInv
  <2> QED
    BY <2>1, <2>2
<1>6. pcPanel'[l] # "new"
  BY <1>1 DEF Panel!NextPage
<1> QED
  BY <1>1, <1>4, <1>5, <1>6, LoadPanelInv

LEMMA PageFailsPanelInv ==
  ASSUME PanelInv, NEW l \in Loads, NEW k \in Panel!Lists, Panel!PageFails(l, k)
  PROVE  PanelInv'
<1> USE DEF PanelInv
<1>1. UNCHANGED <<target, newest, aim, pages, selected, shown>>
  BY DEF Panel!PageFails
<1>2. /\ pcPanel' \in [Loads -> {"new", "choose", "load", "end"}]
      /\ pcPanel'[l] # "new"
      /\ \A m \in Loads \ {l} : pcPanel'[m] = pcPanel[m]
  BY DEF Panel!PageFails, Panel!Finish, PanelTypeOK
<1>3. /\ done' \in [Loads -> SUBSET Panel!Lists]
      /\ \A m \in Loads, j \in Panel!Lists :
             j \in done'[m] => j \in done[m] \/ (m = l /\ j = k /\ pages[l][k] # 0)
  BY DEF Panel!PageFails, PanelTypeOK
<1>4. PanelTypeOK'
  BY <1>1, <1>2, <1>3 DEF PanelTypeOK
<1>5. PagesInv'
  BY <1>1, <1>3 DEF PagesInv
<1>6. UNCHANGED readState \/ readState' # "ready"
  BY DEF Panel!PageFails, Panel!Finish
<1> QED
  BY <1>1, <1>2, <1>4, <1>5, <1>6, LoadPanelInv

LEMMA ShowPanelInv ==
  ASSUME PanelInv, NEW l \in Loads, Panel!Show(l)
  PROVE  PanelInv'
<1> USE DEF PanelInv
<1>1. /\ UNCHANGED <<target, newest, aim, pages, done>>
      /\ pcPanel' = [pcPanel EXCEPT ![l] = "end"]
  BY DEF Panel!Show, Panel!Finish, Panel!load
<1>2. PanelTypeOK' /\ PagesInv'
  BY <1>1 DEF PanelTypeOK, PagesInv
<1>3. pcPanel'[l] # "new" /\ \A m \in Loads \ {l} : pcPanel'[m] = pcPanel[m]
  BY <1>1 DEF PanelTypeOK
<1>4. \A k \in Panel!Lists : pages[l][k] # 0
  BY DEF Panel!Show, PagesInv
<1>5. \/ UNCHANGED <<readState, selected, shown>>
      \/ /\ readState' = "ready" /\ l \in newest
         /\ selected' = aim[l] /\ \A k \in Panel!Lists : shown'[k] # 0
  BY <1>4 DEF Panel!Show, Panel!Finish, Panel!NotCancelled
<1> QED
  BY <1>1, <1>2, <1>3, <1>5, LoadPanelInv

LEMMA NextPanelInv == PanelInv /\ [Panel!Next]_(Panel!vars) => PanelInv'
<1> SUFFICES ASSUME PanelInv, [Panel!Next]_(Panel!vars) PROVE PanelInv'
  OBVIOUS
<1>1. CASE UNCHANGED Panel!vars
  BY <1>1 DEF Panel!vars, Panel!screen, Panel!load, PanelInv, PanelTypeOK,
     AimInv, PagesInv, ShowsItsTarget, Panel!ShowsItsTarget
<1>2. CASE Panel!Next
  BY <1>2, RetargetPanelInv, ChoosePanelInv, NextPagePanelInv,
     PageFailsPanelInv, ShowPanelInv DEF Panel!Next
<1> QED
  BY <1>1, <1>2

\* The invariant of the effect of the screen and its loads
\* (GitHubWorkspaceScreen).
THEOREM PanelInvariantHolds == Panel!Spec => []PanelInv
<1> QED
  BY InitPanelInv, NextPanelInv, PTL DEF Panel!Spec

\* What is shown as ready is what the screen was last given, with a page of each
\* list, whichever of any number of loads comes back last.
THEOREM ShowsItsTargetHolds == Spec => []ShowsItsTarget
<1>1. PanelInv => ShowsItsTarget
  BY DEF PanelInv
<1> QED
  BY <1>1, PanelInvariantHolds, PartsKeepTheirSpecs, PTL

-----------------------------------------------------------------------------
(***************************************************************************)
(* MobileSession.                                                          *)
(***************************************************************************)

AppPositions == {"unused", "load", "serve", "bind", "answer", "clear", "reset",
                 "done"}

AppTypeOK ==
    /\ created \in Nat
    /\ cookieStore \in Nat
    /\ hasSession \in BOOLEAN
    /\ rooms \in BOOLEAN
    /\ visit \in Nat
    /\ visitOf \in [App!Requests -> Nat]
    /\ pcApp \in [App!Requests -> AppPositions]
    /\ lost \in SUBSET App!Requests
    /\ unread \in SUBSET App!Requests

\* What a login is about to store is a cookie.
SaveInv == login = "save" => created # 0

\* An answer is lost only after its request was sent.
LostInv == \A q \in lost : pcApp[q] \notin {"unused", "load", "reset"}

\* A request for which the store threw is over.
UnreadInv == \A q \in unread : pcApp[q] = "done"

\* A request is of this visit of the screens or of an earlier one.
VisitInv == \A q \in App!Requests : visitOf[q] <= visit

\* A request that found a cookie in the store.
Sent(q) == pcApp[q] \in {"serve", "bind", "answer"}

\* A request on its way to the login.
LeadsBack(q) == pcApp[q] \in {"load", "clear", "reset"} /\ q \notin lost

\* A visit that never found a cookie: it has no rooms and will get none, and
\* its first request was refused by the store or leads back.
Blank ==
    /\ ~rooms
    /\ \A q \in App!Requests : Sent(q) => visitOf[q] # visit
    /\ \E q \in App!Requests : visitOf[q] = visit /\ (q \in unread \/ LeadsBack(q))

\* The store was emptied by a request that is about to reset the navigator, or
\* before this visit.
EmptyInv ==
    hasSession /\ cookieStore = 0 =>
        Blank \/ \E q \in App!Requests : pcApp[q] = "reset"

AppInv ==
    AppTypeOK /\ SaveInv /\ LostInv /\ UnreadInv /\ VisitInv /\ EmptyInv

-----------------------------------------------------------------------------
LEMMA InitAppInv == App!Init => AppInv
<1> SUFFICES ASSUME App!Init PROVE AppInv
  OBVIOUS
<1>1. /\ created = cookieStore /\ cookieStore \in {0, 1}
      /\ hasSession = FALSE /\ rooms = FALSE /\ visit = 0
      /\ login = "idle" /\ lost = {} /\ unread = {}
      /\ pcApp = [q \in App!Requests |-> "unused"]
      /\ visitOf = [q \in App!Requests |-> 0]
  BY DEF App!Init
<1>2. AppTypeOK
  <2>1. pcApp \in [App!Requests -> AppPositions]
    BY <1>1 DEF AppPositions
  <2>2. visitOf \in [App!Requests -> Nat]
    BY <1>1
  <2>3. hasSession \in BOOLEAN /\ rooms \in BOOLEAN
    BY <1>1
  <2> QED
    BY <1>1, <2>1, <2>2, <2>3 DEF AppTypeOK
<1>3. SaveInv /\ LostInv /\ UnreadInv /\ VisitInv /\ EmptyInv
  BY <1>1 DEF SaveInv, LostInv, UnreadInv, VisitInv, EmptyInv
<1> QED
  BY <1>2, <1>3 DEF AppInv

\* Steps that leave the store, the screens, and the places of the requests
\* alone.
LEMMA QuietAppInv ==
  ASSUME AppInv, AppTypeOK', SaveInv', LostInv',
         UNCHANGED <<rooms, visit, visitOf, pcApp, unread>>,
         hasSession' => hasSession,
         cookieStore' = 0 => cookieStore = 0,
         \A q \in App!Requests : LeadsBack(q) => LeadsBack(q)'
  PROVE  AppInv'
<1>1. UnreadInv' /\ VisitInv'
  BY DEF AppInv, UnreadInv, VisitInv
<1>2. EmptyInv'
  BY DEF AppInv, EmptyInv, Blank, Sent
<1> QED
  BY <1>1, <1>2 DEF AppInv

\* The screens are mounted with a request that will look into the store.
LEMMA MountAppInv ==
  ASSUME AppInv, NEW q \in App!Requests, App!Mount(q), SaveInv',
         UNCHANGED <<created, cookieStore>>
  PROVE  AppInv'
<1> USE DEF AppInv
<1>1. /\ pcApp[q] = "unused"
      /\ pcApp' = [pcApp EXCEPT ![q] = "load"]
      /\ visit' = visit + 1
      /\ visitOf' = [visitOf EXCEPT ![q] = visit + 1]
      /\ hasSession' = TRUE /\ rooms' = FALSE
      /\ UNCHANGED <<lost, unread>>
  BY DEF App!Mount, App!LoadsRooms, App!Call, App!Goto
<1>2. AppTypeOK'
  <2>1. /\ pcApp' \in [App!Requests -> AppPositions]
        /\ visitOf' \in [App!Requests -> Nat]
    BY <1>1 DEF AppTypeOK, AppPositions
  <2>2. hasSession' \in BOOLEAN /\ rooms' \in BOOLEAN
    BY <1>1
  <2> QED
    BY <1>1, <2>1, <2>2 DEF AppTypeOK
<1>3. q \notin lost /\ q \notin unread
  BY <1>1 DEF LostInv, UnreadInv
<1>4. LostInv' /\ UnreadInv'
  BY <1>1, <1>3 DEF LostInv, UnreadInv, AppTypeOK
<1>5. VisitInv'
  BY <1>1 DEF VisitInv, AppTypeOK
<1>6. Blank'
  <2>1. visitOf'[q] = visit' /\ LeadsBack(q)'
    BY <1>1, <1>3 DEF AppTypeOK, LeadsBack
  <2>2. \A p \in App!Requests : Sent(p)' => visitOf'[p] # visit'
    BY <1>1 DEF AppTypeOK, VisitInv, Sent
  <2> QED
    BY <1>1, <2>1, <2>2 DEF Blank
<1> QED
  BY <1>2, <1>4, <1>5, <1>6 DEF EmptyInv

LEMMA RestoreAppInv ==
  ASSUME AppInv, NEW q \in App!Requests, App!Restore(q)
  PROVE  AppInv'
<1>1. UNCHANGED <<created, cookieStore, login>>
  BY DEF App!Restore, App!server
<1>2. CASE App!Mount(q)
  BY <1>1, <1>2, MountAppInv DEF AppInv, SaveInv
<1>3. CASE UNCHANGED <<hasSession, visit, rooms, pcApp, App!requests>>
  BY <1>1, <1>3 DEF App!requests, AppInv, AppTypeOK, SaveInv, LostInv, UnreadInv,
     VisitInv, EmptyInv, Blank, Sent, LeadsBack
<1> QED
  BY <1>2, <1>3 DEF App!Restore

LEMMA ArriveAppInv ==
  ASSUME AppInv, NEW q \in App!Requests, App!Arrive(q)
  PROVE  AppInv'
<1>1. App!Mount(q) /\ UNCHANGED <<created, cookieStore>> /\ login' = "idle"
  BY DEF App!Arrive, App!server
<1> QED
  BY <1>1, MountAppInv DEF SaveInv

LEMMA LoginAppInv ==
  ASSUME AppInv,
         \/ App!SignIn \/ App!CreateSession \/ App!Save
         \/ \E n \in App!Cookies : App!EndSession(n)
  PROVE  AppInv'
<1> USE DEF AppInv
<1>1. /\ UNCHANGED <<hasSession, rooms, visit, visitOf, pcApp, lost, unread>>
      /\ created' \in {created, created + 1}
      /\ cookieStore' \in {cookieStore, created}
      /\ cookieStore' # cookieStore => login = "save"
      /\ login' = "save" => created' = created + 1 \/ UNCHANGED <<created, login>>
  BY DEF App!SignIn, App!CreateSession, App!Save, App!EndSession, App!server,
     App!navigator, App!requests
<1>2. AppTypeOK' /\ LostInv'
  BY <1>1 DEF AppTypeOK, LostInv
<1>3. SaveInv'
  BY <1>1 DEF SaveInv, AppTypeOK
<1>4. cookieStore' = 0 => cookieStore = 0
  BY <1>1 DEF SaveInv
<1> QED
  BY <1>1, <1>2, <1>3, <1>4, QuietAppInv DEF LeadsBack

\* A request that moves on.  Over an empty store, one that is about to reset
\* the navigator stays, one of this visit is not sent, and the one that leads
\* back does so still or is refused.
LEMMA MoveAppInv ==
  ASSUME AppInv, NEW q \in App!Requests, NEW position \in AppPositions \ {"unused"},
         App!Goto(q, position),
         UNCHANGED <<created, login, lost, hasSession, cookieStore, visit>>,
         rooms' \in BOOLEAN,
         visitOf' \in [App!Requests -> Nat],
         \A p \in App!Requests \ {q} : visitOf'[p] = visitOf[p],
         visitOf'[q] <= visit,
         pcApp[q] # "unused" => UNCHANGED visitOf,
         unread' \in {unread, unread \cup {q}},
         q \in unread' => position = "done",
         q \in lost => position \notin {"load", "reset"},
         hasSession /\ cookieStore = 0 =>
             /\ pcApp[q] # "reset"
             /\ rooms' => rooms \/ (Sent(q) /\ visitOf[q] = visit)
             /\ position \in {"serve", "bind", "answer"} =>
                    Sent(q) /\ pcApp[q] # "unused"
             /\ LeadsBack(q) =>
                    position \in {"clear", "reset"} \/ q \in unread'
  PROVE  AppInv'
<1> USE DEF AppInv
<1>1. /\ pcApp' \in [App!Requests -> AppPositions]
      /\ pcApp'[q] = position
      /\ \A p \in App!Requests \ {q} : pcApp'[p] = pcApp[p]
  BY DEF App!Goto, AppTypeOK
<1>2. AppTypeOK' /\ SaveInv'
  BY <1>1 DEF AppTypeOK, SaveInv
<1>3. LostInv' /\ UnreadInv'
  BY <1>1 DEF LostInv, UnreadInv, AppTypeOK
<1>4. VisitInv'
  BY DEF VisitInv, AppTypeOK
<1>5. ASSUME hasSession, cookieStore = 0
      PROVE  Blank' \/ \E p \in App!Requests : pcApp'[p] = "reset"
  <2>1. CASE \E p \in App!Requests : pcApp[p] = "reset"
    BY <1>1, <1>5, <2>1
  <2>2. CASE Blank
    <3>1. ~rooms'
      BY <1>5, <2>2 DEF Blank
    <3>2. ASSUME NEW p \in App!Requests, Sent(p)'
          PROVE  visitOf'[p] # visit'
      <4>1. Sent(p) /\ visitOf'[p] = visitOf[p]
        BY <1>1, <1>5, <3>2 DEF Sent
      <4> QED
        BY <2>2, <4>1 DEF Blank
    <3>3. PICK p \in App!Requests :
              visitOf[p] = visit /\ (p \in unread \/ LeadsBack(p))
      BY <2>2 DEF Blank
    <3>4. visitOf'[p] = visit'
      BY <3>3 DEF UnreadInv, LeadsBack
    <3>5. p \in unread' \/ LeadsBack(p)'
      BY <1>1, <1>5, <3>3 DEF LeadsBack
    <3> QED
      BY <3>1, <3>2, <3>4, <3>5 DEF Blank
  <2> QED
    BY <1>5, <2>1, <2>2 DEF EmptyInv
<1> QED
  BY <1>2, <1>3, <1>4, <1>5 DEF EmptyInv

LEMMA AskAppInv ==
  ASSUME AppInv, NEW q \in App!Requests, NEW what \in App!Calls, App!Ask(q, what)
  PROVE  AppInv'
<1>1. /\ pcApp[q] = "unused" /\ App!Goto(q, "load")
      /\ visitOf' = [visitOf EXCEPT ![q] = visit]
      /\ UNCHANGED <<created, login, lost, hasSession, cookieStore, rooms, visit,
                     unread>>
  BY DEF App!Ask, App!Call, App!server, App!navigator
<1>2. q \notin lost /\ q \notin unread
  BY <1>1 DEF AppInv, LostInv, UnreadInv
<1>3. /\ visitOf' \in [App!Requests -> Nat]
      /\ visitOf'[q] <= visit
      /\ \A p \in App!Requests \ {q} : visitOf'[p] = visitOf[p]
      /\ rooms' \in BOOLEAN
  BY <1>1 DEF AppInv, AppTypeOK
<1>4. ~LeadsBack(q) /\ ~Sent(q)
  BY <1>1 DEF LeadsBack, Sent
<1> QED
  BY <1>1, <1>2, <1>3, <1>4, MoveAppInv DEF AppPositions

LEMMA LoadAppInv ==
  ASSUME AppInv, NEW q \in App!Requests, App!Load(q)
  PROVE  AppInv'
<1>1. /\ UNCHANGED <<created, login, lost, hasSession, cookieStore, rooms, visit,
                     visitOf>>
      /\ pcApp[q] = "load"
      /\ \/ cookieStore = 0 /\ App!Goto(q, "clear") /\ UNCHANGED unread
         \/ cookieStore # 0 /\ App!Goto(q, "serve") /\ UNCHANGED unread
         \/ App!Goto(q, "done") /\ unread' = unread \cup {q}
  BY DEF App!Load, App!Invalidates, App!server, App!navigator
<1>2. /\ rooms' \in BOOLEAN
      /\ visitOf' \in [App!Requests -> Nat]
      /\ visitOf'[q] <= visit
      /\ q \notin unread
  BY <1>1 DEF AppInv, AppTypeOK, VisitInv, UnreadInv
<1>3. CASE cookieStore = 0 /\ App!Goto(q, "clear") /\ UNCHANGED unread
  BY <1>1, <1>2, <1>3, MoveAppInv DEF AppPositions
<1>4. CASE cookieStore # 0 /\ App!Goto(q, "serve") /\ UNCHANGED unread
  BY <1>1, <1>2, <1>4, MoveAppInv DEF AppPositions
<1>5. CASE App!Goto(q, "done") /\ unread' = unread \cup {q}
  BY <1>1, <1>2, <1>5, MoveAppInv DEF AppPositions
<1> QED
  BY <1>1, <1>3, <1>4, <1>5

LEMMA ServerAppInv ==
  ASSUME AppInv, NEW q \in App!Requests,
         App!Authenticate(q) \/ App!Bind(q) \/ App!Answer(q)
  PROVE  AppInv'
<1>1. /\ UNCHANGED <<created, login, lost, hasSession, cookieStore, visit,
                     visitOf, unread>>
      /\ Sent(q)
      /\ rooms' \in {rooms, rooms \/ (asks[q] = "rooms" /\ visitOf[q] = visit
                                      /\ q \notin lost)}
      /\ \E position \in {"bind", "answer", "clear", "done"} :
             App!Goto(q, position)
  BY DEF App!Authenticate, App!Serve, App!Bind, App!Answer, App!server,
     App!navigator, App!requests, Sent
<1>2. PICK position \in {"bind", "answer", "clear", "done"} :
          App!Goto(q, position)
  BY <1>1
<1>3. ~LeadsBack(q) /\ pcApp[q] \notin {"unused", "reset"}
  BY <1>1 DEF LeadsBack, Sent
<1>4. /\ visitOf' \in [App!Requests -> Nat]
      /\ visitOf'[q] <= visit
      /\ q \notin unread
  BY <1>1, <1>3 DEF AppInv, AppTypeOK, VisitInv, UnreadInv, Sent
<1>5. rooms' \in BOOLEAN /\ (rooms' => rooms \/ (Sent(q) /\ visitOf[q] = visit))
  BY <1>1 DEF AppInv, AppTypeOK
<1> QED
  BY <1>1, <1>2, <1>3, <1>4, <1>5, MoveAppInv DEF AppPositions

LEMMA LoseAnswerAppInv ==
  ASSUME AppInv, NEW q \in App!Requests, App!LoseAnswer(q)
  PROVE  AppInv'
<1> USE DEF AppInv
<1>1. /\ UNCHANGED <<created, login, pcApp, hasSession, cookieStore, rooms, visit,
                     visitOf, unread>>
      /\ pcApp[q] \in {"serve", "bind", "answer"}
      /\ lost' = lost \cup {q}
  BY DEF App!LoseAnswer, App!server, App!navigator
<1>2. AppTypeOK' /\ SaveInv' /\ LostInv'
  BY <1>1 DEF AppTypeOK, SaveInv, LostInv
<1>3. \A p \in App!Requests : LeadsBack(p) => LeadsBack(p)'
  BY <1>1 DEF LeadsBack
<1> QED
  BY <1>1, <1>2, <1>3, QuietAppInv

\* A 401 that is heard empties the store, and is then on its way to the login.
LEMMA ClearAppInv ==
  ASSUME AppInv, NEW q \in App!Requests, App!Clear(q)
  PROVE  AppInv'
<1> USE DEF AppInv
<1>1. /\ UNCHANGED <<created, login, lost, hasSession, rooms, visit, visitOf,
                     unread>>
      /\ pcApp[q] = "clear"
  BY DEF App!Clear, App!server, App!navigator, App!requests
<1>2. CASE q \in lost
  <2>1. App!Goto(q, "done") /\ UNCHANGED cookieStore
    BY <1>2 DEF App!Clear
  <2>2. /\ rooms' \in BOOLEAN
        /\ visitOf' \in [App!Requests -> Nat]
        /\ visitOf'[q] <= visit
        /\ ~LeadsBack(q)
    BY <1>1, <1>2 DEF AppTypeOK, VisitInv, LeadsBack
  <2> QED
    BY <1>1, <2>1, <2>2, MoveAppInv DEF AppPositions
<1>3. CASE q \notin lost
  <2>1. pcApp' = [pcApp EXCEPT ![q] = "reset"] /\ cookieStore' \in {0, cookieStore}
    BY <1>3 DEF App!Clear, App!Goto
  <2>2. AppTypeOK' /\ SaveInv'
    BY <1>1, <2>1 DEF AppTypeOK, AppPositions, SaveInv
  <2>3. LostInv' /\ UnreadInv' /\ VisitInv'
    BY <1>1, <1>3, <2>1 DEF LostInv, UnreadInv, VisitInv, AppTypeOK
  <2>4. EmptyInv'
    BY <2>1 DEF AppTypeOK, EmptyInv
  <2> QED
    BY <2>2, <2>3, <2>4
<1> QED
  BY <1>2, <1>3

LEMMA ResetAppInv ==
  ASSUME AppInv, NEW q \in App!Requests, App!Reset(q)
  PROVE  AppInv'
<1> USE DEF AppInv
<1>1. /\ UNCHANGED <<created, login, lost, cookieStore, rooms, visit, visitOf,
                     unread>>
      /\ hasSession' = FALSE
      /\ pcApp[q] = "reset"
      /\ pcApp' = [pcApp EXCEPT ![q] = "done"]
  BY DEF App!Reset, App!Goto, App!server, App!requests
<1>2. AppTypeOK'
  <2>1. hasSession' \in BOOLEAN
    BY <1>1
  <2> QED
    BY <1>1, <2>1 DEF AppTypeOK, AppPositions
<1>3. SaveInv' /\ LostInv' /\ UnreadInv' /\ VisitInv'
  BY <1>1 DEF AppTypeOK, SaveInv, LostInv, UnreadInv, VisitInv
<1> QED
  BY <1>1, <1>2, <1>3 DEF EmptyInv

LEMMA NextAppInv == AppInv /\ [App!Next]_(App!vars) => AppInv'
<1> SUFFICES ASSUME AppInv, [App!Next]_(App!vars) PROVE AppInv'
  OBVIOUS
<1>1. CASE UNCHANGED App!vars
  BY <1>1 DEF App!vars, App!server, App!navigator, App!requests, AppInv,
     AppTypeOK, SaveInv, LostInv, UnreadInv, VisitInv, EmptyInv, Blank, Sent,
     LeadsBack
<1>2. CASE App!Next
  BY <1>2, LoginAppInv, RestoreAppInv, ArriveAppInv, AskAppInv, LoadAppInv,
     ServerAppInv, LoseAnswerAppInv, ClearAppInv, ResetAppInv DEF App!Next
<1> QED
  BY <1>1, <1>2

\* The invariant of the secure store, the navigator and the requests
\* (authenticatedRaw, expireControlPlaneSession, handleUnauthorized).
THEOREM AppInvariantHolds == App!Spec => []AppInv
<1> QED
  BY InitAppInv, NextAppInv, PTL DEF App!Spec

\* Whichever of any number of late 401s emptied the store, the screens behind
\* the login stay over it only while a request leads back, or in a visit whose
\* request the store itself refused and which therefore shows no rooms.
THEOREM EmptyStoreIsNoticedHolds == Spec => []EmptyStoreIsNoticed
<1>1. AppInv => EmptyStoreIsNoticed
  <2> SUFFICES ASSUME AppInv, hasSession, cookieStore = 0
               PROVE  \/ \E q \in App!Requests :
                             pcApp[q] \in {"load", "clear", "reset"} /\ q \notin lost
                      \/ ~rooms /\ \E q \in unread : visitOf[q] = visit
    BY DEF EmptyStoreIsNoticed, App!EmptyStoreIsNoticed
  <2>1. CASE Blank
    BY <2>1 DEF Blank, LeadsBack
  <2>2. CASE \E q \in App!Requests : pcApp[q] = "reset"
    BY <2>2 DEF AppInv, LostInv
  <2> QED
    BY <2>1, <2>2 DEF AppInv, EmptyInv
<1> QED
  BY <1>1, AppInvariantHolds, PartsKeepTheirSpecs, PTL

=============================================================================
