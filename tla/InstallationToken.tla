-------------------------- MODULE InstallationToken --------------------------
(***************************************************************************)
(* Reading from GitHub through an App installation: the installation row   *)
(* with its allowlist and its cached token, the requests that use the      *)
(* token, refresh it or rotate its encryption, and the pages they answer.  *)
(*                                                                         *)
(* A token is named by its number; the column expires_at by the token it   *)
(* is the expiry of.  A request works on the row as it was when the request *)
(* was authorised.                                                         *)
(***************************************************************************)
EXTENDS Naturals

CONSTANTS
    Repositories,
    Requests,    \* of the repositories, issues and pulls routes
    MaxTokens,   \* bound: tokens GitHub issues
    MaxKeys      \* bound: versions of the envelope key

Tokens == 1..MaxTokens

VARIABLES
    \* github_installations
    allowlist, token, expiry, version,
    \* the keyring's current version, the versions that were retired
    current, retired,
    \* GitHub: tokens issued, their repositories, "fresh" (more than 60 s to
    \* live), "late" or "dead"
    issued, reach, life,
    \* per request: position, what it reads ("all": the list), its row, the
    \* token it uses, the repositories it answered for
    pc, wanted, row, using, answered

installation == <<allowlist, token, expiry, version>>
keyring == <<current, retired>>
github == <<issued, reach, life>>
vars == <<installation, keyring, github, pc, wanted, row, using, answered>>

Row == [allowlist |-> allowlist, token |-> token, expiry |-> expiry,
        version |-> version]

\* No token was fetched yet (0), or one is cached.
Init ==
    /\ allowlist = Repositories
    /\ issued \in 0..1
    /\ token = issued /\ expiry = issued /\ version = 1
    /\ current = 1 /\ retired = {}
    /\ reach = [t \in Tokens |-> IF t <= issued THEN allowlist ELSE {}]
    /\ life = [t \in Tokens |-> "fresh"]
    /\ pc = [q \in Requests |-> "new"]
    /\ wanted = [q \in Requests |-> "all"]
    /\ row = [q \in Requests |-> Row]
    /\ using = [q \in Requests |-> 0]
    /\ answered = [q \in Requests |-> {}]

-----------------------------------------------------------------------------
(* Around the requests.                                                    *)

\* The installation is configured anew.
Allow(repositories) ==
    /\ repositories # allowlist
    /\ allowlist' = repositories
    /\ UNCHANGED <<token, expiry, version, keyring, github, pc, wanted, row,
                   using, answered>>

Age(t) ==
    /\ t <= issued
    /\ \/ life[t] = "fresh" /\ life' = [life EXCEPT ![t] = "late"]
       \/ life[t] = "late" /\ life' = [life EXCEPT ![t] = "dead"]
    /\ UNCHANGED <<installation, keyring, issued, reach, pc, wanted, row, using,
                   answered>>

\* A new key becomes the current one; the old one may leave the keyring.
RotateKey ==
    /\ current < MaxKeys
    /\ current' = current + 1
    /\ retired' \in {retired, retired \cup {current}}
    /\ UNCHANGED <<installation, github, pc, wanted, row, using, answered>>

-----------------------------------------------------------------------------
Goto(q, position) == pc' = [pc EXCEPT ![q] = position]

\* authorizeInstallationAccess, and assertRepositoryAllowed for one repository.
Authorize(q, target) ==
    /\ pc[q] = "new"
    /\ wanted' = [wanted EXCEPT ![q] = target]
    /\ row' = [row EXCEPT ![q] = Row]
    /\ Goto(q, IF target \in allowlist \cup {"all"}
               THEN "acquire" ELSE "refused")
    /\ UNCHANGED <<installation, keyring, github, using, answered>>

Cached(q) == row[q].token # 0 /\ life[row[q].expiry] = "fresh"

\* decryptAndReencrypt throws when the key is gone, returns the envelope when
\* its key is current, and a new one otherwise.
AfterDecrypt(q) ==
    IF row[q].version \in retired THEN "refused"
    ELSE IF row[q].version = current THEN "read" ELSE "rotate"

UseCached(q) ==
    /\ pc[q] = "acquire"
    /\ Cached(q)
    /\ using' = [using EXCEPT ![q] = row[q].token]
    /\ Goto(q, AfterDecrypt(q))
    /\ UNCHANGED <<installation, keyring, github, wanted, row, answered>>

KeepsExpiry(q) == expiry  \* wrong: only the envelope is written

OwnExpiry(q) == row[q].expiry

\* updateToken of a rotated envelope, whatever the row holds by now.
StoreRotated(q) ==
    /\ pc[q] = "rotate"
    /\ token' = row[q].token
    /\ expiry' = OwnExpiry(q)
    /\ version' = current
    /\ Goto(q, "read")
    /\ UNCHANGED <<allowlist, keyring, github, wanted, row, using, answered>>

\* A token for the repositories of the allowlist, or a refusal: an empty
\* allowlist, an error, write permissions.
Fetch(q) ==
    /\ pc[q] = "acquire"
    /\ ~Cached(q)
    /\ \/ /\ row[q].allowlist # {}
          /\ issued < MaxTokens
          /\ issued' = issued + 1
          /\ reach' = [reach EXCEPT ![issued'] = row[q].allowlist]
          /\ using' = [using EXCEPT ![q] = issued']
          /\ Goto(q, "store")
       \/ Goto(q, "refused") /\ UNCHANGED <<issued, reach, using>>
    /\ UNCHANGED <<installation, keyring, life, wanted, row, answered>>

StoreFetched(q) ==
    /\ pc[q] = "store"
    /\ token' = using[q]
    /\ expiry' = using[q]
    /\ version' = current
    /\ Goto(q, "read")
    /\ UNCHANGED <<allowlist, keyring, github, wanted, row, using, answered>>

TokenDecides(q) == reach[using[q]]  \* wrong: GitHub's answer is passed on

\* The repositories route filters what the token reaches by its allowlist.
Listed(q) == reach[using[q]] \cap row[q].allowlist

\* A list of repositories, or the issues or pull requests of one.
Items(q) == IF wanted[q] = "all" THEN Listed(q) ELSE {wanted[q]}

\* request: a page, or an error of GitHub.
Read(q) ==
    /\ pc[q] = "read"
    /\ \/ /\ life[using[q]] # "dead"
          /\ wanted[q] \in reach[using[q]] \cup {"all"}
          /\ answered' = [answered EXCEPT ![q] = Items(q)]
          /\ Goto(q, "answered")
       \/ Goto(q, "refused") /\ UNCHANGED answered
    /\ UNCHANGED <<installation, keyring, github, wanted, row, using>>

Next ==
    \/ \E repositories \in SUBSET Repositories : Allow(repositories)
    \/ \E t \in Tokens : Age(t)
    \/ RotateKey
    \/ \E q \in Requests :
        \/ \E target \in Repositories \cup {"all"} : Authorize(q, target)
        \/ UseCached(q) \/ StoreRotated(q) \/ Fetch(q)
        \/ StoreFetched(q) \/ Read(q)

Spec == Init /\ [][Next]_vars

-----------------------------------------------------------------------------
\* The cached token is kept with its own expiry, however refreshes and
\* rotations interleave: a dead token is not taken for a fresh one.
TokenHasItsExpiry == token = expiry

\* A repository that left the allowlist before a request was authorised is not
\* in its answer, though the cached token still reaches it.
AnswersAreAllowed ==
    \A q \in Requests : answered[q] \subseteq row[q].allowlist

=============================================================================
