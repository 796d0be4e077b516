----------------------------- MODULE AuditTrail -----------------------------
(***************************************************************************)
(* The audit trail of a workspace and a client that reads it page by page  *)
(* while records are written.  created_at is the start of the transaction  *)
(* that writes the record, so records become visible in another order than *)
(* that of their stamps; ids are random.                                   *)
(*                                                                         *)
(* Stamps count microseconds, a millisecond being two of them.             *)
(***************************************************************************)
EXTENDS Naturals, Sequences, SequencesExt

CONSTANTS
    Ids,       \* ids of records, as numbers for their order
    LastTick,  \* bound: the clock
    Limits     \* limits a client may ask for, within 1 and 200 (50 without one)

VARIABLES
    clock,
    \* per id: created_at once its transaction has begun; those committed
    stamp, begun, committed,
    \* the client: limit (0: not chosen), cursor ("start", "end" or the last
    \* record's stamp and id), the ids it was given, the records there were
    \* when it began
    limit, cursor, listed, there

vars == <<clock, stamp, begun, committed, limit, cursor, listed, there>>

Init ==
    /\ clock = 0
    /\ stamp = [r \in Ids |-> 0]
    /\ begun = {} /\ committed = {}
    /\ limit = 0
    /\ cursor = [at |-> "start", stamp |-> 0, id |-> 0]
    /\ listed = <<>>
    /\ there = {}

-----------------------------------------------------------------------------
Tick ==
    /\ clock < LastTick
    /\ clock' = clock + 1
    /\ UNCHANGED <<stamp, begun, committed, limit, cursor, listed, there>>

\* record, from the start of its transaction to its commit.
BeginRecord(r) ==
    /\ r \notin begun
    /\ begun' = begun \cup {r}
    /\ stamp' = [stamp EXCEPT ![r] = clock]
    /\ UNCHANGED <<clock, committed, limit, cursor, listed, there>>

CommitRecord(r) ==
    /\ r \in begun \ committed
    /\ committed' = committed \cup {r}
    /\ UNCHANGED <<clock, stamp, begun, limit, cursor, listed, there>>

-----------------------------------------------------------------------------
\* ORDER BY created_at DESC, id DESC.
Newer(q, r) ==
    \/ stamp[q] > stamp[r]
    \/ stamp[q] = stamp[r] /\ q > r

StampOnly(r) == stamp[r] < cursor.stamp  \* wrong: ties are skipped

\* (created_at, id) < the cursor.
Behind(r) ==
    \/ stamp[r] < cursor.stamp
    \/ stamp[r] = cursor.stamp /\ r < cursor.id

\* The rows of the query: those after the cursor.
Matching == {r \in committed : cursor.at = "start" \/ Behind(r)}

\* The first rows of them in that order, up to the limit.
IsPage(page, size) ==
    /\ \A i, j \in DOMAIN page : i < j => Newer(page[i], page[j])
    /\ \A r \in Matching \ Range(page) :
           Len(page) = size /\ \A i \in DOMAIN page : Newer(page[i], r)

\* Wrong: created_at as the JavaScript date of the item, in milliseconds.
InMilliseconds(r) == stamp[r] - (stamp[r] % 2)

InMicroseconds(r) == stamp[r]

\* list: a full page carries the cursor of its last row.
ReadPage(size) ==
    /\ cursor.at # "end"
    /\ limit \in {0, size}
    /\ limit' = size
    /\ there' = IF cursor.at = "start" THEN committed ELSE there
    /\ \E page \in SeqOf(Matching, size) :
           /\ IsPage(page, size)
           /\ listed' = listed \o page
           /\ cursor' =
                  IF Len(page) = size
                  THEN [at |-> "row", stamp |-> InMicroseconds(page[size]),
                        id |-> page[size]]
                  ELSE [cursor EXCEPT !.at = "end"]
    /\ UNCHANGED <<clock, stamp, begun, committed>>

Next ==
    \/ Tick
    \/ \E r \in Ids : BeginRecord(r) \/ CommitRecord(r)
    \/ \E size \in Limits : ReadPage(size)

Spec == Init /\ [][Next]_vars

-----------------------------------------------------------------------------
\* No record is listed twice, and the pages are in one descending order.
ListedOnce ==
    \A i, j \in DOMAIN listed : i < j => Newer(listed[i], listed[j])

\* Every record that was there when the listing began is in it at the end,
\* whatever was committed in the meantime with an older stamp.
NothingSkipped ==
    cursor.at = "end" => there \subseteq Range(listed)

\* The pages of one listing amount to one query of the whole trail, made when
\* the listing began, plus what may have come since.
ListingIsComplete == ListedOnce /\ NothingSkipped

=============================================================================
