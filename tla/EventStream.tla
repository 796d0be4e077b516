----------------------------- MODULE EventStream -----------------------------
(***************************************************************************)
(* The event log of one run and its live view on the phone: transactions   *)
(* that append through append_run_event, the SSE loop streamRunEvents that *)
(* replays and follows the log in pages, and the mobile client that        *)
(* reconnects from its cursor into the run store, together with the poll   *)
(* that reports which events reached the Matrix room.                      *)
(*                                                                         *)
(* An event is its sequence number; its payload is left out.  What travels *)
(* on a connection are whole frames: eventFromFrame discards a frame that  *)
(* a broken connection cut short, as the model discards the whole frame.   *)
(***************************************************************************)
EXTENDS Naturals, FiniteSets, FiniteSetsExt, Sequences

CONSTANTS
    Writers,         \* transactions that append events of the run
    MaxEvents,       \* bound: events appended to the run
    PageLimit,       \* SSE_REPLAY_LIMIT
    MaxDisturbances  \* bound: failed requests, broken connections, remounts

ASSUME PageAssumption == PageLimit \in Nat \ {0}
ASSUME BoundAssumption == MaxEvents \in Nat /\ MaxDisturbances \in Nat

VARIABLES
    \* run_events and runs.status; log[n] = "none" when n is not committed
    log, ended,
    \* per open transaction: the sequence number it allocated (0: none), the
    \* kind of its event
    txSeq, txKind,
    \* streamRunEvents of the current connection, the frames in flight
    srv, srvCursor, srvEnded, srvMore, net,
    \* the connection as the client sees it ("done": terminalReceived), and
    \* the run store
    link, shown, highest, delivered, pendingDeliveries,
    \* sequences whose delivery was reported while the screen was open
    reported,
    disturbances

serverVars == <<srv, srvCursor, srvEnded, srvMore>>
storeVars == <<shown, highest, delivered, pendingDeliveries>>
writeVars == <<log, ended, txSeq, txKind>>
vars == <<writeVars, serverVars, net, link, storeVars, reported,
          disturbances>>

Kinds == {"progress", "terminal"}
Seqs == 1..MaxEvents

TypeOK ==
    /\ log \in [Seqs -> Kinds \cup {"none"}]
    /\ ended \in BOOLEAN
    /\ txSeq \in [Writers -> Seqs \cup {0}]
    /\ txKind \in [Writers -> Kinds]
    /\ srv \in {"none", "readRun", "readPage", "decide", "closed"}
    /\ srvCursor \in 0..MaxEvents
    /\ srvEnded \in BOOLEAN
    /\ srvMore \in BOOLEAN
    /\ net \in Seq(Seqs)
    /\ link \in {"off", "opening", "open", "waiting", "refused", "done"}
    /\ shown \in Seq(Seqs)
    /\ highest \in 0..MaxEvents
    /\ delivered \subseteq Seqs
    /\ pendingDeliveries \subseteq Seqs
    /\ reported \subseteq Seqs
    /\ disturbances \in 0..MaxDisturbances

Init ==
    /\ log = [n \in Seqs |-> "none"]
    /\ ended = FALSE
    /\ txSeq = [w \in Writers |-> 0]
    /\ txKind = [w \in Writers |-> "progress"]
    /\ srv = "none"
    /\ srvCursor = 0
    /\ srvEnded = FALSE
    /\ srvMore = FALSE
    /\ net = <<>>
    /\ link = "off"
    /\ shown = <<>>
    /\ highest = 0
    /\ delivered = {}
    /\ pendingDeliveries = {}
    /\ reported = {}
    /\ disturbances = 0

-----------------------------------------------------------------------------
(* The log.                                                                *)

Committed == {n \in Seqs : log[n] # "none"}

Allocated == Committed \cup ({txSeq[w] : w \in Writers} \ {0})

NextAfter(s) == IF s = {} THEN 1 ELSE Max(s) + 1

\* Wrong: a counter outside the transaction hands out the numbers.
AllocatesFromCounter(n) == n = NextAfter(Allocated)

\* The row lock is free and n follows the last committed sequence.
Allocates(n) ==
    /\ \A w \in Writers : txSeq[w] = 0
    /\ n = NextAfter(Committed)

\* append_run_event: the transaction holds the run row from here on.  A
\* terminal event comes with the guarded update of runs.status.
BeginAppend(w, kind) ==
    /\ txSeq[w] = 0
    /\ kind = "terminal" => ~ended
    /\ \E n \in Seqs :
        /\ Allocates(n)
        /\ txSeq' = [txSeq EXCEPT ![w] = n]
    /\ txKind' = [txKind EXCEPT ![w] = kind]
    /\ UNCHANGED <<log, ended, serverVars, net, link, storeVars, reported,
                   disturbances>>

CommitAppend(w) ==
    /\ txSeq[w] # 0
    /\ log' = [log EXCEPT ![txSeq[w]] = txKind[w]]
    /\ ended' = (ended \/ txKind[w] = "terminal")
    /\ txSeq' = [txSeq EXCEPT ![w] = 0]
    /\ UNCHANGED <<txKind, serverVars, net, link, storeVars, reported,
                   disturbances>>

\* The enqueue behind the append fails, or the process dies.
RollbackAppend(w) ==
    /\ txSeq[w] # 0
    /\ disturbances < MaxDisturbances
    /\ disturbances' = disturbances + 1
    /\ txSeq' = [txSeq EXCEPT ![w] = 0]
    /\ UNCHANGED <<log, ended, txKind, serverVars, net, link, storeVars,
                   reported>>

-----------------------------------------------------------------------------
(* streamRunEvents.                                                        *)

\* The status is read in a transaction of its own, before the page.
ReadRun ==
    /\ srv = "readRun"
    /\ srvEnded' = ended
    /\ srv' = "readPage"
    /\ UNCHANGED <<writeVars, srvCursor, srvMore, net, link, storeVars,
                   reported, disturbances>>

After(cursor) == {n \in Committed : n > cursor}

\* listEventsPage: the first PageLimit events behind the cursor.
Page(cursor) ==
    {n \in After(cursor) :
        Cardinality({m \in After(cursor) : m <= n}) <= PageLimit}

\* ORDER BY sequence: the i-th has i - 1 smaller ones.
InOrder(page) ==
    [i \in 1..Cardinality(page) |->
        CHOOSE n \in page : Cardinality({m \in page : m <= n}) = i]

ReadPage ==
    /\ srv = "readPage"
    /\ LET page == Page(srvCursor)
       IN  /\ net' = net \o InOrder(page)
           /\ srvCursor' = IF page = {} THEN srvCursor ELSE Max(page)
           /\ srvMore' = (page # After(srvCursor))
    /\ srv' = "decide"
    /\ UNCHANGED <<writeVars, srvEnded, link, storeVars, reported,
                   disturbances>>

EndedByNow == ended  \* wrong: the status is read after the page

\* The status as it was read before the page.
EndedBeforePage == srvEnded

\* More pages, terminal close, or another round after the poll interval.
DecideClose ==
    /\ srv = "decide"
    /\ srv' = IF ~srvMore /\ EndedBeforePage THEN "closed" ELSE "readRun"
    /\ UNCHANGED <<writeVars, srvCursor, srvEnded, srvMore, net, link,
                   storeVars, reported, disturbances>>

-----------------------------------------------------------------------------
(* The client: connect, open, consumeFrame, queueReconnect, dispose.       *)

Disturb ==
    /\ disturbances < MaxDisturbances
    /\ disturbances' = disturbances + 1

Forget == net' = <<>> /\ srv' = "none"

StoreHasTerminal == \E i \in DOMAIN shown : log[shown[i]] = "terminal"

ForgetsTerminal == FALSE  \* wrong: connect starts from scratch

AnyEventEnds == shown # <<>>  \* wrong: a run with events counts as read

\* What connect reads from the run store before it opens a connection.
KnownTerminal == StoreHasTerminal

\* The screen of the run is opened, or opened again.
Connect ==
    /\ link \in {"off", "refused"}
    /\ link = "refused" => Disturb
    /\ link = "off" => UNCHANGED disturbances
    /\ link' = IF KnownTerminal THEN "done" ELSE "opening"
    /\ UNCHANGED <<writeVars, serverVars, net, storeVars, reported>>

\* The screen is left.
Dispose ==
    /\ link # "off"
    /\ Disturb
    /\ link' = "off"
    /\ Forget
    /\ UNCHANGED <<writeVars, srvCursor, srvEnded, srvMore, storeVars,
                   reported>>

\* The request is accepted: the server follows the log from the cursor.
OpenAccepted ==
    /\ link = "opening"
    /\ link' = "open"
    /\ srv' = "readRun"
    /\ srvCursor' = highest
    /\ net' = <<>>
    /\ UNCHANGED <<writeVars, srvEnded, srvMore, storeVars, reported,
                   disturbances>>

\* Transport error, 429 or 5xx.
OpenFailed ==
    /\ link = "opening"
    /\ Disturb
    /\ link' = "waiting"
    /\ UNCHANGED <<writeVars, serverVars, net, storeVars, reported>>

\* No session, 401 or any other 4xx: the client does not come back by itself.
OpenRefused ==
    /\ link = "opening"
    /\ Disturb
    /\ link' = "refused"
    /\ UNCHANGED <<writeVars, serverVars, net, storeVars, reported>>

\* The connection breaks or ends early, or streamRunEvents throws: frames in
\* flight are lost.  (A body the server ends by itself has brought the terminal
\* event, see ClosedAfterTerminal, and Receive has ended the connection.)
ConnectionLost ==
    /\ link = "open"
    /\ Disturb
    /\ link' = "waiting"
    /\ Forget
    /\ UNCHANGED <<writeVars, srvCursor, srvEnded, srvMore, storeVars,
                   reported>>

\* addEvent: the store takes what lies behind its highest sequence, and
\* settles the delivery mark that arrived before the event.
AddEvent(n) ==
    IF n > highest
    THEN /\ shown' = Append(shown, n)
         /\ highest' = n
         /\ delivered' = delivered \cup (pendingDeliveries \cap {n})
         /\ pendingDeliveries' = pendingDeliveries \ {n}
    ELSE UNCHANGED storeVars

\* consumeFrame; the read loop ends with the terminal event.
Receive ==
    /\ link = "open"
    /\ net # <<>>
    /\ UNCHANGED <<writeVars, srvCursor, srvEnded, srvMore, reported,
                   disturbances>>
    /\ AddEvent(Head(net))
    /\ IF StoreHasTerminal'
       THEN link' = "done" /\ Forget
       ELSE net' = Tail(net) /\ UNCHANGED <<link, srv>>

Reconnect ==
    /\ link = "waiting"
    /\ link' = "opening"
    /\ UNCHANGED <<writeVars, serverVars, net, storeVars, reported,
                   disturbances>>

-----------------------------------------------------------------------------
(* The delivery poll of the run screen.                                    *)

\* Wrong: a mark that arrives before its event is dropped.
MarkKnownOnly(n) ==
    /\ delivered' = IF \E i \in DOMAIN shown : shown[i] = n
                    THEN delivered \cup {n} ELSE delivered
    /\ UNCHANGED pendingDeliveries

\* markMatrixDelivered.
MarkDelivered(n) ==
    \/ /\ \E i \in DOMAIN shown : shown[i] = n
       /\ delivered' = delivered \cup {n}
       /\ UNCHANGED pendingDeliveries
    \/ /\ \A i \in DOMAIN shown : shown[i] # n
       /\ pendingDeliveries' = IF n > highest THEN pendingDeliveries \cup {n}
                               ELSE pendingDeliveries
       /\ UNCHANGED delivered

\* The poll answers with a committed event that reached the room.
DeliveryReported(n) ==
    /\ link # "off"
    /\ n \in Committed
    /\ n \notin reported
    /\ MarkDelivered(n)
    /\ reported' = reported \cup {n}
    /\ UNCHANGED <<writeVars, serverVars, net, link, shown, highest,
                   disturbances>>

-----------------------------------------------------------------------------
Server == ReadRun \/ ReadPage \/ DecideClose

Client == Connect \/ OpenAccepted \/ Receive \/ Reconnect

Trouble ==
    \/ Dispose \/ OpenFailed \/ OpenRefused \/ ConnectionLost
    \/ \E w \in Writers : RollbackAppend(w)

\* The log is full and the reader has all of it, or nobody reads any more.
Quiet ==
    /\ link \in {"done", "refused"}
    /\ UNCHANGED vars

Next ==
    \/ \E w \in Writers, kind \in Kinds : BeginAppend(w, kind)
    \/ \E w \in Writers : CommitAppend(w)
    \/ Server \/ Client \/ Trouble
    \/ \E n \in Seqs : DeliveryReported(n)
    \/ Quiet

Spec == Init /\ [][Next]_vars

\* Transactions commit, the SSE loop keeps polling, and the phone keeps
\* reading and reconnecting while the screen is open.
FairSpec ==
    /\ Spec
    /\ \A w \in Writers : WF_vars(CommitAppend(w))
    /\ WF_vars(Server)
    /\ WF_vars(Receive)
    /\ WF_vars(Reconnect)
    /\ WF_vars(OpenAccepted)

-----------------------------------------------------------------------------
\* Sequence numbers have no holes at any moment a reader can look: a number
\* is never visible before all smaller ones are, so a cursor skips nothing.
NoHoles == Committed = 1..Cardinality(Committed)

\* The phone shows what RunFeed promises: the log in order, without a hole or
\* a repetition, up to the terminal event.
Feed == INSTANCE RunFeed WITH
    published <- [n \in 1..Cardinality(Committed) |-> log[n]],
    shown <- [i \in 1..Len(shown) |-> log[shown[i]]]

FeedSpec == Feed!Spec

\* A stream the server closes by itself has carried the terminal event.
ClosedAfterTerminal ==
    srv = "closed" => \E n \in 1..srvCursor : log[n] = "terminal"

\* A delivery report is not lost when it overtakes the event it is about.
ReportsKept ==
    \A i \in DOMAIN shown : shown[i] \in reported => shown[i] \in delivered

\* Once the run has ended the phone comes to show it, or it was refused or
\* the screen was left.
ReaderLearnsEnd ==
    ended ~> (StoreHasTerminal \/ link \in {"off", "refused"})

=============================================================================
