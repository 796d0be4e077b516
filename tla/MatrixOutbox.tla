---------------------------- MODULE MatrixOutbox ----------------------------
(***************************************************************************)
(* Delivery of a run's events to its Matrix room: the outbox rows written  *)
(* with the events, the workers that drain them (a triggered drain of one  *)
(* tenant, a sweep of all), and the homeserver behind the send.            *)
(*                                                                         *)
(* A tenant is an owner in a workspace, with one run and one room; its     *)
(* messages are numbered in the order of the run's events.  deliverOne is  *)
(* one transaction around the send, with the outbox row locked: its steps  *)
(* are the claim, the send and the commit.  The number of attempts only    *)
(* sets the length of the backoff and is left out, as the rendering is.    *)
(***************************************************************************)
EXTENDS Naturals, FiniteSets, SequencesExt

CONSTANTS
    Tenants,
    Drainers,     \* executions of matrix-delivery
    Sweepers,     \* executions of matrix-delivery-sweeper
    MaxMessages,  \* bound: messages per tenant
    MaxSessions,  \* bound: logins per tenant
    MaxFaults,    \* bound: crashes and retryable failures, altogether
    BatchSize,    \* options.batchSize
    KeyLoss       \* TRUE: an envelope key may be retired

ASSUME SizeAssumption == BatchSize \in Nat \ {0} /\ MaxMessages \in Nat
ASSUME WorkerAssumption == Drainers \cap Sweepers = {}
ASSUME FaultAssumption == MaxSessions \in Nat \ {0} /\ MaxFaults \in Nat
ASSUME KeyAssumption == KeyLoss \in BOOLEAN

Workers == Drainers \cup Sweepers
Messages == 1..MaxMessages
Sessions == 1..MaxSessions

VARIABLES
    \* outbox_messages.status; "backoff": pending, next_attempt_at in the future
    msg,
    \* sessions: how many were created, those still active, those whose token
    \* cannot be decrypted any more; room_bindings
    issued, active, unreadable, bound,
    \* the homeserver: what each room shows, as message and session that sent it
    room,
    \* per worker: position, tenants still to drain, current tenant, candidate
    \* messages still to deliver, session it sends with (0: no transaction open)
    pc, todo, who, batch, with,
    faults

accounts == <<issued, active, unreadable, bound>>
work == <<todo, who, batch, with>>
vars == <<msg, accounts, room, pc, work, faults>>

Settled == {"delivered", "failed", "dead"}

\* Where a worker stands: between its queries, with the row locked before the
\* send, and with the homeserver's answer in hand.
Answered == {"accepted", "retryable", "permanent"}
Positions == {"idle", "tenant", "message", "send"} \cup Answered

\* Every owner is logged in and has bound the room when the run is launched.
Init ==
    /\ msg = [t \in Tenants |-> [n \in Messages |-> "absent"]]
    /\ issued = [t \in Tenants |-> 1]
    /\ active = [t \in Tenants |-> {1}]
    /\ unreadable = [t \in Tenants |-> {}]
    /\ bound = [t \in Tenants |-> TRUE]
    /\ room = [t \in Tenants |-> <<>>]
    /\ pc = [w \in Workers |-> "idle"]
    /\ todo = [w \in Workers |-> {}]
    /\ who \in [Workers -> Tenants]
    /\ batch = [w \in Workers |-> <<>>]
    /\ with = [w \in Workers |-> 0]
    /\ faults = 0

-----------------------------------------------------------------------------
(* Around the workers.                                                     *)

\* The outbox row is committed with its event, in sequence order.
Publish(t) ==
    /\ \E n \in Messages :
        /\ msg[t][n] = "absent"
        /\ \A m \in Messages : m < n => msg[t][m] # "absent"
        /\ msg' = [msg EXCEPT ![t][n] = "pending"]
    /\ UNCHANGED <<accounts, room, pc, work, faults>>

\* next_attempt_at passes.
BackoffElapses(t, n) ==
    /\ msg[t][n] = "backoff"
    /\ msg' = [msg EXCEPT ![t][n] = "pending"]
    /\ UNCHANGED <<accounts, room, pc, work, faults>>

Login(t) ==
    /\ issued[t] < MaxSessions
    /\ issued' = [issued EXCEPT ![t] = @ + 1]
    /\ active' = [active EXCEPT ![t] = @ \cup {issued[t] + 1}]
    /\ UNCHANGED <<msg, unreadable, bound, room, pc, work, faults>>

\* Logout or expiry.
EndSession(t, k) ==
    /\ k \in active[t]
    /\ active' = [active EXCEPT ![t] = @ \ {k}]
    /\ UNCHANGED <<msg, issued, unreadable, bound, room, pc, work, faults>>

\* The owner binds the room to another workspace, or back to this one.
Rebind(t) ==
    /\ bound' = [bound EXCEPT ![t] = ~@]
    /\ UNCHANGED <<msg, issued, active, unreadable, room, pc, work, faults>>

\* The key that encrypted the tokens so far leaves the keyring.
RetireKey ==
    /\ KeyLoss
    /\ unreadable' = active
    /\ UNCHANGED <<msg, issued, active, bound, room, pc, work, faults>>

-----------------------------------------------------------------------------
(* What the queries select.                                                *)

IsPending(t, n) == msg[t][n] \in {"pending", "backoff"}

\* The candidates of deliverPending, and of the sweep's tenant query.
Candidates(t) ==
    {n \in Messages :
        /\ msg[t][n] = "pending"
        /\ \A m \in Messages : m < n => msg[t][m] # "backoff"}

FirstCandidates(t) ==
    LET all == SetToSortSeq(Candidates(t), <)
    IN  SubSeq(all, 1, IF Len(all) < BatchSize THEN Len(all) ELSE BatchSize)

DueOnly(t, n) == msg[t][n] = "pending"  \* wrong: earlier messages are ignored

\* Wrong: a later message waits until every earlier one is delivered.
EarlierDelivered(t, n) ==
    /\ msg[t][n] = "pending"
    /\ \A m \in Messages : m < n => msg[t][m] = "delivered"

\* The claim of deliverOne.
Claimable(t, n) ==
    /\ n \in Messages
    /\ msg[t][n] = "pending"
    /\ \A m \in Messages : m < n => ~IsPending(t, m)

Locking(w) == pc[w] = "send" \/ pc[w] \in Answered

Unlocked(t, n) == TRUE  \* wrong: the claim does not lock the row

\* FOR UPDATE OF candidate: held from the claim to the commit.
Lockable(t, n) ==
    \A w \in Workers :
        ~(Locking(w) /\ who[w] = t /\ Head(batch[w]) = n)

Latest(t) == CHOOSE k \in active[t] : \A j \in active[t] : j <= k

-----------------------------------------------------------------------------
(* The workers.                                                            *)

Goto(w, p) == pc' = [pc EXCEPT ![w] = p]

Mark(w, status) ==
    msg' = [msg EXCEPT ![who[w]][Head(batch[w])] = status]

Release(w) == with' = [with EXCEPT ![w] = 0]

DropHead(w) == batch' = [batch EXCEPT ![w] = Tail(@)]

\* matrix-delivery is triggered by a new event, or retried.
TriggerDrain(w, t) ==
    /\ w \in Drainers
    /\ pc[w] = "idle"
    /\ todo' = [todo EXCEPT ![w] = {t}]
    /\ Goto(w, "tenant")
    /\ UNCHANGED <<msg, accounts, room, who, batch, with, faults>>

\* The cron: pending_matrix_delivery_tenants.
TriggerSweep(w) ==
    /\ w \in Sweepers
    /\ pc[w] = "idle"
    /\ {t \in Tenants : Candidates(t) # {}} # {}
    /\ todo' = [todo EXCEPT ![w] = {t \in Tenants : Candidates(t) # {}}]
    /\ Goto(w, "tenant")
    /\ UNCHANGED <<msg, accounts, room, who, batch, with, faults>>

ListCandidates(w) ==
    /\ pc[w] = "tenant"
    /\ \/ /\ todo[w] = {}
          /\ Goto(w, "idle")
          /\ UNCHANGED <<todo, who, batch>>
       \/ \E t \in todo[w] :
            /\ todo' = [todo EXCEPT ![w] = @ \ {t}]
            /\ who' = [who EXCEPT ![w] = t]
            /\ batch' = [batch EXCEPT ![w] = FirstCandidates(t)]
            /\ Goto(w, "message")
    /\ UNCHANGED <<msg, accounts, room, with, faults>>

BatchDone(w) ==
    /\ pc[w] = "message"
    /\ batch[w] = <<>>
    /\ Goto(w, "tenant")
    /\ UNCHANGED <<msg, accounts, room, work, faults>>

\* The message was settled, put off or overtaken since it was listed.
Skip(w) ==
    /\ pc[w] = "message"
    /\ batch[w] # <<>>
    /\ Lockable(who[w], Head(batch[w]))
    /\ ~Claimable(who[w], Head(batch[w]))
    /\ DropHead(w)
    /\ UNCHANGED <<msg, accounts, room, pc, todo, who, with, faults>>

Claiming(w) ==
    /\ pc[w] = "message"
    /\ batch[w] # <<>>
    /\ Lockable(who[w], Head(batch[w]))
    /\ Claimable(who[w], Head(batch[w]))

\* No binding, or no active session: settled without a send.
Bury(w) ==
    /\ Claiming(w)
    /\ \/ ~bound[who[w]] /\ Mark(w, "dead")
       \/ bound[who[w]] /\ active[who[w]] = {} /\ Mark(w, "failed")
    /\ DropHead(w)
    /\ UNCHANGED <<accounts, room, pc, todo, who, with, faults>>

\* The token cannot be decrypted: the error leaves deliverPending and, not
\* being a retryable Matrix error, the sweep as well.
ThrowUnreadable(w) ==
    /\ Claiming(w)
    /\ bound[who[w]]
    /\ active[who[w]] # {}
    /\ Latest(who[w]) \in unreadable[who[w]]
    /\ Goto(w, "idle")
    /\ todo' = [todo EXCEPT ![w] = {}]
    /\ batch' = [batch EXCEPT ![w] = <<>>]
    /\ UNCHANGED <<msg, accounts, room, who, with, faults>>

Claim(w) ==
    /\ Claiming(w)
    /\ bound[who[w]]
    /\ active[who[w]] # {}
    /\ Latest(who[w]) \notin unreadable[who[w]]
    /\ with' = [with EXCEPT ![w] = Latest(who[w])]
    /\ Goto(w, "send")
    /\ UNCHANGED <<msg, accounts, room, todo, who, batch, faults>>

\* Wrong: every attempt carries a transaction id of its own.
FreshTransaction(entry, n, k) == FALSE

\* The delivery key is the transaction id; the homeserver knows it again when
\* it comes with the same access token.
SameTransaction(entry, n, k) == entry = <<n, k>>

Accept(t, n, k) ==
    room' = [room EXCEPT ![t] =
                IF \E i \in DOMAIN @ : SameTransaction(@[i], n, k) THEN @
                ELSE Append(@, <<n, k>>)]

\* sendMessage: accepted; accepted but the answer is lost; not accepted, with a
\* 429, 5xx or transport error; refused.
Send(w) ==
    /\ pc[w] = "send"
    /\ \E answer \in Answered : Goto(w, answer)
    /\ \/ pc'[w] = "accepted" /\ UNCHANGED faults
       \/ pc'[w] = "permanent" /\ UNCHANGED faults
       \/ pc'[w] = "retryable" /\ faults < MaxFaults /\ faults' = faults + 1
    /\ \/ /\ pc'[w] \in {"accepted", "retryable"}
          /\ Accept(who[w], Head(batch[w]), with[w])
       \/ pc'[w] \in {"retryable", "permanent"} /\ UNCHANGED room
    /\ UNCHANGED <<msg, accounts, work>>

\* The end of deliverOne: the row is settled and the batch goes on.
CommitSettled(w) ==
    /\ \/ pc[w] = "accepted" /\ Mark(w, "delivered")
       \/ pc[w] = "permanent" /\ Mark(w, "failed")
    /\ DropHead(w)
    /\ Release(w)
    /\ Goto(w, "message")
    /\ UNCHANGED <<accounts, room, todo, who, faults>>

\* A retryable error puts the message off and leaves deliverPending; the sweep
\* goes on with the next tenant.
CommitRetry(w) ==
    /\ pc[w] = "retryable"
    /\ Mark(w, "backoff")
    /\ batch' = [batch EXCEPT ![w] = <<>>]
    /\ Release(w)
    /\ Goto(w, IF w \in Sweepers THEN "tenant" ELSE "idle")
    /\ UNCHANGED <<accounts, room, todo, who, faults>>

\* The process dies: its transaction is rolled back, its lock released.
Crash(w) ==
    /\ pc[w] # "idle"
    /\ faults < MaxFaults
    /\ faults' = faults + 1
    /\ Goto(w, "idle")
    /\ todo' = [todo EXCEPT ![w] = {}]
    /\ batch' = [batch EXCEPT ![w] = <<>>]
    /\ Release(w)
    /\ UNCHANGED <<msg, accounts, room, who>>

-----------------------------------------------------------------------------
WorkerStep(w) ==
    \/ ListCandidates(w) \/ BatchDone(w) \/ Skip(w) \/ Bury(w)
    \/ ThrowUnreadable(w) \/ Claim(w) \/ Send(w)
    \/ CommitSettled(w) \/ CommitRetry(w)

Environment ==
    \/ \E t \in Tenants : Publish(t) \/ Login(t) \/ Rebind(t)
    \/ \E t \in Tenants, k \in Sessions : EndSession(t, k)
    \/ \E t \in Tenants, n \in Messages : BackoffElapses(t, n)
    \/ RetireKey

Next ==
    \/ Environment
    \/ \E w \in Drainers, t \in Tenants : TriggerDrain(w, t)
    \/ \E w \in Sweepers : TriggerSweep(w)
    \/ \E w \in Workers : WorkerStep(w) \/ Crash(w)

Spec == Init /\ [][Next]_vars

\* A started worker goes on: its sends time out, its queries return.  The cron
\* fires every minute and backoffs are at most 300 seconds.  No drain is
\* promised: a failed dispatch is logged and forgotten.
FairSpec ==
    /\ Spec
    /\ \A w \in Workers : WF_vars(WorkerStep(w))
    /\ \A w \in Sweepers : WF_vars(TriggerSweep(w))
    /\ \A t \in Tenants, n \in Messages : WF_vars(BackoffElapses(t, n))

-----------------------------------------------------------------------------
\* Two workers never have sends for the same room in flight at once, so the
\* room cannot see them in the wrong order, nor one message twice in a race.
SendExclusive ==
    \A v, w \in Workers :
        /\ v # w
        /\ Locking(v)
        /\ Locking(w)
        => who[v] # who[w]

\* However often it is retried after lost answers and crashes, a message is in
\* the room at most once while the owner keeps the session it was sent with.
OncePerSession ==
    \A t \in Tenants :
        issued[t] = 1 =>
            \A i, j \in DOMAIN room[t] :
                room[t][i][1] = room[t][j][1] => i = j

NumSettled(t) == Cardinality({n \in Messages : msg[t][n] \in Settled})

\* The outbox keeps what OrderedRoom promises, for every tenant.
Promise == INSTANCE OrderedRoom WITH
    published <- [t \in Tenants |->
        Cardinality({n \in Messages : msg[t][n] # "absent"})],
    outcomes <- [t \in Tenants |-> [i \in 1..NumSettled(t) |-> msg[t][i]]],
    room <- [t \in Tenants |-> [i \in 1..Len(room[t]) |-> room[t][i][1]]]

PromiseSpec == Promise!Spec

\* Every message is settled in the end, on sweeps alone: one that is settled
\* as failed or dead does not hold back those behind it, and one that is put
\* off is taken up again.
EveryMessageSettles ==
    \A t \in Tenants, n \in Messages :
        IsPending(t, n) ~> msg[t][n] \in Settled

-----------------------------------------------------------------------------
\* "non-retryable failures and poison messages are marked terminal": a message
\* whose token cannot be decrypted any more does not stay pending.
PoisonSettles ==
    \A t \in Tenants, n \in Messages :
        IsPending(t, n) /\ unreadable[t] # {}
            ~> msg[t][n] \in Settled \/ issued[t] \notin unreadable[t]

=============================================================================
