--------------------------- MODULE GithubWorkspace ---------------------------
(***************************************************************************)
(* The GitHub workspace screen of one run and what its confirmations do:   *)
(* the grant the user asks for, the approval every confirmation records,   *)
(* the key the command is sent with, and the commands behind those keys.   *)
(*                                                                         *)
(* An attempt is one press of Confirm, or of Verify.  It goes through the  *)
(* approvals route and then through enqueueMutationCommand; it goes on     *)
(* when its screen stopped waiting, or was closed.  What the worker does   *)
(* for one key, step by step, is MutationCommand; here it is its recheck,  *)
(* its call and its mark.                                                  *)
(***************************************************************************)
EXTENDS Naturals

CONSTANTS
    Contents,     \* what can be typed: title and body
    Nothing,      \* the empty form, the empty ref
    MaxAttempts,  \* bound: presses of Confirm and Verify
    MaxFaults,    \* bound: lost requests and answers, crashes of the server
    MaxChanges    \* bound: changes of the grant

ASSUME ContentAssumption == Nothing \notin Contents
ASSUME BoundAssumption ==
    MaxAttempts \in Nat /\ MaxFaults \in Nat /\ MaxChanges \in Nat

Attempts == 1..MaxAttempts

\* Idempotency keys and approval ids: each is drawn by one attempt.
Keys == Attempts

VARIABLES
    \* the screen: form, review panel, mutationState, commandId, the grant it
    \* was told of, the ref pendingMutation, the attempt it awaits (0: none)
    content, reviewing, shown, commandId, grant, pending, waiting,
    \* per attempt: position; content, key and approval it carries
    pc, job,
    \* github_write_grants.status ("expired": approved, past expires_at)
    grantRow,
    \* mutation_approvals: the content behind command_hash, still unexpired
    approved, fresh,
    \* github_mutation_commands by key: status and content
    status, ordered,
    \* ghost: the intent of each attempt, named by its first attempt, and the
    \* effects at GitHub for each intent; the last confirmed content
    intent, applied, lastContent,
    attempts, faults, changes

form == <<content, reviewing, grant>>
report == <<shown, commandId, waiting>>
server == <<approved, fresh, status, ordered, applied>>
ghost == <<intent, lastContent>>
bounds == <<attempts, faults, changes>>
vars == <<form, report, pending, pc, job, grantRow, server, ghost, bounds>>

\* The grant may have been asked for, and approved, on an earlier visit.
Init ==
    /\ content = Nothing /\ reviewing = FALSE /\ grant = "none"
    /\ shown = "idle" /\ commandId = 0 /\ waiting = 0
    /\ pending = [content |-> Nothing, key |-> 0, approval |-> 0]
    /\ pc = [n \in Attempts |-> "unused"]
    /\ job = [n \in Attempts |-> pending]
    /\ grantRow \in {"none", "approved"}
    /\ approved = [a \in Attempts |-> Nothing]
    /\ fresh = [a \in Attempts |-> TRUE]
    /\ status = [k \in Keys |-> "none"]
    /\ ordered = [k \in Keys |-> Nothing]
    /\ intent = [n \in Attempts |-> 0]
    /\ applied = [i \in Attempts |-> 0]
    /\ lastContent = Nothing
    /\ attempts = 0 /\ faults = 0 /\ changes = 0

-----------------------------------------------------------------------------
(* The user and the screen.                                                *)

\* Bound: after the last attempt the user at most leaves.
Active == attempts < MaxAttempts

\* A pending grant is inserted, or there is one.
CreateGrant == grantRow' = IF grantRow = "none" THEN "pending" ELSE grantRow

\* The status of the row, which does not tell that expires_at is past.
GrantAnswer == IF grantRow' = "expired" THEN "approved" ELSE grantRow'

\* An answer that is lost leaves the button.
RequestGrant ==
    /\ Active
    /\ grant = "none"
    /\ CreateGrant
    /\ grant' \in {"none", GrantAnswer}
    /\ UNCHANGED <<content, reviewing, report, pending, pc, job, server, ghost,
                   bounds>>

FormOpen == grant \in {"pending", "approved"}

Edit(c) ==
    /\ Active /\ FormOpen /\ ~reviewing
    /\ c # content
    /\ content' = c
    /\ UNCHANGED <<reviewing, grant, report, pending, pc, job, grantRow, server,
                   ghost, bounds>>

Review ==
    /\ Active /\ FormOpen /\ ~reviewing
    /\ content # Nothing
    /\ reviewing' = TRUE
    /\ shown' = "idle"
    /\ commandId' = 0
    /\ UNCHANGED <<content, grant, waiting, pending, pc, job, grantRow, server,
                   ghost, bounds>>

Dismiss ==
    /\ Active /\ reviewing /\ shown # "submitting"
    /\ reviewing' = FALSE
    /\ UNCHANGED <<content, grant, report, pending, pc, job, grantRow, server,
                   ghost, bounds>>

\* The screen is left and opened again: its state and its ref are new.
Reopen ==
    /\ content' = Nothing /\ reviewing' = FALSE /\ grant' = "none"
    /\ shown' = "idle" /\ commandId' = 0 /\ waiting' = 0
    /\ pending' = [content |-> Nothing, key |-> 0, approval |-> 0]
    /\ lastContent' = Nothing
    /\ UNCHANGED <<pc, job, grantRow, server, intent, bounds>>

AlwaysFresh(n) == n  \* wrong: every confirmation draws a key

\* Wrong: the pending key is used whatever it was for.
AnyPending(n) == IF pending.key # 0 THEN pending.key ELSE n

\* The key of the pending mutation if its fingerprint is this content's.  Only
\* this attempt can change the ref before it sends the key.
KeyFor(n) == IF pending.content = content THEN pending.key ELSE n

Begin(n, position, key, approval) ==
    /\ n = attempts + 1
    /\ attempts' = n
    /\ pc' = [pc EXCEPT ![n] = position]
    /\ job' = [job EXCEPT ![n] =
                  [content |-> content, key |-> key, approval |-> approval]]
    /\ shown' = "submitting"
    /\ waiting' = n
    /\ intent' = [intent EXCEPT ![n] =
                     IF content = lastContent THEN intent[attempts] ELSE n]
    /\ lastContent' = content

Confirm(n) ==
    /\ reviewing /\ shown \notin {"submitting", "succeeded"}
    /\ Begin(n, "approve", KeyFor(n), n)
    /\ UNCHANGED <<form, commandId, pending, grantRow, server, faults, changes>>

Verify(n) ==
    /\ reviewing /\ shown = "succeeded"
    /\ pending.key # 0
    /\ Begin(n, "find", pending.key, pending.approval)
    /\ UNCHANGED <<form, commandId, pending, grantRow, server, faults, changes>>

-----------------------------------------------------------------------------
(* The answers.                                                            *)

Goto(n, position) == pc' = [pc EXCEPT ![n] = position]

\* Wrong: the panel keeps what it shows.
ShownUnless(n, result) == shown

\* applyMutationResult and mapMutationError.
ShownAfter(n, result) == IF waiting = n THEN result ELSE shown

Tell(n, result) ==
    /\ shown' = ShownAfter(n, result)
    /\ waiting' = IF waiting = n THEN 0 ELSE waiting
    /\ commandId' = IF waiting = n /\ result \in {"succeeded", "duplicate"}
                    THEN job[n].key ELSE commandId

Reply(n, result) == Goto(n, "done") /\ Tell(n, result)

\* The request is lost on its way, or the process that serves it dies.
Drop(n) ==
    /\ pc[n] \notin {"unused", "done"}
    /\ faults < MaxFaults
    /\ faults' = faults + 1
    /\ Reply(n, "failed")
    /\ UNCHANGED <<form, pending, job, grantRow, server, ghost, attempts,
                   changes>>

\* The connection breaks and the server goes on.
LoseAnswer(n) ==
    /\ waiting = n
    /\ pc[n] \notin {"approve", "enqueue"}
    /\ faults < MaxFaults
    /\ faults' = faults + 1
    /\ Tell(n, "failed")
    /\ UNCHANGED <<form, pending, pc, job, grantRow, server, ghost, attempts,
                   changes>>

-----------------------------------------------------------------------------
(* Approval and command.                                                   *)

\* approve: a row with a TTL, bound to the hash of the command.
Approve(n) ==
    /\ pc[n] = "approve"
    /\ approved' = [approved EXCEPT ![n] = job[n].content]
    /\ Goto(n, "enqueue")
    /\ UNCHANGED <<form, report, pending, job, grantRow, fresh, status, ordered,
                   applied, ghost, bounds>>

\* The ref is set and the command sent, also by a screen that was closed.
Enqueue(n) ==
    /\ pc[n] = "enqueue"
    /\ pending' = IF waiting = n THEN job[n] ELSE pending
    /\ Goto(n, "find")
    /\ UNCHANGED <<form, report, job, grantRow, server, ghost, bounds>>

\* A replay is answered as recorded.
Find(n) ==
    /\ pc[n] = "find"
    /\ \/ status[job[n].key] = "none" /\ Goto(n, "gate") /\ UNCHANGED report
       \/ status[job[n].key] # "none" /\ Reply(n, "duplicate")
    /\ UNCHANGED <<form, pending, job, grantRow, server, ghost, bounds>>

Matches(n) == approved[job[n].approval] = job[n].content

\* authorizeWriteScope and checkApproval, in this order.
Refusals(n) ==
    (IF grantRow # "approved" THEN {"denied"}
     ELSE IF ~fresh[job[n].approval] THEN {"expired"}
     ELSE IF ~Matches(n) THEN {"denied"} ELSE {})

Gate(n) ==
    /\ pc[n] = "gate"
    /\ \/ Refusals(n) = {} /\ Goto(n, "insert") /\ UNCHANGED report
       \/ \E code \in Refusals(n) : Reply(n, code)
    /\ UNCHANGED <<form, pending, job, grantRow, server, ghost, bounds>>

Overwrites(n) == TRUE  \* wrong: DO UPDATE, and the worker starts again

IsFirst(n) == status[job[n].key] = "none"

Insert(n) ==
    /\ pc[n] = "insert"
    /\ \/ /\ IsFirst(n)
          /\ status' = [status EXCEPT ![job[n].key] = "queued"]
          /\ ordered' = [ordered EXCEPT ![job[n].key] = job[n].content]
          /\ Goto(n, "recheck")
          /\ UNCHANGED report
       \/ /\ ~IsFirst(n)
          /\ Reply(n, "duplicate")
          /\ UNCHANGED <<status, ordered>>
    /\ UNCHANGED <<form, pending, job, grantRow, approved, fresh, applied,
                   ghost, bounds>>

Recheck(n) ==
    /\ pc[n] = "recheck"
    /\ \/ Refusals(n) = {} /\ Goto(n, "call") /\ UNCHANGED <<status, report>>
       \/ \E code \in Refusals(n) :
            /\ status' = [status EXCEPT ![job[n].key] = "failed"]
            /\ Reply(n, code)
    /\ UNCHANGED <<form, pending, job, grantRow, approved, fresh, ordered,
                   applied, ghost, bounds>>

Affect(n) == applied' = [applied EXCEPT ![intent[n]] = @ + 1]

\* GitHub applies the mutation; or it refuses, or its answer is lost.
Call(n) ==
    /\ pc[n] = "call"
    /\ \/ Affect(n) /\ Goto(n, "settle") /\ UNCHANGED <<status, report>>
       \/ /\ Affect(n) \/ UNCHANGED applied
          /\ status' = [status EXCEPT ![job[n].key] = "failed"]
          /\ Reply(n, "failed")
    /\ UNCHANGED <<form, pending, job, grantRow, approved, fresh, ordered,
                   ghost, bounds>>

Settle(n) ==
    /\ pc[n] = "settle"
    /\ status' = [status EXCEPT ![job[n].key] = "completed"]
    /\ Reply(n, "succeeded")
    /\ UNCHANGED <<form, pending, job, grantRow, approved, fresh, ordered,
                   applied, ghost, bounds>>

-----------------------------------------------------------------------------
(* Around them.                                                            *)

\* setGrantStatus, which no route calls, or expires_at passes.
ChangeGrant ==
    /\ grantRow # "none"
    /\ changes < MaxChanges
    /\ changes' = changes + 1
    /\ \/ grantRow' \in {"approved", "revoked"} \ {grantRow}
       \/ grantRow = "approved" /\ grantRow' = "expired"
    /\ UNCHANGED <<form, report, pending, pc, job, server, ghost, attempts,
                   faults>>

ApprovalExpires(a) ==
    /\ approved[a] # Nothing /\ fresh[a]
    /\ changes < MaxChanges
    /\ changes' = changes + 1
    /\ fresh' = [fresh EXCEPT ![a] = FALSE]
    /\ UNCHANGED <<form, report, pending, pc, job, grantRow, approved, status,
                   ordered, applied, ghost, attempts, faults>>

Step(n) ==
    \/ Approve(n) \/ Enqueue(n) \/ Find(n) \/ Gate(n) \/ Insert(n)
    \/ Recheck(n) \/ Call(n) \/ Settle(n)

Next ==
    \/ RequestGrant \/ Review \/ Dismiss \/ Reopen \/ ChangeGrant
    \/ \E c \in Contents : Edit(c)
    \/ \E n \in Attempts :
        \/ Confirm(n) \/ Verify(n) \/ Step(n) \/ Drop(n) \/ LoseAnswer(n)
        \/ ApprovalExpires(n)

Spec == Init /\ [][Next]_vars

\* An attempt that was begun goes on until it is answered.
FairSpec == Spec /\ \A n \in Attempts : WF_vars(Step(n))

-----------------------------------------------------------------------------
\* Confirming the same content again and again on one screen, after lost
\* answers, failures and denials, has at most one effect at GitHub.
OneEffectPerIntent == \A i \in Attempts : applied[i] <= 1

\* What the panel calls completed or already submitted is the command for the
\* very content under review, and completed means that GitHub applied it.
ReportIsTrue ==
    reviewing =>
        /\ shown \in {"succeeded", "duplicate"} => ordered[commandId] = content
        /\ shown = "succeeded" => applied[intent[attempts]] = 1

\* The panel does not stay in its submitting state, in which it can be neither
\* confirmed nor dismissed.
ConfirmIsAnswered == shown = "submitting" ~> shown # "submitting"

=============================================================================
