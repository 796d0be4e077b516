--------------------------- MODULE MutationCommand ---------------------------
(***************************************************************************)
(* A GitHub mutation under one idempotency key: the requests that carry    *)
(* the key (POST .../github/mutations, enqueueMutationCommand), the worker *)
(* each of them may run (createMutationWorker), the grant and the approval *)
(* both check, and GitHub behind the call.                                 *)
(*                                                                         *)
(* Every step of a request is one transaction or one call.  A request is   *)
(* sent once; a client that retries sends another one.                     *)
(***************************************************************************)
EXTENDS Naturals

CONSTANTS
    Requests,   \* requests that carry the key
    MaxCrashes  \* bound: requests that die, queries that fail

ASSUME CrashAssumption == MaxCrashes \in Nat

VARIABLES
    \* github_mutation_commands: status ("none": no row), provider_result set
    command, stored,
    \* audit_records about the command, by outcome
    audits,
    \* the write grant is approved and unexpired; the approval is unexpired
    granted, approved,
    \* mutations GitHub applied
    effects,
    \* per request: position, status in the response
    pc, reply,
    \* the grant or the approval was gone when the worker loaded the command,
    \* and has not been there since
    lapsed,
    crashes

gates == <<granted, approved, lapsed>>
vars == <<command, stored, audits, gates, effects, pc, reply, crashes>>

Statuses == {"none", "queued", "completed", "failed"}
AuditOutcomes == {"queued", "completed", "failed", "denied"}

Worker == {"load", "regrant", "recheck", "call", "persist", "complete",
           "markDenied", "markFailed", "auditCompleted", "auditDenied",
           "auditFailed"}

\* "refuse": denied before there was a command.
Working == Worker \cup {"find", "grant", "check", "insert", "refuse",
                        "auditQueued", "answer"}

TypeOK ==
    /\ command \in Statuses
    /\ stored \in BOOLEAN
    /\ audits \in [AuditOutcomes -> Nat]
    /\ granted \in BOOLEAN
    /\ approved \in BOOLEAN
    /\ effects \in Nat
    /\ pc \in [Requests -> Working \cup {"new", "done"}]
    /\ reply \in [Requests -> Statuses \cup {"error"}]
    /\ lapsed \in BOOLEAN
    /\ crashes \in 0..MaxCrashes

\* The mutation was confirmed and approved in the app.
Init ==
    /\ command = "none"
    /\ stored = FALSE
    /\ audits = [o \in AuditOutcomes |-> 0]
    /\ granted \in BOOLEAN
    /\ approved = TRUE
    /\ effects = 0
    /\ pc = [r \in Requests |-> "new"]
    /\ reply = [r \in Requests |-> "none"]
    /\ lapsed = FALSE
    /\ crashes = 0

-----------------------------------------------------------------------------
(* Around the requests.                                                    *)

\* setGrantStatus, by a member of the workspace, or the grant expires.
ChangeGrant ==
    /\ granted' = ~granted
    /\ lapsed' = (lapsed /\ ~granted')
    /\ UNCHANGED <<command, stored, audits, approved, effects, pc, reply,
                   crashes>>

\* The approval's TTL passes; nothing extends it.
ApprovalExpires ==
    /\ approved
    /\ approved' = FALSE
    /\ UNCHANGED <<command, stored, audits, granted, lapsed, effects, pc,
                   reply, crashes>>

-----------------------------------------------------------------------------
Goto(r, p) == pc' = [pc EXCEPT ![r] = p]

Answer(r, status) ==
    /\ Goto(r, "done")
    /\ reply' = [reply EXCEPT ![r] = status]

At(r, from, to) == pc[r] = from /\ Goto(r, to)

Receive(r) ==
    /\ At(r, "new", "find")
    /\ UNCHANGED <<command, stored, audits, gates, effects, reply, crashes>>

\* Wrong: a replay takes over a command that is still queued.
ResumesQueued == command = "queued"

\* The replay finishes what a crash left between the two last writes.
Resumable == command = "queued" /\ stored

\* findCommandByKey: a replay is answered from the row.
Find(r) ==
    /\ pc[r] = "find"
    /\ \/ command = "none" /\ Goto(r, "grant") /\ UNCHANGED reply
       \/ Resumable /\ Goto(r, "load") /\ UNCHANGED reply
       \/ command # "none" /\ ~Resumable /\ Answer(r, command)
    /\ UNCHANGED <<command, stored, audits, gates, effects, crashes>>

\* authorizeWriteScope, on enqueue and again in the worker.
CheckGrant(r) ==
    /\ \/ At(r, "grant", IF granted THEN "check" ELSE "refuse")
       \/ At(r, "regrant", IF granted THEN "recheck" ELSE "markDenied")
    /\ UNCHANGED <<command, stored, audits, gates, effects, reply, crashes>>

ChecksOnce(r) == pc[r] = "recheck" \/ approved  \* wrong: not rechecked

StillApproved(r) == approved

\* checkApproval, on enqueue and again in the worker.
CheckApproval(r) ==
    /\ \/ At(r, "check", IF StillApproved(r) THEN "insert" ELSE "refuse")
       \/ At(r, "recheck", IF StillApproved(r) THEN "call" ELSE "markDenied")
    /\ UNCHANGED <<command, stored, audits, gates, effects, reply, crashes>>

\* A query of the check fails: taken for a denial, on enqueue and in the worker.
CheckThrows(r) ==
    /\ crashes < MaxCrashes
    /\ crashes' = crashes + 1
    /\ \/ pc[r] \in {"grant", "check"} /\ Goto(r, "refuse")
       \/ pc[r] \in {"regrant", "recheck"} /\ Goto(r, "markDenied")
    /\ UNCHANGED <<command, stored, audits, gates, effects, reply>>

\* The denial is audited without a command, and the error is the response.
Refuse(r) ==
    /\ pc[r] = "refuse"
    /\ Answer(r, "error")
    /\ UNCHANGED <<command, stored, audits, gates, effects, crashes>>

\* insertCommand: ON CONFLICT DO NOTHING.
Insert(r) ==
    /\ pc[r] = "insert"
    /\ \/ command = "none" /\ Goto(r, "auditQueued") /\ UNCHANGED reply
       \/ command # "none" /\ Answer(r, command)
    /\ command' = IF command = "none" THEN "queued" ELSE command
    /\ UNCHANGED <<stored, audits, gates, effects, crashes>>

Record(outcome) == audits' = [audits EXCEPT ![outcome] = @ + 1]

AuditQueued(r) ==
    /\ At(r, "auditQueued", "load")
    /\ Record("queued")
    /\ UNCHANGED <<command, stored, gates, effects, reply, crashes>>

-----------------------------------------------------------------------------
(* process.                                                                *)

Load(r) ==
    /\ pc[r] = "load"
    /\ \/ command = "completed" /\ Goto(r, "answer") /\ UNCHANGED lapsed
       \/ /\ command # "completed"
          /\ stored
          /\ Goto(r, "complete")
          /\ UNCHANGED lapsed
       \/ /\ command # "completed"
          /\ ~stored
          /\ Goto(r, "regrant")
          /\ lapsed' = ~(granted /\ approved)
    /\ UNCHANGED <<command, stored, audits, granted, approved, effects, reply,
                   crashes>>

\* GitHub applies the mutation; or refuses; or applies it and the answer is
\* lost or not understood, which the client cannot tell from a refusal.
Call(r) ==
    /\ \/ At(r, "call", "persist") /\ effects' = effects + 1
       \/ At(r, "call", "markFailed") /\ effects' \in {effects, effects + 1}
    /\ UNCHANGED <<command, stored, audits, gates, reply, crashes>>

Persist(r) ==
    /\ At(r, "persist", "complete")
    /\ stored' = TRUE
    /\ UNCHANGED <<command, audits, gates, effects, reply, crashes>>

Present == command # "none"  \* wrong: whatever the status

StillQueued == command = "queued"

\* markCompleted: only who moves the command from queued audits it.
MarkCompleted(r) ==
    /\ \/ StillQueued /\ At(r, "complete", "auditCompleted")
       \/ ~StillQueued /\ At(r, "complete", "answer")
    /\ command' = IF StillQueued THEN "completed" ELSE command
    /\ stored' = TRUE
    /\ UNCHANGED <<audits, gates, effects, reply, crashes>>

KeepsQueued == "queued"  \* wrong: only the error code is recorded

FailedStatus == "failed"

\* markFailed has no guard on the status.
MarkFailed(r) ==
    /\ \/ At(r, "markDenied", "auditDenied")
       \/ At(r, "markFailed", "auditFailed")
    /\ command' = FailedStatus
    /\ UNCHANGED <<stored, audits, gates, effects, reply, crashes>>

AuditCompleted(r) ==
    /\ At(r, "auditCompleted", "answer")
    /\ Record("completed")
    /\ UNCHANGED <<command, stored, gates, effects, reply, crashes>>

\* The error that failed the command is the response.
AuditFailure(r) ==
    /\ \/ pc[r] = "auditDenied" /\ Record("denied")
       \/ pc[r] = "auditFailed" /\ Record("failed")
    /\ Answer(r, "error")
    /\ UNCHANGED <<command, stored, gates, effects, crashes>>

\* The row is read again for the response.
Respond(r) ==
    /\ pc[r] = "answer"
    /\ Answer(r, command)
    /\ UNCHANGED <<command, stored, audits, gates, effects, crashes>>

\* The process dies, or a query throws: nothing takes the request up again.
Crash(r) ==
    /\ pc[r] \in Working
    /\ crashes < MaxCrashes
    /\ crashes' = crashes + 1
    /\ Answer(r, "error")
    /\ UNCHANGED <<command, stored, audits, gates, effects>>

\* The errors of an audit write in the worker are swallowed.
AuditLost(r) ==
    /\ crashes < MaxCrashes
    /\ crashes' = crashes + 1
    /\ \/ At(r, "auditCompleted", "answer") /\ UNCHANGED reply
       \/ pc[r] \in {"auditDenied", "auditFailed"} /\ Answer(r, "error")
    /\ UNCHANGED <<command, stored, audits, gates, effects>>

-----------------------------------------------------------------------------
Step(r) ==
    \/ Find(r) \/ CheckGrant(r) \/ CheckApproval(r) \/ Refuse(r) \/ Insert(r)
    \/ AuditQueued(r) \/ Load(r) \/ Call(r) \/ Persist(r) \/ MarkCompleted(r)
    \/ MarkFailed(r) \/ AuditCompleted(r) \/ AuditFailure(r) \/ Respond(r)

Next ==
    \/ ChangeGrant
    \/ ApprovalExpires
    \/ \E r \in Requests :
        Receive(r) \/ Step(r) \/ CheckThrows(r) \/ Crash(r) \/ AuditLost(r)

Spec == Init /\ [][Next]_vars

\* A request that was received runs to its answer.
FairSpec == Spec /\ \A r \in Requests : WF_vars(Step(r))

-----------------------------------------------------------------------------
\* The key keeps what SingleEffect promises under duplicates and crashes.
OneEffect == INSTANCE SingleEffect WITH state <- command

OneEffectSpec == OneEffect!Spec

\* The audit trail tells one story: one queueing, and at most one of completed,
\* failed and denied, which agrees with the command.
AuditedOnce ==
    /\ audits["queued"] <= 1
    /\ audits["completed"] + audits["failed"] + audits["denied"] <= 1
    /\ audits["completed"] = 1 => command = "completed"
    /\ audits["failed"] + audits["denied"] = 1 => command = "failed"

\* A mutation that was revoked, or whose approval expired, before the worker
\* took it up does not reach GitHub, though it was enqueued with both.
LapsedIsStopped == lapsed => effects = 0

\* A client that is told completed can rely on the effect and the stored result.
CompletedIsTrue ==
    \A r \in Requests :
        reply[r] = "completed" => effects = 1 /\ stored /\ command = "completed"

\* Without crashes no command stays queued: it is completed or failed.
CommandSettles ==
    command = "queued" ~> (command # "queued" \/ crashes > 0)

-----------------------------------------------------------------------------
\* "a crash after provider acceptance result in one logical GitHub mutation and
\* one audit record [...]; the UI shows the persisted command result": a replay
\* answered after the crash does not report the applied mutation as queued.
ReplayShowsOutcome ==
    \A r \in Requests :
        reply[r] = "queued" /\ (\A q \in Requests : pc[q] \notin Working)
            => effects = 0

=============================================================================
