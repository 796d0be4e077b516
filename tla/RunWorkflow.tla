----------------------------- MODULE RunWorkflow -----------------------------
(***************************************************************************)
(* The durable execution of one run: executeRun and the Inngest function   *)
(* that calls it, over the PostgreSQL stores, together with the cancel     *)
(* route.  Every step is one database transaction (or one answer of the    *)
(* model provider) plus the local work up to the next await.               *)
(*                                                                         *)
(* A run has specialists 1..N, numbered by their ordinal.  Execs are the   *)
(* executions the scheduler started for the run; an execution that throws  *)
(* or dies is started again from its first line, Retries times.  Two       *)
(* executions may overlap: one that the scheduler gave up on may still be  *)
(* running.                                                                *)
(***************************************************************************)
EXTENDS Naturals, RunStatus

CONSTANTS
    N,            \* number of specialists of the run
    Execs,        \* executions started for the run
    StaleExecs,   \* those dispatched with an execution key that does not match
    MaxAttempts,  \* retry.maxAttempts
    Retries,      \* restarts the scheduler grants an execution that crashed
    Modes,        \* the part of the config snapshot that steers the workflow:
    Policies,     \*   run mode, failure policy and what the injection policy
    Injections    \*   makes of the prompt

ASSUME NAssumption == N \in Nat \ {0}
ASSUME ExecsAssumption == StaleExecs \subseteq Execs
ASSUME AttemptsAssumption == MaxAttempts \in Nat \ {0}
ASSUME RetriesAssumption == Retries \in Nat
ASSUME ConfigAssumption ==
    /\ Modes \subseteq {"parallel", "sequential"}
    /\ Policies \subseteq {"fail_run", "partial"}
    /\ Injections \subseteq {"none", "exclude_span", "fail_run"}

Specs == 1..N

VARIABLES
    \* runs: config snapshot, status, cancel_requested_at, terminal_summary
    config, status, cancelRequested, summary,
    \* run_events, as the number of events of each type
    runEvents, specEvents,
    \* workflow_checkpoints (markers, and one per specialist); run_specialists
    marks, ckpt, row,
    \* TRUE once an execution has seen the absolute deadline pass
    expired,
    \* per execution: position, restarts left, the status it decided on,
    \* whether its own beginRun won, the last outcome passed to the next
    \* specialist; per specialist: position, attempts, outcome
    pc, restarts, verdict, began, prior, task, attempts, seen

runRow == <<status, cancelRequested, summary>>
events == <<runEvents, specEvents>>
stores == <<marks, ckpt, row>>
tasks  == <<prior, task, attempts, seen>>
vars   == <<config, runRow, events, stores, expired,
            pc, restarts, verdict, began, tasks>>

Outcomes == {"completed", "failed"}

RunEventTypes == TerminalStatuses \cup
    {"started", "safety", "cancellation_requested"}

SpecEventTypes == Outcomes \cup {"started", "checkpointed", "retry_scheduled"}

\* Where executeRun stands; "ended" has returned, "exhausted" will not restart.
Positions == {"idle", "preCancel", "loadInit", "begin", "beginLost",
              "lostCancel", "saveInit", "announceStart", "inject",
              "announceInjection", "resume", "run", "finalize", "saveDone",
              "ended", "exhausted"}

\* Where runSpecialist stands, between its first and its last await.
Working == {"gate", "announce", "poll", "calling", "saveRetry",
            "announceRetry", "saveRow", "saveCkpt", "announceCkpt",
            "announceOutcome"}

\* How runSpecialist can throw.
Rejected == {"cancelled", "timedOut", "threw"}

\* "loaded": the outcome came from a checkpoint and nothing is left to do.
TaskStates == Working \cup Rejected \cup {"idle", "loaded", "pending", "settled"}

TypeOK ==
    /\ config \in [mode : Modes, policy : Policies, injection : Injections]
    /\ status \in RunStatuses
    /\ cancelRequested \in BOOLEAN
    /\ summary \in [completed : SUBSET Specs, failed : SUBSET Specs]
    /\ runEvents \in [RunEventTypes -> Nat]
    /\ specEvents \in [Specs -> [SpecEventTypes -> Nat]]
    /\ marks \subseteq {"init", "injection", "done"}
    /\ ckpt \in [Specs -> Outcomes \cup {"none"}]
    /\ row \in [Specs -> Outcomes \cup {"queued", "retrying"}]
    /\ expired \in BOOLEAN
    /\ pc \in [Execs -> Positions]
    /\ restarts \in [Execs -> 0..Retries]
    /\ verdict \in [Execs -> TerminalStatuses \cup {"none"}]
    /\ began \in [Execs -> BOOLEAN]
    /\ prior \in [Execs -> 0..N]
    /\ task \in [Execs -> [Specs -> TaskStates]]
    /\ attempts \in [Execs -> [Specs -> 0..MaxAttempts]]
    /\ seen \in [Execs -> [Specs -> Outcomes \cup {"none"}]]

-----------------------------------------------------------------------------
(* Launch has created the run, its specialist rows and run.queued before   *)
(* the first execution is dispatched.                                      *)
Init ==
    /\ config \in [mode : Modes, policy : Policies, injection : Injections]
    /\ status = "queued"
    /\ cancelRequested = FALSE
    /\ summary = [completed |-> {}, failed |-> {}]
    /\ runEvents = [t \in RunEventTypes |-> 0]
    /\ specEvents = [s \in Specs |-> [t \in SpecEventTypes |-> 0]]
    /\ marks = {}
    /\ ckpt = [s \in Specs |-> "none"]
    /\ row = [s \in Specs |-> "queued"]
    /\ expired = FALSE
    /\ pc = [e \in Execs |-> "idle"]
    /\ restarts = [e \in Execs |-> Retries]
    /\ verdict = [e \in Execs |-> "none"]
    /\ began = [e \in Execs |-> FALSE]
    /\ prior = [e \in Execs |-> 0]
    /\ task = [e \in Execs |-> [s \in Specs |-> "idle"]]
    /\ attempts = [e \in Execs |-> [s \in Specs |-> 0]]
    /\ seen = [e \in Execs |-> [s \in Specs |-> "none"]]

-----------------------------------------------------------------------------
(* Steps shared by the operations below.                                   *)

\* One event appended to the run's log, in the caller's transaction.
Publish(t) ==
    /\ runEvents' = [runEvents EXCEPT ![t] = @ + 1]
    /\ UNCHANGED specEvents

PublishFor(s, t) ==
    /\ specEvents' = [specEvents EXCEPT ![s][t] = @ + 1]
    /\ UNCHANGED runEvents

Goto(e, p) == pc' = [pc EXCEPT ![e] = p]

TaskGoto(e, s, p) == task' = [task EXCEPT ![e][s] = p]

\* Wrong: the transition forgets its guard.
EndRunUnguarded(t, done, bad) ==
    /\ status' = t
    /\ summary' = [completed |-> done, failed |-> bad]
    /\ Publish(t)

\* The guarded terminal transition and its event, in one transaction.
EndRun(t, done, bad) ==
    /\ ~IsTerminal(status)
    /\ status' = t
    /\ summary' = [completed |-> done, failed |-> bad]
    /\ Publish(t)

\* e will end the run as t: the summary is built from its outcomes so far.
Decide(e, t) ==
    /\ Goto(e, "finalize")
    /\ verdict' = [verdict EXCEPT ![e] = t]

\* isCancelled, then assertDeadline: what the pair tells its caller.
Poll(answer) ==
    \/ /\ answer = "cancelled"
       /\ cancelRequested
       /\ UNCHANGED expired
    \/ /\ answer = "timedOut"
       /\ ~cancelRequested
       /\ expired' = TRUE
    \/ /\ answer = "go"
       /\ ~cancelRequested
       /\ ~expired
       /\ UNCHANGED expired

\* Create-wins save of a marker checkpoint; Wins tells who created it.
AlwaysWins(m) == TRUE  \* wrong: the loser of the race also announces

Wins(m) == m \notin marks

SaveMark(m) == marks' = marks \cup {m}

-----------------------------------------------------------------------------
(* runRequested and the opening of executeRun.                             *)

\* The dispatched key does not match the run: fail it without executing.
RejectStale(e) ==
    /\ pc[e] = "idle"
    /\ e \in StaleExecs
    /\ Goto(e, "ended")
    /\ \/ EndRun("failed", {}, {})
       \/ IsTerminal(status) /\ UNCHANGED <<status, summary, events>>
    /\ UNCHANGED <<config, cancelRequested, stores, expired, restarts,
                   verdict, began, tasks>>

\* Terminal fast path.
Enter(e) ==
    /\ pc[e] = "idle"
    /\ e \notin StaleExecs
    /\ Goto(e, IF IsTerminal(status) THEN "ended" ELSE "preCancel")
    /\ UNCHANGED <<config, runRow, events, stores, expired, restarts,
                   verdict, began, tasks>>

\* Cancellation recorded before this execution started: never begin work.
PreCancel(e) ==
    /\ pc[e] = "preCancel"
    /\ \/ cancelRequested /\ Decide(e, "cancelled")
       \/ ~cancelRequested /\ Goto(e, "loadInit") /\ UNCHANGED verdict
    /\ UNCHANGED <<config, runRow, events, stores, expired, restarts, began,
                   tasks>>

\* All executions that pass RejectStale carry the key the checkpoint records.
LoadInit(e) ==
    /\ pc[e] = "loadInit"
    /\ Goto(e, IF "init" \in marks THEN "inject" ELSE "begin")
    /\ UNCHANGED <<config, runRow, events, stores, expired, restarts,
                   verdict, began, tasks>>

BeginRun(e) ==
    /\ pc[e] = "begin"
    /\ \/ /\ status = "queued"
          /\ status' = "running"
          /\ began' = [began EXCEPT ![e] = TRUE]
          /\ Goto(e, "saveInit")
       \/ /\ status # "queued"
          /\ Goto(e, "beginLost")
          /\ UNCHANGED <<status, began>>
    /\ UNCHANGED <<config, cancelRequested, summary, events, stores, expired,
                   restarts, verdict, tasks>>

\* Wrong: "another execution owns the run" is taken for granted.
BeginLostGivesUp(e) ==
    /\ pc[e] = "beginLost"
    /\ Goto(e, "ended")
    /\ UNCHANGED <<config, runRow, events, stores, expired, restarts,
                   verdict, began, tasks>>

\* beginRun found the run no longer queued: ended, or begun by another.
BeginLost(e) ==
    /\ pc[e] = "beginLost"
    /\ Goto(e, IF IsTerminal(status) THEN "ended" ELSE "lostCancel")
    /\ UNCHANGED <<config, runRow, events, stores, expired, restarts,
                   verdict, began, tasks>>

LostCancel(e) ==
    /\ pc[e] = "lostCancel"
    /\ \/ cancelRequested /\ Decide(e, "cancelled")
       \/ ~cancelRequested /\ Goto(e, "saveInit") /\ UNCHANGED verdict
    /\ UNCHANGED <<config, runRow, events, stores, expired, restarts, began,
                   tasks>>

SaveInit(e) ==
    /\ pc[e] = "saveInit"
    /\ SaveMark("init")
    /\ Goto(e, IF Wins("init") /\ began[e] THEN "announceStart" ELSE "inject")
    /\ UNCHANGED <<config, runRow, events, ckpt, row, expired, restarts,
                   verdict, began, tasks>>

AnnounceStart(e) ==
    /\ pc[e] = "announceStart"
    /\ Publish("started")
    /\ Goto(e, "inject")
    /\ UNCHANGED <<config, runRow, stores, expired, restarts, verdict, began,
                   tasks>>

\* The prompt-injection policy, before any provider call.
ApplyInjectionPolicy(e) ==
    /\ pc[e] = "inject"
    /\ \/ /\ config.injection = "fail_run"
          /\ Decide(e, "failed")
          /\ UNCHANGED marks
       \/ /\ config.injection = "exclude_span"
          /\ SaveMark("injection")
          /\ Goto(e, IF Wins("injection") THEN "announceInjection" ELSE "resume")
          /\ UNCHANGED verdict
       \/ /\ config.injection = "none"
          /\ Goto(e, "resume")
          /\ UNCHANGED <<marks, verdict>>
    /\ UNCHANGED <<config, runRow, events, ckpt, row, expired, restarts, began,
                   tasks>>

AnnounceInjection(e) ==
    /\ pc[e] = "announceInjection"
    /\ Publish("safety")
    /\ Goto(e, "resume")
    /\ UNCHANGED <<config, runRow, stores, expired, restarts, verdict, began,
                   tasks>>

\* Wrong: a failed specialist is not taken from its checkpoint.
LoadableIfCompleted(s) == ckpt[s] = "completed"

\* A checkpoint of either outcome spares the specialist.
Loadable(s) == ckpt[s] \in Outcomes

\* Specialists are looked up in order.
Resume(e, s) ==
    /\ pc[e] = "resume"
    /\ task[e][s] = "idle"
    /\ \A r \in Specs : r < s => task[e][r] # "idle"
    /\ \/ /\ Loadable(s)
          /\ seen' = [seen EXCEPT ![e][s] = ckpt[s]]
          /\ TaskGoto(e, s, "loaded")
          /\ prior' = [prior EXCEPT ![e] = s]
       \/ /\ ~Loadable(s)
          /\ TaskGoto(e, s, IF config.mode = "parallel" THEN "gate" ELSE "pending")
          /\ UNCHANGED <<seen, prior>>
    /\ Goto(e, IF s = N THEN "run" ELSE "resume")
    /\ UNCHANGED <<config, runRow, events, stores, expired, restarts, verdict,
                   began, attempts>>

-----------------------------------------------------------------------------
(* runSpecialist.  In parallel mode the tasks of an execution interleave;  *)
(* in sequential mode NextSpecialist starts them one at a time.            *)

At(e, s, p) == pc[e] = "run" /\ task[e][s] = p

NeverWaits(e) == TRUE  \* wrong: nobody waits for a task in progress

NoneWorking(e) == \A s \in Specs : task[e][s] \notin Working

Rejection(e) == {s \in Specs : task[e][s] \in Rejected}

\* Sequential mode under fail_run returns at the first failed specialist.
ChainStopped(e) ==
    /\ config.mode = "sequential"
    /\ config.policy = "fail_run"
    /\ \E s \in Specs : task[e][s] = "settled" /\ seen[e][s] = "failed"

NextSpecialist(e, s) ==
    /\ At(e, s, "pending")
    /\ \A r \in Specs : r < s => task[e][r] # "pending"
    /\ NoneWorking(e)
    /\ Rejection(e) = {}
    /\ ~ChainStopped(e)
    /\ \E answer \in {"cancelled", "timedOut", "go"} :
        /\ Poll(answer)
        /\ \/ answer = "cancelled" /\ Decide(e, "cancelled") /\ UNCHANGED task
           \/ answer = "timedOut" /\ Decide(e, "failed") /\ UNCHANGED task
           \/ answer = "go" /\ TaskGoto(e, s, "gate") /\ UNCHANGED <<pc, verdict>>
    /\ UNCHANGED <<config, runRow, events, stores, restarts, began, prior,
                   attempts, seen>>

\* Before the first attempt, and before every attempt.
PollTask(e, s, from, to) ==
    /\ At(e, s, from)
    /\ \E answer \in {"cancelled", "timedOut", "go"} :
        /\ Poll(answer)
        /\ TaskGoto(e, s, IF answer = "go" THEN to ELSE answer)
    /\ UNCHANGED <<config, runRow, events, stores, pc, restarts, verdict, began,
                   prior, seen>>

Gate(e, s) ==
    /\ PollTask(e, s, "gate", "announce")
    /\ UNCHANGED attempts

Announce(e, s) ==
    /\ At(e, s, "announce")
    /\ PublishFor(s, "started")
    /\ TaskGoto(e, s, "poll")
    /\ UNCHANGED <<config, runRow, stores, expired, pc, restarts, verdict,
                   began, prior, attempts, seen>>

AttemptsLeft(e, s) == attempts[e][s] < MaxAttempts

StartAttempt(e, s) ==
    /\ AttemptsLeft(e, s)
    /\ PollTask(e, s, "poll", "calling")
    /\ \/ /\ TaskGoto(e, s, "calling")
          /\ attempts' = [attempts EXCEPT ![e][s] = @ + 1]
       \/ ~TaskGoto(e, s, "calling") /\ UNCHANGED attempts

\* The provider answers with a usable output, with a transient error, or with
\* an error that is not retried (timeout, permanent, output that is invalid).
ProviderAnswer(e, s) ==
    /\ At(e, s, "calling")
    /\ \E answer \in {"output", "transient", "permanent"} :
        LET retry == answer = "transient" /\ AttemptsLeft(e, s)
        IN  /\ TaskGoto(e, s, IF retry THEN "saveRetry" ELSE "saveRow")
            /\ seen' = [seen EXCEPT ![e][s] =
                           IF retry THEN "none"
                           ELSE IF answer = "output" THEN "completed"
                           ELSE "failed"]
    /\ UNCHANGED <<config, runRow, events, stores, expired, pc, restarts,
                   verdict, began, prior, attempts>>

\* saveSpecialistResult replaces the row whatever it says.
SaveRetry(e, s) ==
    /\ At(e, s, "saveRetry")
    /\ row' = [row EXCEPT ![s] = "retrying"]
    /\ TaskGoto(e, s, "announceRetry")
    /\ UNCHANGED <<config, runRow, events, marks, ckpt, expired, pc, restarts,
                   verdict, began, prior, attempts, seen>>

AnnounceRetry(e, s) ==
    /\ At(e, s, "announceRetry")
    /\ PublishFor(s, "retry_scheduled")
    /\ TaskGoto(e, s, "poll")
    /\ UNCHANGED <<config, runRow, stores, expired, pc, restarts, verdict,
                   began, prior, attempts, seen>>

SaveRow(e, s) ==
    /\ At(e, s, "saveRow")
    /\ row' = [row EXCEPT ![s] = seen[e][s]]
    /\ TaskGoto(e, s, "saveCkpt")
    /\ UNCHANGED <<config, runRow, events, marks, ckpt, expired, pc, restarts,
                   verdict, began, prior, attempts, seen>>

\* Wrong: the save overwrites.
LastWriterWins(s, outcome) == outcome

CreateWins(s, outcome) == IF ckpt[s] = "none" THEN outcome ELSE ckpt[s]

\* The caller does not look at who won.
SaveCkpt(e, s) ==
    /\ At(e, s, "saveCkpt")
    /\ ckpt' = [ckpt EXCEPT ![s] = CreateWins(s, seen[e][s])]
    /\ TaskGoto(e, s, "announceCkpt")
    /\ UNCHANGED <<config, runRow, events, marks, row, expired, pc, restarts,
                   verdict, began, prior, attempts, seen>>

AnnounceCkpt(e, s) ==
    /\ At(e, s, "announceCkpt")
    /\ PublishFor(s, "checkpointed")
    /\ TaskGoto(e, s, "announceOutcome")
    /\ UNCHANGED <<config, runRow, stores, expired, pc, restarts, verdict,
                   began, prior, attempts, seen>>

AnnounceOutcome(e, s) ==
    /\ At(e, s, "announceOutcome")
    /\ PublishFor(s, seen[e][s])
    /\ TaskGoto(e, s, "settled")
    /\ prior' = [prior EXCEPT ![e] =
                    IF config.mode = "sequential" THEN s ELSE @]
    /\ UNCHANGED <<config, runRow, stores, expired, pc, restarts, verdict,
                   began, attempts, seen>>

\* A store, the event bus or the provider client throws inside runSpecialist.
Throw(e, s) ==
    /\ pc[e] = "run"
    /\ task[e][s] \in Working
    /\ TaskGoto(e, s, "threw")
    /\ UNCHANGED <<config, runRow, events, stores, expired, pc, restarts,
                   verdict, began, prior, attempts, seen>>

-----------------------------------------------------------------------------
(* Joining, ending, crashing.                                              *)

FirstRejected(e, s) ==
    /\ s \in Rejection(e)
    /\ \A r \in Rejection(e) : s <= r

\* The array outcomes: what was loaded, then what settled before the first
\* rejection, in order.
Reported(e) ==
    {s \in Specs : \/ task[e][s] = "loaded"
                   \/ /\ task[e][s] = "settled"
                      /\ \A r \in Rejection(e) : s < r}

ReportedAs(e, o) == {s \in Reported(e) : seen[e][s] = o}

\* The function throws: the scheduler starts it again, or gives up.
Restart(e) ==
    /\ \/ /\ restarts[e] > 0
          /\ restarts' = [restarts EXCEPT ![e] = @ - 1]
          /\ Goto(e, "idle")
       \/ /\ restarts[e] = 0
          /\ UNCHANGED restarts
          /\ Goto(e, "exhausted")
    /\ verdict' = [verdict EXCEPT ![e] = "none"]
    /\ began' = [began EXCEPT ![e] = FALSE]
    /\ prior' = [prior EXCEPT ![e] = 0]
    /\ task' = [task EXCEPT ![e] = [s \in Specs |-> "idle"]]
    /\ attempts' = [attempts EXCEPT ![e] = [s \in Specs |-> 0]]
    /\ seen' = [seen EXCEPT ![e] = [s \in Specs |-> "none"]]

\* allSettled in parallel mode; the end of the loop in sequential mode.
Joinable(e) ==
    /\ pc[e] = "run"
    /\ NoneWorking(e)
    /\ \/ \A s \in Specs : task[e][s] # "pending"
       \/ Rejection(e) # {}
       \/ ChainStopped(e)

JoinedAsSuccess(e) == "completed"  \* wrong: failed specialists are ignored

JoinedAsCancelled(e) == "cancelled"  \* wrong: the join ends the run as cancelled

\* The status a fully settled set of outcomes amounts to.
JoinedStatus(e) ==
    IF ReportedAs(e, "failed") = {} THEN "completed"
    ELSE IF config.policy = "fail_run" THEN "failed" ELSE "partial"

Join(e) ==
    /\ Joinable(e)
    /\ \/ /\ Rejection(e) = {}
          /\ Decide(e, JoinedStatus(e))
       \/ \E s \in Specs :
            /\ FirstRejected(e, s)
            /\ \/ task[e][s] = "cancelled" /\ Decide(e, "cancelled")
               \/ task[e][s] = "timedOut" /\ Decide(e, "failed")
    /\ UNCHANGED <<config, runRow, events, stores, expired, restarts, began,
                   tasks>>

Rethrow(e) ==
    /\ Joinable(e)
    /\ \E s \in Specs : FirstRejected(e, s) /\ task[e][s] = "threw"
    /\ Restart(e)
    /\ UNCHANGED <<config, runRow, events, stores, expired>>

\* finalizeTerminal; losing to a terminal run is not an error.
Finalize(e) ==
    /\ pc[e] = "finalize"
    /\ \/ /\ EndRun(verdict[e], ReportedAs(e, "completed"), ReportedAs(e, "failed"))
          /\ Goto(e, "saveDone")
       \/ /\ IsTerminal(status)
          /\ Goto(e, "ended")
          /\ UNCHANGED <<status, summary, events>>
    /\ UNCHANGED <<config, cancelRequested, stores, expired, restarts, verdict,
                   began, tasks>>

SaveDone(e) ==
    /\ pc[e] = "saveDone"
    /\ SaveMark("done")
    /\ Goto(e, "ended")
    /\ UNCHANGED <<config, runRow, events, ckpt, row, expired, restarts,
                   verdict, began, tasks>>

\* Any awaited call outside runSpecialist throws, or the process dies.
Crash(e) ==
    /\ pc[e] \notin {"ended", "exhausted"}
    /\ Restart(e)
    /\ UNCHANGED <<config, runRow, events, stores, expired>>

CancelAtOnce == "cancelled"  \* wrong: a run in progress is ended as well

\* A queued run ends here; a run in progress is only asked to stop.
StatusOnCancel == IF status = "queued" THEN "cancelled" ELSE "cancelling"

\* POST /cancel, under the row lock.  Only the first request emits an event.
RequestCancel ==
    /\ ~IsTerminal(status)
    /\ cancelRequested' = TRUE
    /\ status' = StatusOnCancel
    /\ \/ /\ ~cancelRequested
          /\ Publish(IF StatusOnCancel = "cancelled" THEN "cancelled"
                     ELSE "cancellation_requested")
       \/ cancelRequested /\ UNCHANGED events
    /\ UNCHANGED <<config, summary, stores, expired, pc, restarts, verdict,
                   began, tasks>>

-----------------------------------------------------------------------------
SpecialistStep(e, s) ==
    \/ Resume(e, s) \/ NextSpecialist(e, s) \/ Gate(e, s) \/ Announce(e, s)
    \/ StartAttempt(e, s) \/ ProviderAnswer(e, s) \/ SaveRetry(e, s)
    \/ AnnounceRetry(e, s) \/ SaveRow(e, s) \/ SaveCkpt(e, s)
    \/ AnnounceCkpt(e, s) \/ AnnounceOutcome(e, s)

RunStep(e) ==
    \/ RejectStale(e) \/ Enter(e) \/ PreCancel(e) \/ LoadInit(e) \/ BeginRun(e)
    \/ BeginLost(e) \/ LostCancel(e) \/ SaveInit(e) \/ AnnounceStart(e)
    \/ ApplyInjectionPolicy(e) \/ AnnounceInjection(e) \/ Join(e) \/ Rethrow(e)
    \/ Finalize(e) \/ SaveDone(e)

\* What an execution does when nothing goes wrong around it.
Step(e) == RunStep(e) \/ \E s \in Specs : SpecialistStep(e, s)

Disturbance(e) == Crash(e) \/ \E s \in Specs : Throw(e, s)

\* Every execution has returned or been given up: the run is at rest.
AtRest ==
    /\ \A e \in Execs : pc[e] \in {"ended", "exhausted"}
    /\ UNCHANGED vars

Next ==
    \/ RequestCancel
    \/ \E e \in Execs : Step(e) \/ Disturbance(e)
    \/ AtRest

Spec == Init /\ [][Next]_vars

\* A live worker keeps taking its next step: every await of executeRun is a
\* query, a provider call with a timeout, or a bounded sleep.  Crashes and
\* cancellations need not happen.
FairSpec == Spec /\ \A e \in Execs : WF_vars(Step(e))

-----------------------------------------------------------------------------
(* Properties that hold whatever executions overlap.                       *)

\* The run row and the event log agree on the end of the run: there is one
\* terminal event, of the status the row ended with, and none before.  The
\* cancel route, finalize and the key check all race to write both.
TerminalEventOnce ==
    \A t \in TerminalStatuses : runEvents[t] = IF status = t THEN 1 ELSE 0

\* A run that ended stays as it ended, summary included: no late finalize and
\* no late cancel request replaces what clients were told.
RunNeverReopens ==
    [][IsTerminal(status) => UNCHANGED <<status, summary>>]_vars

\* Each way to end needs its cause: a completed or partial run has a durable
\* outcome for every specialist, a completed run reports no failure, a partial
\* run has a policy that allows it and a failure to report, a cancelled run a
\* request, a failed run one of the reasons the code knows.
EndIsJustified ==
    /\ status \in {"completed", "partial"} => \A s \in Specs : ckpt[s] # "none"
    /\ status = "completed" => summary.failed = {}
    /\ status = "partial" => config.policy = "partial" /\ summary.failed # {}
    /\ status = "cancelled" => cancelRequested
    /\ status = "failed" =>
         \/ expired
         \/ StaleExecs # {}
         \/ config.injection = "fail_run"
         \/ config.policy = "fail_run" /\ summary.failed # {}

\* An execution about to end the run holds a terminal status, and a decision to
\* end it as cancelled has the durable request behind it.
DecisionSound ==
    \A e \in Execs :
        /\ pc[e] = "finalize" => verdict[e] \in TerminalStatuses
        /\ verdict[e] = "cancelled" => cancelRequested
        /\ \A s \in Specs : task[e][s] = "cancelled" => cancelRequested

\* Only an outcome is ever saved, checkpointed, announced and joined.
OutcomeKnown ==
    \A e \in Execs, s \in Specs :
        task[e][s] \in {"saveRow", "saveCkpt", "announceCkpt",
                        "announceOutcome", "settled", "loaded"}
            => seen[e][s] \in Outcomes

\* A run is queued only as long as nobody asked to cancel it.
QueuedUntouched == status = "queued" => ~cancelRequested

\* The inductive invariant behind TypeOK, TerminalEventOnce and LifecycleSpec:
\* what an execution carries from one transaction to the next (a decision, an
\* outcome) stays true while other executions and the user act in between.
IInv ==
    /\ TypeOK
    /\ DecisionSound
    /\ OutcomeKnown
    /\ QueuedUntouched
    /\ TerminalEventOnce

\* The first outcome a checkpoint records is the one every later resume reads:
\* no execution replaces it (create-wins, checkpoint-service.ts save).
CheckpointsAreFinal ==
    [][\A s \in Specs : ckpt[s] # "none" => ckpt'[s] = ckpt[s]]_vars

\* The start of the run, the injection finding and the cancel request are
\* announced at most once, by crashed and by concurrent executions together.
AnnouncedOnce ==
    \A t \in {"started", "safety", "cancellation_requested"} : runEvents[t] <= 1

\* The run row with its terminal events is an instance of RunLifecycle.
Lifecycle == INSTANCE RunLifecycle WITH
    announced <- [t \in TerminalStatuses |-> runEvents[t]]

LifecycleSpec == Lifecycle!Spec

-----------------------------------------------------------------------------
(* Properties of a run whose executions follow one another.                *)

CallBegins(e, s) == task[e][s] # "calling" /\ task'[e][s] = "calling"

\* A specialist with a durable outcome is never sent to the provider again,
\* whatever restarts happen around its checkpoint.
NoCallAfterCheckpoint ==
    [][\A e \in Execs, s \in Specs : CallBegins(e, s) => ckpt[s] = "none"]_vars

\* Across restarts a specialist is checkpointed and concluded at most once in
\* the event log, so clients see one outcome per specialist.
OneOutcomeEvent ==
    \A s \in Specs :
        /\ specEvents[s]["checkpointed"] <= 1
        /\ specEvents[s]["completed"] + specEvents[s]["failed"] <= 1

\* Once the run has ended nothing more is written for it: no specialist is
\* left running behind a terminal event.
QuietAfterEnd ==
    [][IsTerminal(status) => UNCHANGED <<events, ckpt, row>>]_vars

\* What the run reports is what was made durable: the terminal summary lists
\* checkpointed outcomes only, all of them when the run ran to its join, and
\* the result row of a checkpointed specialist shows the same outcome.
SummaryMatchesCheckpoints ==
    /\ \A s \in Specs :
         /\ s \in summary.completed => ckpt[s] = "completed"
         /\ s \in summary.failed => ckpt[s] = "failed"
         /\ ckpt[s] # "none" => row[s] = ckpt[s]
    /\ status \in {"completed", "partial"} =>
         summary.completed \cup summary.failed = Specs

\* A specialist of a sequential run works on the outcome of its immediate
\* predecessor, which is durable, also when the predecessor ran before a crash.
SequentialInput ==
    \A e \in Execs, s \in Specs :
        config.mode = "sequential" /\ pc[e] = "run" /\ task[e][s] \in Working =>
            /\ prior[e] = s - 1
            /\ \A r \in Specs : r < s => ckpt[r] # "none" /\ seen[e][r] = ckpt[r]

\* Every run ends, however often it is disturbed, unless the scheduler gave up
\* on all its executions.
EveryRunEnds ==
    <>(IsTerminal(status) \/ \A e \in Execs : pc[e] = "exhausted")

-----------------------------------------------------------------------------
(* What a comment says and the code does not do.                           *)

\* "completed specialists are never rerun and outputs are never duplicated":
\* a result row that says completed is not taken back.
CompletedResultKept ==
    [][\A s \in Specs : row[s] = "completed" => row'[s] = "completed"]_vars

=============================================================================
