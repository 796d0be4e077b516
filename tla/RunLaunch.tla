------------------------------ MODULE RunLaunch ------------------------------
(***************************************************************************)
(* Launching a run: the composer, which sends a request with an            *)
(* idempotency key and sends it again when the user asks for it; the route *)
(* that creates the run, its specialists, its first event and its          *)
(* dispatch, each in a transaction or call of its own; and what can happen *)
(* to the run from its first row on.                                       *)
(*                                                                         *)
(* A submission is one press of the button.  A run is named by the         *)
(* submission whose request created it, an idempotency key by the one that *)
(* drew it.  The execution behind the dispatch is RunWorkflow; here it     *)
(* begins the run and ends it.                                             *)
(***************************************************************************)
EXTENDS Naturals, Sequences

CONSTANTS
    Contents,        \* prompt, mode, specialists and room of a request
    Nothing,
    MaxSubmissions,  \* bound: presses of the button
    MaxFaults        \* bound: lost requests and answers, crashes, failed calls

ASSUME ContentAssumption == Nothing \notin Contents
ASSUME BoundAssumption == MaxSubmissions \in Nat /\ MaxFaults \in Nat

Submissions == 1..MaxSubmissions
Runs == Submissions
Keys == Submissions

VARIABLES
    \* the composer: form, the ref pendingLaunch, the submission it awaits (0:
    \* not loading), the run it handed on (0: none)
    content, pending, waiting, started,
    \* room_bindings has the room; the specialists are configured and enabled;
    \* INNGEST_EVENT_KEY is set
    bound, configured, eventKey,
    \* per submission: position, content and key
    pc, job,
    \* runs: creator by (workspace, idempotency key), content, status; 0 and
    \* "none" without a row; run_specialists; run_events; sent to Inngest
    owner, ordered, status, prepared, log, dispatched,
    \* runs whose launch was answered 202
    accepted,
    \* ghost: the intent of each submission, named by its first one; the last
    \* content submitted and not launched yet
    intent, lastContent,
    submissions, faults

composer == <<content, pending, waiting, started>>
setup == <<bound, configured, eventKey>>
runs == <<owner, ordered, status, prepared, log, dispatched>>
ghost == <<intent, lastContent>>
bounds == <<submissions, faults>>
vars == <<composer, setup, pc, job, runs, accepted, ghost, bounds>>

NoLaunch == [content |-> Nothing, key |-> 0]

Init ==
    /\ content \in Contents
    /\ pending = NoLaunch /\ waiting = 0 /\ started = 0
    /\ bound = TRUE /\ configured \in BOOLEAN /\ eventKey \in BOOLEAN
    /\ pc = [n \in Submissions |-> "unused"]
    /\ job = [n \in Submissions |-> NoLaunch]
    /\ owner = [k \in Keys |-> 0]
    /\ ordered = [r \in Runs |-> Nothing]
    /\ status = [r \in Runs |-> "none"]
    /\ prepared = [r \in Runs |-> FALSE]
    /\ log = [r \in Runs |-> <<>>]
    /\ dispatched = [r \in Runs |-> FALSE]
    /\ accepted = {}
    /\ intent = [n \in Submissions |-> 0]
    /\ lastContent = Nothing
    /\ submissions = 0 /\ faults = 0

-----------------------------------------------------------------------------
(* The composer.                                                           *)

\* The form may be edited while a request is on its way.
Edit(c) ==
    /\ submissions < MaxSubmissions
    /\ c # content
    /\ content' = c
    /\ UNCHANGED <<pending, waiting, started, setup, pc, job, runs, accepted,
                   ghost, bounds>>

AlwaysFresh(n) == n  \* wrong: every request draws a key

\* Wrong: the pending key is used whatever it was for.
AnyPending(n) == IF pending.key # 0 THEN pending.key ELSE n

KeyFor(n) == IF pending.content = content THEN pending.key ELSE n

Submit(n) ==
    /\ waiting = 0
    /\ n = submissions + 1
    /\ submissions' = n
    /\ waiting' = n
    /\ started' = 0
    /\ job' = [job EXCEPT ![n] = [content |-> content, key |-> KeyFor(n)]]
    /\ pending' = job'[n]
    /\ pc' = [pc EXCEPT ![n] = "access"]
    /\ intent' = [intent EXCEPT ![n] =
                     IF content = lastContent THEN intent[submissions] ELSE n]
    /\ lastContent' = content
    /\ UNCHANGED <<content, setup, runs, accepted, faults>>

-----------------------------------------------------------------------------
(* The answers.                                                            *)

Goto(n, position) == pc' = [pc EXCEPT ![n] = position]

\* launchRun throws: the ref keeps the key for the next press.
Fail(n) ==
    /\ Goto(n, "done")
    /\ waiting' = IF waiting = n THEN 0 ELSE waiting
    /\ UNCHANGED <<content, pending, started, ghost>>

\* The run is handed to the navigator and the ref is cleared.
Launched(n, r) ==
    /\ Goto(n, "done")
    /\ waiting' = IF waiting = n THEN 0 ELSE waiting
    /\ started' = IF waiting = n THEN r ELSE started
    /\ pending' = IF waiting = n THEN NoLaunch ELSE pending
    /\ lastContent' = IF waiting = n THEN Nothing ELSE lastContent
    /\ UNCHANGED <<content, intent>>

\* The request is lost, or the process that serves it dies or loses a query.
Drop(n) ==
    /\ pc[n] \notin {"unused", "done"}
    /\ faults < MaxFaults
    /\ faults' = faults + 1
    /\ Fail(n)
    /\ UNCHANGED <<setup, job, runs, accepted, submissions>>

\* The connection breaks and the route goes on.
LoseAnswer(n) ==
    /\ waiting = n
    /\ faults < MaxFaults
    /\ faults' = faults + 1
    /\ waiting' = 0
    /\ UNCHANGED <<content, pending, started, setup, pc, job, runs, accepted,
                   ghost, submissions>>

-----------------------------------------------------------------------------
(* The route.                                                              *)

\* Membership, then the binding of the room to this workspace.
CheckAccess(n) ==
    /\ pc[n] = "access"
    /\ \/ bound /\ Goto(n, "lookup") /\ UNCHANGED <<composer, ghost>>
       \/ ~bound /\ Fail(n)
    /\ UNCHANGED <<setup, job, runs, accepted, bounds>>

\* A replay is answered from the row, and does nothing else.
Lookup(n) ==
    /\ pc[n] = "lookup"
    /\ LET r == owner[job[n].key]
       IN  \/ r = 0 /\ Goto(n, "profiles") /\ UNCHANGED <<composer, ghost>>
           \/ r # 0 /\ Launched(n, r)
    /\ UNCHANGED <<setup, job, runs, accepted, bounds>>

\* Profiles and policy; validateSpecialistProfiles and resolveExecutionOrder
\* refuse a specialist that is missing, disabled or named twice.
ReadProfiles(n) ==
    /\ pc[n] = "profiles"
    /\ \/ configured /\ Goto(n, "insert") /\ UNCHANGED <<composer, ghost>>
       \/ ~configured /\ Fail(n)
    /\ UNCHANGED <<setup, job, runs, accepted, bounds>>

\* createRun: the unique key makes the second of two concurrent requests fail.
CreateRun(n) ==
    /\ pc[n] = "insert"
    /\ \/ /\ owner[job[n].key] = 0
          /\ owner' = [owner EXCEPT ![job[n].key] = n]
          /\ ordered' = [ordered EXCEPT ![n] = job[n].content]
          /\ status' = [status EXCEPT ![n] = "queued"]
          /\ Goto(n, "rows")
          /\ UNCHANGED <<composer, ghost>>
       \/ /\ owner[job[n].key] # 0
          /\ Fail(n)
          /\ UNCHANGED <<owner, ordered, status>>
    /\ UNCHANGED <<setup, job, prepared, log, dispatched, accepted, bounds>>

InsertSpecialists(n) ==
    /\ pc[n] = "rows"
    /\ prepared' = [prepared EXCEPT ![n] = TRUE]
    /\ Goto(n, "event")
    /\ UNCHANGED <<composer, setup, job, owner, ordered, status, log,
                   dispatched, accepted, ghost, bounds>>

Write(r, event) == log' = [log EXCEPT ![r] = Append(@, event)]

PublishQueued(n) ==
    /\ pc[n] = "event"
    /\ Write(n, "run.queued")
    /\ Goto(n, "dispatch")
    /\ UNCHANGED <<composer, setup, job, owner, ordered, status, prepared,
                   dispatched, accepted, ghost, bounds>>

\* Wrong: dispatched as soon as the row exists.
FromInsert(n) == pc[n] \in {"rows", "event", "dispatch"}

Dispatchable(n) == pc[n] = "dispatch"

\* dispatchRunRequested: without an event key nothing is sent, and the answer
\* is the same.
DispatchAndAnswer(n) ==
    /\ Dispatchable(n)
    /\ dispatched' = [dispatched EXCEPT ![n] = eventKey]
    /\ accepted' = accepted \cup {n}
    /\ Launched(n, n)
    /\ UNCHANGED <<setup, job, owner, ordered, status, prepared, log, bounds>>

\* Wrong: the answer is given whatever became of the dispatch.
AnswersAnyway(n) == Launched(n, n) /\ accepted' = accepted \cup {n}

AnswersError(n) == Fail(n) /\ UNCHANGED accepted

DispatchFails(n) ==
    /\ pc[n] = "dispatch"
    /\ eventKey
    /\ faults < MaxFaults
    /\ faults' = faults + 1
    /\ AnswersError(n)
    /\ UNCHANGED <<setup, job, runs, submissions>>

-----------------------------------------------------------------------------
(* Around the route.                                                       *)

\* The room is bound to another workspace.
Rebind ==
    /\ bound
    /\ bound' = FALSE
    /\ UNCHANGED <<composer, configured, eventKey, pc, job, runs, accepted, ghost,
                   bounds>>

\* The cancel route, for a run the user was shown.
Cancel ==
    /\ started # 0
    /\ \/ /\ status[started] = "queued"
          /\ status' = [status EXCEPT ![started] = "cancelled"]
          /\ Write(started, "run.cancelled")
       \/ /\ status[started] = "running"
          /\ status' = [status EXCEPT ![started] = "cancelling"]
          /\ Write(started, "run.cancellation_requested")
    /\ UNCHANGED <<composer, setup, pc, job, owner, ordered, prepared,
                   dispatched, accepted, ghost, bounds>>

\* beginRun by the execution that was dispatched; a run that was cancelled
\* first is left alone.
Begin(r) ==
    /\ dispatched[r]
    /\ status[r] = "queued"
    /\ status' = [status EXCEPT ![r] = "running"]
    /\ Write(r, "run.started")
    /\ UNCHANGED <<composer, setup, pc, job, owner, ordered, prepared,
                   dispatched, accepted, ghost, bounds>>

End(r) ==
    /\ status[r] \in {"running", "cancelling"}
    /\ status' = [status EXCEPT ![r] = "ended"]
    /\ Write(r, "run.ended")
    /\ UNCHANGED <<composer, setup, pc, job, owner, ordered, prepared,
                   dispatched, accepted, ghost, bounds>>

Step(n) ==
    \/ CheckAccess(n) \/ Lookup(n) \/ ReadProfiles(n) \/ CreateRun(n)
    \/ InsertSpecialists(n) \/ PublishQueued(n) \/ DispatchAndAnswer(n)

Next ==
    \/ \E c \in Contents : Edit(c)
    \/ \E n \in Submissions :
        Submit(n) \/ Step(n) \/ DispatchFails(n) \/ Drop(n) \/ LoseAnswer(n)
    \/ \E r \in Runs : Begin(r) \/ End(r)
    \/ Cancel
    \/ Rebind

Spec == Init /\ [][Next]_vars

\* The route goes on with a request it received; Inngest delivers what it
\* accepted, and the execution ends (RunWorkflow).
FairSpec ==
    /\ Spec
    /\ \A n \in Submissions : WF_vars(Step(n))
    /\ \A r \in Runs : WF_vars(Begin(r)) /\ WF_vars(End(r))

-----------------------------------------------------------------------------
\* Submitting the same form again after lost answers and errors launches one
\* run at most, also when the first request is still being served.
OneRunPerIntent ==
    \A q, r \in Runs :
        /\ status[q] # "none"
        /\ status[r] # "none"
        /\ intent[q] = intent[r]
        => q = r

\* The run the composer hands on is one of the content it was handed on for.
LaunchedAsSubmitted ==
    [][started' \notin {0, started} => ordered'[started'] = job[waiting].content]_vars

\* A run that is executed has its specialists and its run.queued; nothing but
\* a cancellation comes before that event.
StartIsPrepared ==
    \A r \in Runs :
        /\ \A i \in DOMAIN log[r] :
               log[r][i] = "run.started" =>
                   prepared[r] /\ log[r][1] = "run.queued"
        /\ \A i \in DOMAIN log[r] :
               log[r][i] = "run.queued" =>
                   \A j \in 1..(i - 1) : log[r][j] = "run.cancelled"

\* Where dispatches are sent, a run is executed or cancelled once its row is
\* there, unless the request that created it broke off before its answer:
\* no order of the transactions, no replay and no lost answer leaves it queued.
CreatedRunsEnd ==
    \A r \in Runs :
        eventKey /\ status[r] # "none" ~>
            \/ status[r] \in {"ended", "cancelled"}
            \/ pc[r] = "done" /\ r \notin accepted

=============================================================================
