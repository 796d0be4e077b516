# Formal models of Matrix Agent Workspace

TLA+ modules, model-checking configurations and machine-checked proofs about
the control plane (`src/apps/control-plane/src/`) and the parts of the mobile
client (`src/apps/mobile/src/`) that take part in its protocols. Below, `cp/`
and `mobile/` abbreviate these two directories.

How to run: `tlc -workers 2 -config RunOverlap.cfg MCRunWorkflow.tla`,
`tlapm RunWorkflowProofs.tla`. `PROJECT.json` lists every run, the source lines
behind every definition, the hazards, the findings and the theorems.

## 1. Inventory

| Component | State it keeps | Operations | Makes it correct |
|---|---|---|---|
| **Run workflow** `cp/workflows/run-workflow.ts`, `checkpoint-service.ts`, `cancellation.ts` | `runs` (status, cancel_requested_at, terminal_summary), `run_specialists`, `workflow_checkpoints`; in memory: attempts, outcomes, prior result | `executeRun`: open, begin, injection policy, resume, `runSpecialist` per specialist, join, `finalizeTerminal` | one terminal transition and one terminal event; durable outcomes are final and never recomputed; an end has its cause; every run ends |
| **Inngest function** `cp/inngest/functions/run-requested.ts` | none (the scheduler counts restarts) | key check, `executeRun`, three restarts, a 30 minute limit | an execution that dies is replaced; a stale dispatch executes nothing |
| **Cancel route** `cp/app/api/runs/[runId]/cancel/route.ts` | writes `runs` | `POST` | cancellation is recorded and announced once, never lost, never reopens a run |
| **Run launch** `cp/app/api/workspaces/[workspaceId]/runs/route.ts`, `run-repository.ts`, `mobile/screens/RunComposerScreen.tsx` | `runs`, `run_specialists`, the composer's pending key | `POST` in several transactions, dispatch, the composer's retries | one run per form, prepared before it is executed, executed once accepted |
| **Event log** `cp/events/event-service.ts`, `append_run_event` in `0002_runs_events_memory.sql` | `run_events`, the next sequence under the row lock of `runs` | `publishEvent`, `listEventsPage`, enqueue into the outbox | numbers without holes at any instant a reader can look |
| **SSE stream** `cp/app/api/runs/[runId]/events/route.ts`, `sse-stream.ts` | cursor of the connection | `streamRunEvents` | the stream is closed only after the terminal event was sent |
| **Mobile stream client and run store** `mobile/api/run-events.ts`, `mobile/state/run-store.ts`, `RunScreen.tsx` | events, highest sequence, delivery marks | connect, open, consumeFrame, queueReconnect, dispose, addEvent, markMatrixDelivered | the log in order, nothing twice, nothing missing, nothing behind the end |
| **Matrix outbox** `cp/matrix/delivery-worker.ts`, `client.ts`, `deliver-matrix-event.ts`, `0003_matrix_outbox_sweeper.sql` | `outbox_messages` | `deliverOne`, `deliverPending`, `sweepPendingMatrixDeliveries` | the room gets the events in order, retries do not duplicate, one bad message does not stop the room |
| **GitHub mutation commands** `cp/github/mutation-command.ts`, `mutation-worker.ts`, mutations route | `github_mutation_commands`, `audit_records` | `enqueueMutationCommand`, `process`, the store's guarded updates | one effect per idempotency key, one story in the audit trail, authorization rechecked |
| **Write grants, approvals, GitHub screen** `cp/github/write-authorization.ts`, `approval-service.ts`, their routes, `mobile/screens/GitHubWorkspaceScreen.tsx` | `github_write_grants`, `mutation_approvals`, the panel and its pending key | request, decide, approve, confirm, read | one effect per confirmed content, a panel that tells the truth |
| **GitHub OAuth links** `cp/github/oauth.ts`, its routes | `github_links` (states and links) | put, take, exchange, consume, upsert | a state gives one link, to the session that asked, in time |
| **GitHub App tokens, reads** `cp/github/app-auth.ts`, `read-client.ts` | the installation's cached token, its expiry and key version | use, fetch, store, rotate, read | a token is kept with its own expiry; answers keep to the allowlist |
| **Audit listing** `cp/app/api/workspaces/[workspaceId]/audit/route.ts` | reads `audit_records` | keyset page | no record skipped or repeated |
| **Sessions, Matrix identity, rooms** `cp/auth/*`, session and room routes, `mobile/api/control-plane.ts`, `LoginScreen`, `RoomBindingScreen`, the navigator | `sessions`, `room_bindings`, the phone's secure store | create, resolve, revoke, bind; sign in, restore, clear on 401 | a session that ended, or a store that was emptied, leads back to the login at the next request that reads the store; a 401 ends whatever session is stored by then |
| Providers, specialists, prompts, redaction, encryption | abort registry of the provider | call, redact, encrypt | an answer, a transient error or a lasting one |
| Memory repository, shared contracts, normalizers | none of protocol interest | one statement each; schemas; mappings | not protocols |

How they interact: the composer launches a run, whose transactions end in a
dispatch; the Inngest function runs `executeRun`, which writes rows, checkpoints
and events; each event commits together with its outbox row and then triggers a
drain; the SSE loop reads the log that the workflow, launch and the cancel route
append to, and the phone reads the SSE loop; the phone's delivery poll reads
`outbox_messages`, which the workers send under the owner's newest session. The
GitHub screen asks for grants, approves a command, enqueues it and shows its
status; reads and mutations use the installation token. Every request of the
phone passes its session, and any of them may find that it ended.

What is hard: an execution may die between any two awaits and be restarted; the
scheduler may restart one that is still running; the cancel route, `finalize`
and the key check race for the end of the run; a run can be cancelled while it
is being launched; readers page through a log that is being appended to; workers
overlap on the outbox with a send to another server inside the transaction;
GitHub cannot be asked whether a lost call took effect; requests share a cached
token while it is refreshed and its key rotates; the phone retries what it has
not seen answered, after the user edited it; late answers meet a screen that has
moved on.

**The unit of atomicity.** Every query runs in `withTenant`
(`cp/db/client.ts:129-151`): one READ COMMITTED transaction on one connection.
A transaction is one action, except where it encloses a call to another server
(`deliverOne`) or holds a lock that others wait for (`append_run_event`); those
are split at the points others can see. Local computation up to the next await
belongs to the action before it.

## 2. Modules

| Module | Models | State and actions ↔ code |
|---|---|---|
| `RunStatus` | values of `runs.status` | `TERMINAL_STATUSES` |
| `RunLifecycle` | abstract: what is promised of one run | begin, cancel, end with exactly one announcement |
| `RunWorkflow` | `executeRun`, `runRequested`, the cancel route, the PostgreSQL stores | `status`, `cancelRequested`, `summary` are columns of `runs`; `marks` and `ckpt` are `workflow_checkpoints`; `row` is `run_specialists`; `runEvents`, `specEvents` count rows of `run_events`; `pc[e]` is the await an execution stands at, `task[e][s]` that of `runSpecialist`. One action per await, named for it |
| `RunLaunch` | the composer and the launch route, against the cancel route and the first execution | `content`, `pending`, `waiting`, `started`: `RunComposerScreen`; `pc[n]`, `job[n]`: where the n-th submission stands in the route and what it carries; `owner`, `ordered`, `status`: `runs` by idempotency key; `prepared`: `run_specialists`; `log`: the head of `run_events`; `dispatched`: sent to Inngest, if `eventKey` (`INNGEST_EVENT_KEY`) is set. One action per transaction |
| `RunFeed` | abstract: what a reader of the stream is shown | a prefix of the log, up to the terminal event |
| `EventStream` | `append_run_event`, `streamRunEvents`, the mobile client and run store | `log`, `ended`: `run_events`, `runs.status`; `txSeq`: a transaction holding the row lock; `srv*`: locals of the SSE loop; `net`: frames in flight; `link`, `shown`, `highest`, `delivered`, `pendingDeliveries`: the client |
| `OrderedRoom` | abstract: what the outbox promises a room | publish, transmit the oldest unsettled message, settle it |
| `MatrixOutbox` | the delivery worker, drains and sweeps | `msg`: `outbox_messages.status` with an elapsed or running backoff; `issued`, `active`, `unreadable`: `sessions`; `bound`: `room_bindings`; `room`: the homeserver; per worker where it stands in `deliverPending` and `deliverOne` (claim, send, commit) |
| `SingleEffect` | abstract: what an idempotency key promises | open, apply at most once, close |
| `MutationCommand` | `enqueueMutationCommand`, `process`, the command store, for one key | `command`, `stored`: the row; `audits`: records about it by outcome; `effects`: applied at GitHub; `granted`, `approved`: what the checks see; `pc[r]`: where a request stands |
| `GithubWorkspace` | the mutation panel with the grant, approval and mutation routes behind it | `content`, `reviewing`, `shown`, `commandId`, `pending`: the screen; `grantRow`: `github_write_grants`; `approved`, `fresh`: `mutation_approvals`; `status`, `ordered`: `github_mutation_commands` by key; `pc[n]`: how far the n-th confirmation is. What `MutationCommand` takes apart is one step here |
| `OAuthLink` | the OAuth store and the callback route | `issuer`, `stored`, `expired`: state rows; `link`: links; `pc[c]`: a callback between take, exchange and upsert |
| `InstallationToken` | `app-auth.ts` and the reads that use it | `allowlist`, `token`, `expiry`, `version`: the row of the installation; `row[q]`: the copy a request was authorised with; `life`, `reach`: GitHub's side |
| `AuditTrail` | the audit route and a client that pages through it | `stamp`, `begun`, `committed`: `audit_records`, whose `created_at` is the start of their transaction; `cursor`, `listed`: the client |
| `ReadPanel` | the read half of the GitHub screen and the paged client calls | `target`: what the screen was given; `pc[l]`, `pages[l]`, `done[l]`: the loads, of which `current` was not cancelled; `readState`, `shown`: what is shown |
| `MobileSession` | session routes and service, the API client's store and its 401 handling, login, navigator, binding | `valid`, `userOf`, `binding`: rows; `stored`: the secure store, which may throw at every use; `hasSession`, `boundRoom`, `visit`: the navigator; `pc[q]`, `cookie[q]`: requests in flight |
| `Services` | the last five, in one specification | they share no state, so one variable `part` says which of them moves and the others rest: the interleavings of each are all there, and those between them could not matter. `MCServices` is its instance |
| `MC*` | the other instances for TLC | extend the module they instantiate; the configurations give the constants |
| `*Proofs` | theorems | see section 5 |

Definitions whose comment starts with "Wrong:" are slips a maintainer could make
in the definition that follows them. No specification uses them; each is put in
place of the right definition to see that a property notices.

Some variables stand for nothing in the code (`intent`, `lastContent`, `links`,
`misled`, `lapsed`): they record what a property compares, and do not decide what a
step of the code does.

### What the models leave out

- Payloads, prompts, texts and hashes. A provider answer is an output, a transient
  error or a lasting one; the injection policy is one of its three outcomes. A form
  or a mutation is one of two contents: equal or different is what keys and hashes
  depend on.
- Lengths of delays. A backoff, a TTL, a token or the run's deadline has passed or
  has not.
- `RunWorkflow`: the in-memory stores of the tests, the `[fixture:...]` hook, and
  `resumeOutcome`, whose result is not persisted.
- `EventStream`: heartbeats; the persistence of the run store across restarts of
  the app; a run that becomes invisible to its reader (no route removes members).
- `MatrixOutbox`: a homeserver that processes a request long after the worker gave
  it up; a run or event that is not found although its outbox row exists (nothing
  deletes either).
- `MutationCommand`: arguments. A request that reuses the key with other arguments
  is answered from the row of the first one, like a replay; `GithubWorkspace` has
  contents, and shows what that means for the panel.
- `MatrixOutbox`: the number of tenants one sweep takes up (100, oldest message
  first); a sweep takes all that have candidates.
- `RunLaunch`: what the execution does between its begin and its end, which is
  `RunWorkflow`.
- `OAuthLink`, `InstallationToken`: signatures, JWTs, PKCE. A cookie or a token
  belongs to a session or installation, and cannot be made up.

## 3. Runs

| Run | Question | Instance and why it is enough |
|---|---|---|
| `run_restart` | does a run that is executed once at a time report exactly what it made durable, and end? | 2 specialists, side by side and in a chain, 2 attempts, 1 restart, both failure policies, an injection that passes or fails the run: every interleaving of two tasks with throws, transient errors, a crash anywhere, a cancellation anywhere |
| `run_overlap` | does a run end once when executions overlap? | 2 executions with the right key, 1 stale, the cancel route, every injection outcome. 1 specialist: the races are between executions, not specialists. Also checks the inductive invariant of the proofs |
| `run_launch` | one run per form, prepared before it starts, executed once it is there? | 2 contents (edited or not), 3 submissions (the first, one beside it, one after it), 2 faults among lost requests, lost answers and failed dispatches, a moved binding, with and without an event key. It may stop: the user need not submit |
| `event_stream` | is the log shown in order, complete and not beyond its end, and does the phone learn of the end? | 4 events, pages of 2 (a full page, a partial one, an empty one), 2 writers, 2 disturbances: enough for a reconnect, a remount and a rollback in every pair |
| `outbox_order` | is the room served in order, by workers that overlap? | a drain and a sweep, 2 messages, 2 sessions, 2 faults, batches of 2, keys that are retired, a binding that moves |
| `outbox_liveness` | is every message settled by sweeps alone? | 2 tenants, 2 messages each, 1 fault, batches of 1 |
| `mutation_command` | one effect and one story per key, and a command that is closed? | 3 requests (the one that inserts, one that loses the race, one that replays) and 2 crashes or failed queries |
| `github_workspace` | one effect per confirmed content, and a panel that says the truth? | 2 contents, 3 confirmations, 1 fault, 1 change of the grant by someone else: a lost answer, an edit and a confirmation again, in any order |
| `services` | are links, tokens, pages, panels and sessions right in all their interleavings? | links: 3 sessions of 2 users, 2 states, 2 callbacks; token: 2 repositories, 2 requests, 2 tokens, 2 keys; audit: 4 records over 3 ticks (ties included), pages of 1 and 2; panel: 3 targets with lists of 1, 3 and 0 pages, at most 2 pages, 3 loads; sessions: 2 users, 2 workspaces, 2 logins, 3 requests. It may stop: all requests may be used up |
| `doc_*` | statements of the documentation that the code does not keep | the smallest instance that shows it |

Bounds in the modules, all named constants: `MaxAttempts`, `Retries`, `PageLimit`,
`BatchSize`, `MaxPages` and `Limits` are parameters of the code; `MaxEvents`,
`MaxDisturbances`, `MaxMessages`, `MaxSessions`, `MaxFaults`, `MaxCrashes`,
`MaxSubmissions`, `MaxAttempts` and `MaxChanges` of `GithubWorkspace`, `MaxStarts`,
`MaxTokens`, `MaxKeys`, `LastTick`, `MaxLogins` and `MaxRequests` keep the state
space finite and stop only the environment.

`run_overlap` has no restarts: what a restart adds is another execution that starts
from the stores, which is what the second execution is.

Some properties are conditional on purpose. `OncePerSession` speaks of an owner
who did not log in again: the retry after a lost answer uses the newest session,
whose access token makes the homeserver treat the transaction id as a new one, so
that the message can appear twice; `OrderedRoom` therefore allows a message to be
transmitted again until it is settled. `CommandSettles` and `CreatedRunsEnd`
excuse what a crash or a failed dispatch leaves behind, because nothing in the code
takes it up again. `CreatedRunsEnd` speaks of a control plane with an event key:
without one `dispatchRunRequested` warns and returns, as its comment says, the
route answers 202 all the same, and the run stays queued until it is cancelled.
`EmptyStoreIsNoticed` excuses a secure store that throws while a request reads it:
`authenticatedRaw` then fails without invalidating the session, so that the screens
stay, without rooms, until the next request finds the store empty.

`QuietAfterEnd`, `OneOutcomeEvent` and `NoCallAfterCheckpoint` hold for executions
that follow one another. Executions that overlap break them in the code (two
executions each call the provider and append their events); what survives an
overlap is what `run_overlap` checks and the theorems prove.

### Fairness

- `RunWorkflow`: weak fairness of each execution's own steps. Every await is a
  query, a provider call with a timeout or a bounded sleep; a worker that dies
  is `Crash`, which restarts it as the scheduler does. Cancellations, crashes
  and throws are not fair.
- `RunLaunch`: a request that was received runs to its answer; Inngest delivers
  what it accepted and the execution ends, which is `EveryRunEnds`. Submissions,
  edits and cancellations are not fair.
- `EventStream`: transactions commit, the SSE loop polls on its interval, an open
  client reads and reconnects. Opening the screen is not fair.
- `MatrixOutbox`: a started worker goes on, the cron triggers the sweep
  (`* * * * *`), a backoff of at most 300 seconds ends. Drains are not fair: a
  failed dispatch is logged and forgotten.
- `MutationCommand`: a request that was received runs to its answer. Requests and
  replays are not fair.
- `GithubWorkspace`: a confirmation that was begun goes on until it is answered or
  lost: a request that fails is answered by the API client with an error. The user
  is not fair.
- The five parts of `services` are checked for safety, without fairness.

## 4. Findings

Three statements of the documentation do not hold of the code; each has a run whose
counterexample shows how.

1. *Completed specialists are never rerun* (`doc_completed_result_kept`). The
   result row and the checkpoint are two transactions; a crash between them
   reruns the specialist and overwrites the row.
2. *Poison messages are marked terminal* (`doc_poison_settles`). One whose token
   cannot be decrypted is rethrown and stays pending; the sweep that meets it ends.
3. *The persisted command result is shown after a crash*
   (`doc_replay_shows_outcome`). A crash between GitHub's answer and
   `persistProviderResult` leaves the command queued for good.

Some behaviour was met that contradicts no document and is modelled as it is.
Cancellation is cooperative, so a request accepted after the workflow's last poll is
followed by `run.completed`, `run.partial` or `run.failed`, with
`cancel_requested_at` set. A resumed chain goes on behind the checkpoint of a failed
specialist. A crash between a checkpoint and its event loses the event. A launch
that breaks off after its first transaction leaves a queued run that no replay
dispatches. The answer of a binding that outlives its session still sets the
navigator's `boundRoom`, also for the next user, whose launch the route checks again.
The hazards of `PROJECT.json` name the lines.

## 5. Proofs

| Module | Theorems | For every |
|---|---|---|
| `RunWorkflowProofs` | `InvariantHolds`, `TypeCorrect`, `TerminalEventOnceHolds`, `RunNeverReopensHolds`, `CheckpointsAreFinalHolds`, `ImplementsLifecycle` | number of specialists, executions (stale or not), attempts and restarts, configuration |
| `RunEndProofs` | `AnnouncedOnceHolds`, `EndInvariantHolds`, `EndIsJustifiedHolds` | the same |
| `RunEndProofs` | `SoloInvariantHolds`, `OneOutcomeEventHolds`, `SequentialInputHolds`, `NoCallAfterCheckpointHolds`, `SummaryMatchesCheckpointsHolds`, `QuietAfterEndHolds`, `OneExecutionAlone` | the same, as long as the executions follow one another |
| `RunLaunchProofs` | `LaunchInvariantHolds`, `OneRunPerIntentHolds`, `StartIsPreparedHolds`, `LaunchedAsSubmittedHolds` | set of contents, number of submissions and faults |
| `EventStreamProofs` | `StreamInvariantHolds`, `NoHolesHolds`, `ClosedAfterTerminalHolds`, `ReportsKeptHolds`, `ImplementsFeed` | set of writers, number of events and disturbances, page size |
| `MatrixOutboxProofs` | `OutboxInvariantHolds`, `SendExclusiveHolds`, `OncePerSessionHolds`, `ImplementsOrderedRoom` | set of tenants, drains and sweeps, number of messages, sessions and faults, batch size |
| `MutationCommandProofs` | `CommandInvariantHolds`, `AuditedOnceHolds`, `LapsedIsStoppedHolds`, `CompletedIsTrueHolds`, `ImplementsOneEffect` | set of requests, number of crashes |
| `GithubWorkspaceProofs` | `WorkspaceInvariantHolds`, `OneEffectPerIntentHolds`, `ReportIsTrueHolds` | set of contents, number of confirmations, faults and changes of the grant |
| `ServicesProofs` (links) | `LinkInvariantHolds`, `LinkIsEarnedHolds` | set of sessions, users, accounts and callbacks, number of states |
| `ServicesProofs` (tokens) | `TokenInvariantHolds`, `TokenHasItsExpiryHolds`, `AnswersAreAllowedHolds` | set of repositories and requests, number of tokens and keys |
| `ServicesProofs` (audit) | `TrailInvariantHolds`, `ListingIsCompleteHolds` | set of records, number of ticks, page sizes |
| `ServicesProofs` (read panel) | `PanelInvariantHolds`, `ShowsItsTargetHolds` | set of targets and loads, lengths of the lists |
| `ServicesProofs` (sessions) | `AppInvariantHolds`, `EmptyStoreIsNoticedHolds` | set of users and workspaces, number of logins and requests |

Assumptions: those the modules name (`NAssumption`, `PageAssumption`,
`SizeAssumption`, ...: positive numbers where the code has them, natural numbers as
bounds, record ids that are numbers, disjoint kinds of workers, a `Nothing` that is
no content), which TLC evaluates in the run of the module. The five parts of
`Services` are instances; `PartsKeepTheirSpecs` shows that the composition keeps
the specification of each, and the other theorems of `ServicesProofs` prove a
property of a part from that part's own specification and carry it over.

Five theorems of `RunEndProofs` (and the invariant behind four of them) have the
hypothesis `[]OneAtATime`: of two different executions at most one is between its
first line and its return. The properties they state are false without it
(section 3). `OneExecutionAlone` proves that a run with one execution, restarted any
number of times, meets it: that is the instance of `run_restart`. The hypothesis
also covers executions that are dispatched after the one before was given up.
`QuietAfterEndHolds` further assumes that no execution has a stale key.

With these, every invariant, every action property and every refinement that the
runs check is proved; what is left to TLC alone is liveness.

All four abstract specifications are proved to be implemented: `RunLifecycle` by
`RunWorkflow`, `RunFeed` by `EventStream`, `OrderedRoom` by `MatrixOutbox`,
`SingleEffect` by `MutationCommand`. Each inductive invariant was first checked by
TLC on instances of the size of those in section 3. The arguments:

**Run workflow.** `TerminalEventOnce` is not inductive by itself: an execution decides
how the run ends in one step and writes it in a later one, so the invariant must
say that what it carries in between is a terminal status and, if it is
"cancelled", that the request is durable (`DecisionSound`); that what a task
carries towards the row, the checkpoint and the event is an outcome
(`OutcomeKnown`); and that the cancel route, which ends a queued run without
looking at `cancel_requested_at`, can announce that end because a queued run has no
earlier request (`QueuedUntouched`). `IInv` is their conjunction with `TypeOK`.
Most steps do not touch the run row: lemma `RowStep` sorts all of `Next` into steps
that keep the row and its terminal events, begin the run, end it, or request a
cancellation, and the theorems about the row are proved for these four kinds.

**The end of a run and its announcements.** A mark in `workflow_checkpoints` is
inserted before the event it guards and by one execution only, so that nobody but
that execution can append the event, and a crash in between leaves it out
(`MarkSound`); the cancel request is
announced in the transaction that records it (`RequestSound`). `EndIsJustified`
needs the causes of an outcome while it travels: what a task carries
(`TasksJustified`) and what an execution has decided (`DecisionsJustified`) each
have a cause in the stores already, and causes only grow (`CausesGrow`).

**Executions that follow one another.** The stores alone do not say that an event
or a row is right: `StoreInv` holds them together (a checkpointed specialist has
the row of its checkpoint; one without a checkpoint has no concluding event), but
is kept only because the execution at work knows more. `WorkerInv` says what, by
the place the task has reached: until it saves its checkpoint there is none; from
then on the checkpoint is the outcome it holds; until it announces there is no
event yet (`TaskAgrees`). A restart forgets all that and reads the checkpoints
again, which is why a crash between checkpoint and event loses the event and
never doubles it. `InOrder` is the chain of sequential mode: nothing is begun
before all that precedes it is done, and the last one done is `prior`; it survives
a restart because the checkpoints are those of the first specialists, so that the
lookup finds them in a row. `SummaryInv` adds that a decision "completed" or
"partial" is made with every task done, `QuietInv` where an execution can stand
when the run has ended: before its `beginRun`, which it will lose, or behind its own
`finalize`.

**Launch.** A run belongs to the submission that drew its key (`KeyInv`,
`OwnerInv`), which is the only one to write its specialists and events, so its
position says which transactions are done and what the log starts with (`LogInv`).
A later submission with the key finds the run and touches nothing.

**Log and stream.** `LogInv`: at most one transaction holds the row lock, and the
number it drew is the next one. `ServerInv`: once the loop has read a terminal
status the log is complete, which is what makes reading the status before the page
correct. `NetInv`: frames in flight continue what is shown. `StoreInv`: what is shown is the beginning of the log, and a client
that still wants more has not seen the terminal event. `MarksInv`: a delivery
report is in the store, or waits for an event that has not come.

**Outbox.** `LockInv`: no row is locked twice. A worker locks only the row it sends,
which does not give exclusion by room: `HeldInv` says that a locked message is
pending and everything before it is settled, because a message is claimed only
when none before it is pending; two locked rows of one room are therefore the same
row. `SessionInv` and
`RoomInv` bound the copies of a message by the sessions it was sent under. For the
refinement, `PrefixInv` says that what the room holds first of each message is in
order and without gaps, and `AcceptedInv` that an accepted send is in the room.

**Mutation command.** One request owns the command from its insert to the stored
result, one request closes it, and only it may write the closing record; the
positions of all others exclude a call. `CommandInv` says so for sets of requests,
which is what makes the proof independent of their number.

**GitHub screen.** The key of a confirmation is decided when it is sent, its effect
happens three transactions later, and the answer may be lost in between, while the
user edits. `KeyInv` says that a key stands for one content, wherever it is
carried. The difficulty is the key that was drawn but never sent: it is `Fresh`, and
a confirmation that was lost with it is `Dead` and will never have an effect. With that
`IntentInv` can say that all confirmations of one intent that reach the command
route carry one key, and `CurrentInv` that the next one will carry it as well: it
is the pending key, or none was sent. `OwnerInv` and `Spent` then bound the effects
by the keys: the request that stored the command is the only one to call GitHub,
and once it has, no other does. `ScreenInv` ties what is shown to the confirmation
that was awaited.

**Links and tokens.** `LinkInv`: a state that a callback took is no longer stored,
so at most one callback carries it, and it carries the session it was issued to.
`TokenInv`: the copy of the row that a request holds pairs a token with its own
expiry, so that a rotation, which writes back whatever the row holds by then, may
restore an older token but never part it from its expiry.

**Audit listing.** `CursorInv`: nothing that was listed lies behind the cursor.
`OwedInv`: a record that was there when the listing began is listed or still
behind the cursor. A record written later may fall on either side, because it
carries the time its transaction started. A page is any descending sequence of
the first matching records, up to the limit, so that the proof needs no sort.

**Read panel and session.** `AimInv`: the load that was not cancelled has the target
the screen was last given; a late answer of another one is dropped. `EmptyInv` says
why the store is empty behind the screens: a request emptied it in this visit and
is about to reset the navigator, or it was empty when they were mounted. Such a
visit is `Blank`: none of its requests ever found a cookie, so none can be
answered with rooms, and its first one is on its way to the login or was refused by
the store. An answer that is lost is one of a request that had already looked
(`LostInv`).

Only model-checked: the liveness properties `EveryRunEnds`, `ReaderLearnsEnd`,
`EveryMessageSettles`, `CommandSettles`, `CreatedRunsEnd` and `ConfirmIsAnswered`
(fairness and ENABLED are beyond the prover). What recursive data computes for all
inputs would stay with TLC as well; the sorted batch of a worker is the one place
where a proof would have needed it, and the invariant does without: that a message
is sent in its turn follows from the lock query.

## 6. Not modelled

- **Provider abort registry** (`cp/agents/provider.ts`, `cancelAll`): an aborted call
  and one that times out are the same transient end in `RunWorkflow`; the registry is
  listed as a hazard without a property.
- **Memory repository**: an insert and a nearest-neighbour query, one statement
  each, which nothing calls in a protocol.
- **Shared contracts, normalizers, rendering of Matrix messages, prompts**: stateless
  transformations of data the models abstract from.
- **Encryption and redaction**: the version of a key is modelled where it decides
  what happens (`MatrixOutbox`, `InstallationToken`); the transformations are not.
- **Row-level security**: a question about SQL predicates. A row of another tenant
  is a row that a query does not find.
- **Screens**: layout, wording and the audit list of the GitHub screen.
- **Build, deployment, health checks, tests**: no behaviour of the system.
