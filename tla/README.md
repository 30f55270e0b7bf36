# TLA+ models of the WeChat x Pi agent service

The service is one Node process with a SQLite database. It polls a chat channel for
messages, runs an agent on them, and sends the replies back. The code under `src/src` is
the reference for everything here; paths below are relative to it.

## 1. The system

| Component | Code | State | Operations |
|---|---|---|---|
| Message ingestion | `workers/poll-loop.ts`, `modules/messaging/.../ingest-message.ts`, `SqliteControlPlane.ingestBatch` | `inbox`, `cursor`, `turns`, `sessions` | one transaction per `getUpdates` batch; then, message by message, permission and task controls at once, while a run may be going on |
| Turn worker | `workers/turn-worker-loop.ts`, `modules/turns/.../run-next-turn.ts` | `turns`, the claimed turn | claim, commands, run, `completeTurn`, `failTurn` |
| Tasks | `modules/tasks/`, `sqlite-task-store.ts` | `tasks`, `task_inputs`, `task_reviews`, `task_control_receipts`, `TaskManager.active` | attach, begin, reserve a model call, review, settle, pause, cancel, resume, budget, fail, close |
| Conversations | `end-session.ts`, `expire-idle-sessions.ts`, `SqliteControlPlane.endSession` | `sessions` | `/new`, idle expiry, shutdown, recovery |
| Permissions | `permission-service.ts` | requests, grants, revision, receipts | request, confirm, revoke, expire, end with the session, consume; a confirmed request continues the blocked task |
| Reply delivery | `workers/outbox-worker-loop.ts`, `deliver-reply.ts` | `outbox` with leases, attempts and prepared uploads | claim, renew, upload, send, settle, retry, dead letter, recover |
| Process | `bootstrap/` | service lock, loops | start with recovery, stop with grace period, abort, crash, lost lock |
| Session memory | `memory-worker-loop.ts`, `generate-session-memory.ts`, `sqlite-memory-job-repository.ts`, `markdown-memory-store.ts` | `memory_jobs` with leases, a detail file per session, `MEMORY.md` per user | claim, extract, checkpoint, merge, complete, fail, recover |
| Models and authentication | `modules/models/` | selection, bindings, credential revisions, request gate | select, bind, log in, replace credentials |
| Agent runtime, tools, sandbox | `adapters/pi/`, `adapters/sandbox/`, `modules/tools/` | sessions of the agent library, child processes | run, abort, tool calls |
| Artifacts | `modules/artifacts/` | files and images with quota | save, select, deliver, clean up |
| Observability, admin pages, configuration, skills, prompts | `modules/observability/`, `entrypoints/`, `bootstrap/config.ts`, ... | read-only or written once | - |

How they interact: the poll loop and the turn worker share the database and
`TaskManager.active`. A control that arrives during a run changes the task's row and aborts
the run's signal; the run notices at its next check, and `completeTurn` decides in one
transaction what its result still counts for. `completeTurn` also queues the task's next
internal turn and the parts of the reply, which the outbox worker delivers. The end of a
conversation leaves a memory job in the same transaction; the memory worker takes it up once
the conversation's turns and permissions are done with. Permission
changes call back into the running agent (`onChange` in `container.ts`).

What is hard: every `await` of a run lets a batch in; a batch is bound to tasks before its
controls are applied; controls are applied twice (at ingress and when their turn runs) and
must count once; a revision counter tells late results from current ones; recovery runs
only at startup; leases, retries and a lock that can be lost decide who may send; memory is
published in files and accounted for in the database, and a crash may come between the two.

What makes each part correct:
- tasks: at most one open per conversation; whatever is active is being driven; a paused task
  stays paused; what the user was told is based on the newest input; budget; legal transitions;
- turns: each one ends; none of a cancelled task is left;
- permissions: a tool runs only with what is granted now; a one-use grant serves one tool; a
  command counts once however often it is met; the tools behind an answer saw one revision of
  the policy, and a reviewer decides only under that revision;
- provider accounts: a request runs with the account it was bound to, a replacement waits for
  the requests under way, and after a crash the account file and the tables agree again;
- artifacts: what a row promises is on disk, no file is left that no row speaks of, and images
  go out only with the result they were reviewed with;
- delivery: in order, at least once, never again after settlement, bounded attempts, and the
  turn's status says what became of the parts;
- memory: every ended session is dealt with, in order, recorded once; nothing that is in an
  overview, by merge or by hand, is lost; row and file agree.

## 2. Modules

| Module | Models |
|---|---|
| `TaskDomain` | the status of a task and its transition table |
| `TaskExecution` | ingestion, turn worker, tasks, conversations, one permission request, restarts |
| `TaskLifecycle` | abstract: how a task's status, limit and calls may change; `TaskExecution` refines it |
| `PermissionGrants` | requests, grants, receipts, redelivered commands, the run and its tool processes |
| `ProviderAccounts` | requests of the agent, the provider gate, logins with their commit, the selection |
| `Artifacts` | files of the user and images of the agent: directories, rows, review, outbox, cleanup |
| `OutboxDelivery` | the outbox, its workers, and the processes they live in |
| `DeliveryOrder` | abstract: parts in order and at least once; `OutboxDelivery` refines it |
| `MemoryJobs` | the end of sessions, memory jobs, the memory worker, its files, the processes |
| `MemoryLedger` | abstract: ended sessions stand in line, and of every user only the oldest unsettled one is recorded; `MemoryJobs` refines it |
| `TaskExecutionProofs`, `TaskPromisesProofs` | invariant and theorems of `TaskExecution`, in two layers |
| `PermissionGrantsProofs`, `ProviderAccountsProofs`, `ArtifactsProofs`, `OutboxDeliveryProofs` | invariant and theorems of the module named |
| `MemoryJobsProofs`, `MemoryRecordsProofs` | invariant and theorems of `MemoryJobs`, in two layers |
| `MCTaskExecution`, `MCPermissionGrants`, `MCProviderAccounts`, `MCArtifacts`, `MCOutboxDelivery`, `MCMemoryJobs` | menus, participants and symmetry for TLC |

How the modules meet. `TaskExecution` and `OutboxDelivery` meet at `completeTurn`: its
`REPLY_PENDING` is the former's last word on a turn and the latter's `Publish`. `TaskExecution`
and `MemoryJobs` meet at `endSession`: its effect on turns and tasks is in the former, the row it
leaves in the latter, and what it takes from the grants in `PermissionGrants` (`Part`,
`Cleanup`). `TaskExecution` says what a permission does to the task that asked for it;
`PermissionGrants` what it does to runs and tools. `Artifacts` has the statuses of
`TaskExecution` cut down to what decides about images, and hands an image to the outbox;
`ProviderAccounts` is what a run, a review or a memory task goes through before its first model
call. Each module has its own process, since a product of their states would be beyond TLC;
what one assumes of another is named in these sections.

### TaskExecution

State. Rows are numbered in insertion order and columns are functions of the number:
`kind tstat at tsess ttask trev` are columns of `turns`, `conv status rev used limit` of
`tasks`, `receipt` is `task_control_receipts`, `review` is `task_reviews`. `sess`/`live` are the
newest conversation and whether it is `ACTIVE`. `pc cur aborted called settlement` are the
turn worker's stage, its turn, the abort signal, whether a model call was made, and the
settlement on its way to `completeTurn`. `phase bNext bLast` are the poll loop's batch.
`reqState reqTurn approvedBy contTurn` are the permission request, the turn it blocked, the
message that confirmed it and its continuation.

Actions. A code segment without an `await` is one action.
`Receive`/`Commit`/`Admit` spell out the one segment of a batch, during which nobody else
moves; a crash between the transaction and the controls is possible.
`ClaimInput`, `ClaimControl`, `ClaimConfirm`, `ClaimNew`, `ClaimManage`, `ClaimLapsed` are
`execute` up to the first await for each kind of turn. `Begin...`, `ModelCall`, `RunEnds`,
`Outcome`, `ApplyForCompletion`, `ReviewReturns`, `ReviewFails` follow `TaskManager.execute`;
`Complete` and `TurnFails` are the two ends. The gap between the decision and `completeTurn`
is kept. `Restart` is a stop or a crash together with the recovery at the next startup.

Abstractions. One sender and one peer, so one live conversation; one permission request per
behaviour; messages are kinds; `REPLY_PENDING` versus `SUCCEEDED` tells whether something was
sent. Turns of one batch share `at`, and ties may go either way (their order is the order of
hashed ids). A revoked, expired or ended permission is "revoked". One process at a time.
`FAILED` is a task status no code sets. With `StorageFaults`, a write of the turn worker may
throw once a turn is claimed, in a model command and in the settlement, outside the run's own
catch; a turn that is answered without an await (a control, a confirmation, a `/new`, a lapsed
continuation) is one step and does not fail. A run that ends before its first model call (an
unreadable skill, say) differs from one after it only in the text of its pause.

### OutboxDelivery

State. `size texts tstat` describe each reply and its turn; `st attempts owner fresh due
prepared` are columns of `outbox`, where `fresh` says that `lease_expires_at` is still ahead,
`due` that `next_attempt_at` has come, and `prepared` is the credential scope of the stored
upload. `mode holder` are the processes and the service lock; `pc row try reached` are
`DeliverReply.execute` of each; `deliveries last` record what reached the user.

Actions. `Publish` is the insertion in `completeTurn`. `Claim`, `Loaded`, `Uploaded`,
`Confirmed`, `Fails`, `LosesLease` are the segments of `execute`; each check is the work signal
and a renewal of the lease. `LeaseExpires` happens to rows nobody attends, and, with `Faults`,
to others too (a heartbeat too late). `Start` includes `recoverInterrupted`; `Stop`, `Abort`,
`Exit` are the orderly end; `Crash` and `LockLost` the others. After a lost lock two processes run.

Assumption. A request takes effect at the channel, or does not, when it is made; what may be
lost or late is its answer. A request that takes effect long after its row was settled is
not modelled. Which due row goes first depends on clocks and is left open.

### MemoryJobs

State. `active ended told open cleaned` describe sessions: `ended` lists those with a row in
the order of the rows, `told` says whether `source` finds turns in them, `open` whether a turn
(the `/new` itself) still runs, `cleaned` is `cleanup_done`. `phase merge worker lease due` are
columns of `memory_jobs`. `detail` and `overview` are the files: a detail is the flag on its
first line, an overview its marker and the sequence of what was merged or edited into it.
`mode holder` are processes and lock as in `OutboxDelivery`; `pc job flag draft previous` are
`GenerateSessionMemory.execute` of each.

Actions. `Archive` is `endSession`'s transaction, for `/new`, idleness, shutdown and recovery;
`Clean` the separate cleanup and its repair. `Claim`, `Reads`, `Skips`, `Extracts`,
`Checkpoint`, `CompletesWithout`, `StartsMerge`, `Completes` follow `execute`; each transaction is
one action. `LosesCheckpoint` and `LosesCompletion` replace the file and then lose the
transaction, by an error or a crash. `Fails` is the catch clause with `fail()`, possible at
every stage; `FailsSilently` has `fail()` fail too. `HandEdit` is the user at `MEMORY.md`.

Abstractions. Attempts only set the length of a backoff and are left out. Hand edits add to
the text and may drop the marker line. Comparing the revision and replacing the file is one
step: it is one synchronous segment under the writer lock, so another process of the service
cannot come in between, though another program's write could. Rows have increasing
`ended_at`, so the clock is assumed not to run backwards. Details are never edited by hand.
`should_merge` goes back to its default when a job completes, as in the code, so after
completion the column says nothing; `NothingForgotten` therefore speaks of the detail file.

Overlap. A process that lost the lock while stalled keeps the admin port, and `main.ts` refuses
to start on a port in use; so two processes overlap only with different ports or hosts on one
data directory. The code guards against this with leases bound to worker ids, and the models
check that guard.

### PermissionGrants

State. `request status lapsed` are `permission_requests` (`lapsed`: past `expires_at`),
`revision policy` is `permission_policies`, `heard refused` are the receipts of commands, with
those that say the command failed, `parted sealed` the receipts of `/new` and of ended sessions.
`command place queue session last` are messages, the session of each one's turn, the queued
turns and the live session of `app.db`. `run driver runRevision aborted stopping` are the run,
the message it answers, its snapshot, its signal, and whether the agent library was told;
`uses` gives the requests each tool process works with. `counted served mixed reply` are
history: what each message brought about, how often a grant was consumed, whether a tool saw
another revision than the run's, and with what the latest run was published: nothing, the notice
of a pause, an unreviewed question or spent budget, or what a reviewer decided.

Actions. `Handle` is `PermissionService.handleMessage` with its receipt, `Part` and `Cleanup` are
`endSession` under the receipt of a message and of a session, `Revise` is `bump` with the
`onChange` that `container.ts` wires up. `Ingest` is a batch of one message and the control after
it, `IngestCrashes` a crash between the two, `Redeliver` the same message once more,
`ClaimCommand`/`ClaimNew`/`ClaimText` its turn. `StartRun`, `Prompt`, `CallTool`, `ToolEnds`,
`AskFor`, `RunEnds`, `OutcomeIsRead`, `ReviewEnds` follow `runBoundTurn`, `executeTool` and
`TaskManager.execute`. `RunEnds` is the last look at signal and policy; then the selected images are
read from disk, and `OutcomeIsRead` goes on without another look (`task-manager.ts:71`): to the
review, which does look again, or to a question or the notice of a spent budget, which are
published although a revocation came meanwhile. No document forbids that, and
`ReplyUnderOneRevision` says what holds in spite of it: the tools behind every published answer
saw one revision, and what a reviewer decided is published only while that revision is the
table's. `Caught` is the catch clause, whose notice of a pause says nothing of the work.
Between `StartRun` and `Prompt` an abort meets no prompt, and the run goes on; this is in the
code, and the properties must hold in spite of it. Each transaction of `permissions.db` may
fail, and the failure of a cleanup is swallowed as it is in `EndSession.cleanup`.

Abstractions. What is asked for is a kind of change, and operations are on the folder or host
that was asked for, so paths and domains are not compared. A tool that needs no grant is not
told from a free slot. The agent asks with the lifetimes of `AgentLifetimes`. A permission asked
for after `/new` was admitted and before its turn ran (`permission-service.ts:200`) is not
distinguished. The tool processes of a crashed service run on outside the model.

### ProviderAccounts

State. `holders blocked quarantined asleep` are `ProviderRequestGate`, where `asleep` are the
waiters whose promise is not resolved. `rpc chosen attempts binding` are the requests (a turn, a
review, a memory task) and `turn_model_bindings`. `cred credRev` are the accounts in the
credential file and their revisions; `row candidate provider` are `provider_auth_operations`,
with the journalled candidate; `view opc aborted` are the operations in memory. `selected selRev
seen` are the selection and what choosers have seen of it. `phase` is the process.

Actions. `Begin`, `Resume`, `GiveUp`, `Bind`, `Finish` are the segments of a request:
`gate.enter`, each look after a wake, an abort while waiting, binding and the check of the
revision, release. `Start`, `BeginLogin`, `Prepared`, `Rejoin`, `Redrain`, `CommitFile`,
`FinishCommit`, `Refreshed` are `ProviderAuthService.login` inside `gate.exclusive`; `Throw` is
its finally clause and `Catch` its catch clause, which come one after the other with the
gate's waiters in between. `Cancel` is the owner's or the timer's. `Look` and `Choose` are a
selection with its expected revision. `Close`, `Exit`, `Crash`, `Boot`, `RecoverRow`, `Serve` are
the process, with the recovery that tells a commit by the credential file.

Abstractions. A credential is a value, and so is its fingerprint; two logins may end with the
same account. Prompts of a login are not steps. The abort of a waiter is a step of the waiter.

### Artifacts

State. `row home selected` are `image_artifacts` and `image_reply_selections`, `outbox` the rows
with an image, `file` the image directory; `doc` and `blob` are `user_files` and their files.
`status revision cur` are the tasks. `stage item base aborted attached checking` are the turn
worker: its place in `SaveInboundFiles`, in the tool `reply_image`, in the review, or in the
cleanup; the image it has in hand; the revision it works for. `age recent sentRecent` stand for
the clock: a day and a week decide. `lost` is history: what a crash or a failed removal left.

Actions. `Claim`, `CheckDocument`, `StoreDocument`, `NoteDocument` are `SaveInboundFiles`;
`CallTool`, `ToolFails`, `SaveSnapshot`, `Register`, `Discard`, `Select`, `Clear` are
`ImageReplyService.prepare` and the selection; `RunReturns`, `Loaded`, `ReviewRejects`,
`ReviewApproves` are `TaskManager.execute` with `assertReady`, the reading of the images and
`completeTurn`; `Deliver` is the outbox. `Boot`, `Sweep`, `ExpireFile`, `ExpireRow`,
`CleanupFails`, `Serve` are the startup with its cleanup, `Crash` ends the process anywhere.
`Input`, `Control`, `Resume` are the user. An input whose control before it throws does not
abort the run (`Interrupt`). `CleanupFails` ends the cleanup at the first error, and a row whose
file is gone by then stays.

Abstractions. A tool call id that comes again is left out. So are tool calls of
a run that was aborted before its prompt and missed it (`PermissionGrants` has such runs): the tool
looks only at its own signal, but the selection is refused by the task's revision and status, so
such a call leaves at most an image nobody selected, like one of a run aborted after `Register`. Only the first message carries
files, and its turn is claimed once; a turn with nothing but uploads is a run that ends
`WAITING`. A file over quota or aborted is "failed". The upload of files to a model provider and
the tools that read them are not modelled.

## 3. Runs

| Run | Shows | Bounds |
|---|---|---|
| `task_control` | every task control against runs and inputs: one open task, answers to the newest input, the budget, pauses that stay; refinement of `TaskLifecycle` | 3 messages in batches of up to 2, 1 restart, limit 2 |
| `task_session` | conversations ending under text and file turns, model commands and the permission flow: every task is being moved along (`TasksServed`), `/new` separates, a stopped run completes nothing | 3 messages one by one, storage faults |
| `task_progress` | turns finish, pauses and cancels take effect, tasks progress | 3 messages one by one, weak fairness |
| `permissions` | tools within their grants, commands that count once, answers made under one revision | 4 messages, 1 request for a folder to write, for a session or once, 2 tools (bash, http), 2 conversations, redelivery, 1 restart, 1 failing transaction |
| `provider_accounts` | nobody runs on an account that is replaced, requests keep their account, ends of logins are final, nobody waits for ever | 1 request with 2 attempts, 2 logins, 2 providers, 2 accounts, 1 change of the selection, 1 restart, faults |
| `artifacts` | promised files are readable, none leaks, images go out as reviewed | 3 images, 2 tasks of 2 revisions, 1 document, 2 images per reply, quota 2, 1 lapse, 1 restart, 1 fault |
| `outbox_delivery` | turn status, uploads, settled parts, progress; refinement of `DeliveryOrder` | 1 reply of up to 2 parts, 2 overlapping processes with credentials of their own, 2 starts, 2 attempts, faults |
| `memory_jobs` | row, detail file and overview agree; nothing is lost, repeated or overwritten | 2 sessions of 1 user, 2 overlapping processes, 1 hand edit; symmetric |
| `memory_progress` | refinement of `MemoryLedger`; every ended session is dealt with | 2 sessions of 1 user, 2 processes one after the other, 1 hand edit |

Why the bounds suffice. Three messages allow an input, a control on it and one more input or
control at every stage of the run, and in `task_control` a batch of two any ordered pair of them
(`task_session` has batches of one, since its larger batches exceed what TLC can do in minutes;
the theorems on its properties have batches of any size). `MaxTurns`,
`MaxTasks` and `MaxSessions` are chosen so that they never stop an action before `MaxMessages`
does. The limit is 2 in place of `INITIAL_REACT_LIMIT` (30), which is enough for a run to
continue once and then to exhaust it. Four messages let a text be worked on while a
confirmation, its revocation and a `/new` come in, and two tools are enough for a one-use grant
to be wanted twice; a reset is left to the theorems, since with one request it does what the
revocation does. One request against two logins has the request hold the gate, wait at it,
and come back with its binding; two logins can follow or wait for each other, and the second
provider is where a selection goes. Two images fill a reply and the quota, and a third is
refused by either; one day or week passes, and one restart cleans up after it. One reply with
two parts is enough for order within a reply; replies do not influence each other's rows. Two processes
show every race of a stalled one with its successor, and a restart in the progress run. Two
sessions of one user show order, and jobs of different users share nothing but the worker; one
hand edit can fall before, between and after any two steps of a merge. The theorems of
section 4 do not depend on any of these bounds.

Deadlock is not checked: when the messages and restarts of an instance are used up nothing
has to happen any more. The liveness properties check instead that what was begun ends.

Fairness. `WF(Ingest)`: the batch's segment is synchronous and runs on. `WF(Work)`: the worker
loop claims again after every turn (`turn-worker-loop.ts`), and the awaits of a run end, since
engine and reviewer have time limits and obey the abort signal. In `OutboxDelivery` the same
for `Deliver` and `Claim` of every process and for `RetryDue`. In `ProviderAccounts` promises
resolve (`Resume`, `Bind`), requests end (`Finish`), and so does what a login waits for
(`LoginStep`). Messages, controls, choices, restarts, crashes and lease expiry are never
assumed to happen. `RepliesEnd` is about behaviours in which from some point on a process
keeps running.

`JobsEnd` needs more: `SF` of each stage of `execute`, that is, a model call, file write or
commit that is made again and again succeeds some day. The code retries without a limit and
cannot do better; a job that fails for ever keeps the user's later sessions waiting. In
`memory_progress` (`Faults = FALSE`) an attended lease does not run out, since the heartbeat
renews it every 10 s of its 60.

### Disagreements

Three runs end in a violation: a document says one thing and the code does another.

| Run | Property | What happens |
|---|---|---|
| `revoked_continuation` | `QueuedHasTurn` | a permission is revoked between its confirmation and the claim of the continuation: the continuation is answered, its task stays `QUEUED` with no turn, and `/task resume` does not help (`run-next-turn.ts:159`) |
| `outbox_restart` | `RepliesResume` | crash and restart within the 60 s lease: the part stays `SENDING` as long as the new process runs (`sqlite-control-plane.ts:515`) |
| `uncertain_commit` | `UncertainIsolated` | a commit of credentials throws: the gate is unblocked before the provider is quarantined, and a request that waits runs on the account in doubt (`provider-request-gate.ts:24`) |

Others are known from the code and have no run of their own:

- Text after `/task cancel` in one batch is bound to the task before the control is applied, and
  is cancelled with it (`ingest-message.ts:29`).
- Text after `/new` in one batch can be claimed first, in the old conversation, since turns of a
  batch are ordered by their hashed ids (`sqlite-control-plane.ts:205`). `NewSeparates` is
  therefore about what comes in later batches than the `/new`.
- When an outdated turn of a paused task fails, `turnFailed` writes `QUEUED`
  (`sqlite-task-store.ts:183`). `PausedStays` is checked, and proved, for storage that does not fail.
  If the turn of the newest input has ended by then (it failed first, since a turn moved by `/new`
  is bound to a task only when it is claimed, or two of a batch were claimed in the other order),
  the task stays `QUEUED` with no turn. `TasksServed` says that this and `revoked_continuation` are
  the only ways in which a task is left behind (`Stranded`).
- `ALLOWED` in `modules/turns/domain/turn.ts` has no step from `RUNNING` to `SUCCEEDED`, which
  `completeTurn` takes when there is nothing to send (`sqlite-control-plane.ts:308`); the SQLite
  adapter does not ask the table.
- A resume that arrives while its task is still `PAUSING` is acknowledged and lost
  (`sqlite-task-store.ts:161`).

## 4. Theorems

All theorems hold for every value of the constants that satisfies the assumptions named in the
module of the component. Every safety property of a passing run is proved; what is left to TLC is
listed at the end. Three safety properties more are stated with the proofs and belong to no run
(`SleepersAwaited`, `RepeatsBounded`, `EntriesInOrder`); TLC agrees with each on small instances.
Each proof module has an inductive invariant, because none of the properties is inductive alone;
each was first checked with TLC on the runs' instances. A proof has a lemma
per action, and under it a step per part of the invariant the action can disturb. Actions that
disturb little share a lemma about what they have in common (`Quiet`, `Calm`, `Outside`).

**Tasks** (`TaskExecutionProofs`): `TypeCorrect`, `OneTask` (`OneOpenTask`), `Driven`
(`ActiveHasDriver`), all from `Invariance`. That an active task is being driven needs that the
worker's turn is a row with a task whenever it is in a run (`WorkerOK`), that rows refer to
existing tasks and conversations and unused rows are blank (`QueueOK`), that the batch's
registers lie within the table (`BatchOK`), and that the request refers to a turn (`RequestOK`).
That only one task is open needs that `attach` creates one only when the live conversation has
none and that the end of a conversation closes all it has. TLC does not combine restarts with
`/new`; these two theorems do.

**What tasks promise** (`TaskPromisesProofs`, on top): `AnswersNewest` (`AnsweredNewestInput`),
`WithinBudget` (`BudgetHonoured`), `StopsCount` (`StoppedNeverCompletes`), `PublishesOnlyCurrent`
(`PublishedIsCurrent`), `StaysPaused` (`PausedStays`, without storage faults), `LivesByTheTable`
(`RefinesLifecycle`) and `Separates` (`NewSeparates`). `PInv` adds the stage of
the task that belongs to the worker's stage (`RunOK`), what a decision on its way to
`completeTurn` says of its task (`DecisionOK`), and the ledger: calls within the limit, the limit
within what the budget messages with a receipt granted (`LimitOK`). From these follows that
`completeTurn` never meets an illegal transition, so that `TurnFails` needs a fault of storage;
this is the heart of the simulation of `TaskLifecycle`. `NewSeparates` has an invariant of its own
(`SInv`): rows are numbered in the order of their arrival (`OrderOK`), and a `/new` of the live
conversation is still queued and has no task (`NewOK`); so what comes in a later batch waits
behind it, and the `/new` moves it to the next conversation.

`Served` (`TasksServed`) is the safety core of `TasksProgress`: it rules out, for every value of the
constants, that a task is queued and no turn is left to take it up, but for the two exceptions.
Its invariant (`Service`) says which turn takes it up: a queued task has a turn of its newest
revision that is queued or just claimed, or is one of the two exceptions (`QueuedOK`); a task at
work has its newest input with the worker, whose decision is about it, or still in the queue, so
that an outdated run may hand the task back (`NewerOK`); turns of other kinds are about no task
(`PlainOK`); and the continuation of a permission lies in the conversation that asked for it, and
its request was approved and can only be taken back, so that nothing but a revocation makes it
answer without its task (`ContinuationOK`).

**Permissions** (`PermissionGrantsProofs`): `GrantsTyped`, `WithinGrants` (`ToolsWithinGrants`),
`CountedOnce` (`CommandsCountOnce`), `OneRevision` (`ReplyUnderOneRevision`). `GrantOK`: what may
still be granted asks for something, and what was served once is spent for good. `RunOK`: the
snapshot of a run is never ahead of the table, behind it if a tool has seen another revision,
which none has once the images are read; without an abort it equals the table from there to the
end of the review. `CountOK`: nothing counts without a receipt.

**Accounts** (`ProviderAccountsProofs`): `AccountTypes`, `Drained` (`DrainedBeforeCommit`),
`KeepsAccount` (`AccountKept`), `EndStays` (`EndIsFinal`). One login at most blocks a provider
(`BlockOK`); a row in `COMMITTING` has a login at its commit or a quarantined provider (`RowOK`). The
crux is `BindOK`: a binding of the current revision has the account in the file, or a row still
in `COMMITTING` journalled what the file holds, which is what recovery goes by.
`NobodyForgotten` (`SleepersAwaited`, stated with the proofs) is the safety core of `WaitersProceed`:
a request that sleeps at the gate, or a login that joins it, sleeps for the one login that has the
provider, that login sleeps only for a request that was admitted, and an admitted request sleeps for
nobody. So waits form no cycle, and no wakeup is lost on any path of cancellation, timeout
or failure. It needs that only requests that were admitted are counted (`HoldersOK`), that a block
belongs to a login that will lift it (`BlockersOK`), and that a login that still waits for its method to
be chosen has not begun (`LocalOK`). That sleepers do proceed also needs fairness and stays
with TLC.

**Artifacts** (`ArtifactsProofs`): `ArtifactTypes`, `Promised` (`PromisedIsReadable`),
`NothingLeaks` (`NoLeak`), `ImagesAsReviewed` (`SentAsReviewed`). `WorkOK` says how far the image
in hand is; `HomeOK` that an image with a row belongs to a task there is and that a revision
has no more images chosen than a reply takes. A task that is over stays over, so an image whose
protection ended is not wanted again.

**Delivery** (`OutboxDeliveryProofs`): `DeliveryTypes`, `TurnsTell` (`TurnTellsParts`),
`UploadsMatch` (`UploadMatches`), `NeverResent` (`SettledNotResent`), `DeliveredInOrder` (`InOrder`,
the simulation of `DeliveryOrder`). `PrefixOK`: what was ever claimed has only confirmed parts
before it; `ReachedOK`: a part that reached the user and is not settled is the latest of its reply.
`RarelyRepeated` (`RepeatsBounded`, stated with the proofs) says what at-least-once delivery costs: a part
reaches the user at most once in a try, and is tried at most `MaxAttempts` times and once more per
restart that found it in flight. The restarts count because `recoverInterrupted` makes a `SENDING`
row whose lease is over due again whatever its `attempts`; only a failure compares them with the
limit. `TryOK`: a number of a try belongs to one process, also when an older one wakes up late, and
one that has not sent has not delivered; `LeftOK`: what may still be claimed has a try left.

**Memory** (`MemoryJobsProofs`): `MemoryTypes`, `RowMatchesFile` (`DetailMatches`), `Frozen`
(`DetailFrozen`), `NothingLost` (`OverviewOnlyGrows`). `WorkOK`: a process that is about to publish
a detail and still is its row's worker finds the row `PENDING`, and the detail it holds says of
merging what it will note in the row. A row changes its phase only through its own worker, and
a claim by another process, or recovery, changes the worker. `NothingLost` follows from types and
the comparison of revisions, whoever holds the lease.

**What memory keeps** (`MemoryRecordsProofs`, on top): `AllRemembered` (`NothingForgotten`),
`RecordedOnce` (`MergedOnce`). A job that was claimed or is `EXTRACTED` waits for no older one of
its user (`TurnOK`), so no two jobs of a user are `EXTRACTED` at a time, and whatever was
recorded of the one that is is still the latest entry unless the user has edited (`RecordedOK`):
that is why a marker that remembers a single session is enough. `RecordedInOrder`
(`RecordsInOrder`) is the simulation of `MemoryLedger`, where a session that is entered is its
user's oldest unsettled one by `TurnOK` and not already the latest entry by `RecordedOK`; the run
shows it for processes one after the other, the theorem for any that overlap. `ToldInOrder`
(`EntriesInOrder`, stated with the proofs) uses that refinement: it is proved of the steps of the
ledger, and so holds of the code's. The sessions in an overview stand in the order they ended, even
when one is entered again after the user has edited it, because what the user ended before the
latest entry is settled (`BookOK`).

Model-checked only: the liveness properties `TurnsFinish`, `HaltsFinish`, `TasksProgress`,
`RepliesEnd`, `JobsEnd`, `WaitersProceed`, since the proof system covers neither fairness nor
`ENABLED`; and the properties of the runs that end in a violation.

## 5. Not modelled

- The value of the cursor, the backoff of the poll loop and the sender policy: a batch that
  comes again is dropped as a whole, which `PermissionGrants` models as redelivery.
- A second process that overlaps at the turn worker after a lost lock
  (`sqlite-control-plane.ts:288`): `TaskExecution` has one process at a time; the overlap is
  modelled where leases guard against it, in `OutboxDelivery` and `MemoryJobs`.
- Tool processes that outlive a killed service (`local-sandbox-executor.ts:9`), sandbox profiles
  and the supervisor: operating system.
- Uploads to model providers and the tools that list and read files.
- HTTP, encryption and login of the channel, the agent library inside a prompt.
- Prompts, texts, traces, metrics, admin pages, configuration, migrations, skills: data or
  read-only views.

## 6. Plan

All modules of the original plan exist. Should the work be continued:

1. The overlap of two processes at the turn worker, as a second incarnation in `TaskExecution`.
2. The upload of user files to a model provider, with its own retries and expiry.
