# A TLA+ model of janus

janus is a CI system of two programs. `janus-server` keeps repositories,
workflows and pipeline runs in SQLite and has a scheduler that drives the jobs of
a pipeline. `janus-runner` runs on worker hosts and executes predefined scripts on
request. This directory holds a model of the parts that decide what runs, how
often and what is reported about it, the TLC configurations that check it, and
proofs that TLAPS checks.

## 1. Inventory

| Component | State | Operations | Talks to | Hard parts | What makes it correct |
|---|---|---|---|---|---|
| Runner job store (`jobs/store.rs`) | job directories with `metadata.json`; `running_jobs`, `shutting_down`, `create_lock` in memory | `create_job`, `cancel_job`, `recover_interrupted_jobs`, `begin_shutdown`, `wait_for_drain` | HTTP handlers call it on several threads; it spawns `run_job` tasks; files are shared with them | retried and racing requests, crash between two files, read-modify-write of `metadata.json` without a lock | a key is executed at most once and bound to one request as long as its record can be read; exclusive jobs exclude; statuses end |
| Runner job execution (`jobs/execution.rs`) | one task and one process group per job | `execute_process`, `terminate_job`, `finish_job` | the store's registry and files, a watch channel for cancellation | timeout, cancel, log limit and exit race; children of the script; persist fails | no script outside the registry; entries are released |
| Runner start and shutdown (`main.rs`) | the shutdown future | start with recovery, signal, drain, exit | the store | requests in flight during shutdown | nothing accepted is lost |
| State machine (`state_machine.rs`) | none | `next_ready_job_status`, `terminal_pipeline_status` | scheduler, `finalize_pipeline_status` | combinations of statuses | every final combination ends the pipeline |
| Scheduler (`scheduler.rs`) | lists of rows read at the start of a phase | recover, push events, dispatch, poll; `cancel_pipeline` from the web | SQLite; HTTP calls of runners | stale rows across awaits, lost replies, retries, crash between two updates, `?` ending a tick | success is real; budgets hold; attempts do not overlap; jobs and pipelines end |
| Run tables (`db.rs`) | `job_runs`, `pipeline_runs` | the updates of status, key, counters, timestamps | all of the server | unconditional updates by two writers | as above |
| Push events and enqueue (`control.rs`, `git.rs`, `scheduler.rs`) | `push_events`, new runs | `post_receive`, `process_push_events`, enqueue | git hooks, scheduler | at-least-once, partial inserts, equal event keys | a push runs each matching workflow once |
| Server artifacts (`artifacts.rs`, `db.rs`) | files and `server_artifacts` | store, upsert, select | scheduler, run pages | upsert returns the id of no row; the archive of a failed git stays | a job gets the bytes its predecessor is recorded with |
| Runner artifacts (`artifacts.rs`) | directories with blob and metadata | upload, read, cleanup, recovery | jobs that use them | cleanup against use, expiry | an artifact whose id was given out is whole until it expires, an expired one is removed |
| Atomic write (`storage.rs`) | files | open, write, rename | job store, artifacts | shared temporary name | readers see whole files where there is one writer |
| Authentication (`auth.rs`, `runner_auth.rs`) | seen nonces; keys on both sides | sign, verify, rotate | every request to a runner | retention against timestamp window; rotation in four steps on two machines | a request is accepted once; a rotation refuses nothing |
| Rate limiter (`rate_limit.rs`) | windows by scope and key entry | check | handlers | window boundary | at most limit per window |
| Runner health (`scheduler.rs`) | state and advertised jobs of each runner | refresh, register, change, switch, test | runners, web | answers that arrive after the row has changed | the tables come to say what is true, and what they say comes from the runner's own URL |
| Workflow schemas (`schema_diff.rs`, `web/routes.rs`) | schemas saved with each version | validate, save, compare | enqueue, web | the catalogue changes while it is read | a workflow that is not called incompatible would be accepted as it is |
| Repositories, users, sessions (`app.rs`, `auth.rs`, `git.rs`) | rows, bare repositories, hooks | create with rollback, reconcile-hooks, bootstrap-admin, log in and out | web, command line | directory, row and hook in separate steps | a repository is whole, gone or repairable |
| Web interface (`web/`) | none of its own | requests, pages | everything | - | - |
| Manifests, configuration | files read at start | parse, validate | - | - | - |

The dangerous places, each at its line, are the `hazards` of `PROJECT.json`.

## 2. Modules

| Module | What it is | Uses |
|---|---|---|
| `RunnerJobs` | the job store, its tasks and the runner's life cycle | |
| `IdempotentExecutor` | what the runner promises: a key is bound once and executed at most once, until its record is lost | |
| `StateMachine` | the two pure functions of `state_machine.rs` | |
| `Scheduler` | the reconcile loop, the run tables, cancel requests, runs on the runners, crashes of both | `StateMachine` |
| `Intake` | pushes, workflow versions, enqueueing by the loop and by requests | `StateMachine` |
| `Artifacts` | a runner's artifact store, its expiry loop, the server's copies, the transfer between two jobs | |
| `WorkflowSchema` | validation of a workflow and comparison of schemas, as operators | |
| `Catalog` | the health loop, changes of runners, saving of workflows | `WorkflowSchema` |
| `RequestGate` | signed requests, key rotation, nonces, rate windows | |
| `Accounts` | bootstrap, login, provisioning and repair of repositories | |
| `RunnerJobsProofs`, `WorkflowSchemaProofs`, `SchedulerProofs`, `IntakeProofs`, `ArtifactsProofs`, `RequestGateProofs`, `AccountsProofs` | theorems | the modules they are named for |
| `CatalogProofs` | theorems | `Catalog`, `WorkflowSchemaProofs` |
| `MC...` | instances for TLC | the modules they are named for |

How they fit. `RunnerJobs` is shown to implement `IdempotentExecutor`, and
`Scheduler` sees a runner as the few states that promise leaves visible (section 4).
`Intake` produces what `Scheduler` starts with: rows inserted one by one, and it has
the loop's dispatch and poll phases as far as they read these rows. `Artifacts`
fills in what `Scheduler` abstracts as "inputs" and "outputs" of a job. `Catalog`
produces what `Intake` calls the report of a version (`schema`), by the operators of
`WorkflowSchema`. `RequestGate` is below every call of a runner: a refused or lost
request is one of the failures that the modules above it let happen at any call.

## 3. `RunnerJobs` and the code

An idempotency key stands for the job (`job_id` is a hash of it), a request is the
pair of name and body (`hash_request`).

| Variable | Code |
|---|---|
| `up` | the process is alive; requests are served after recovery |
| `dirs`, `meta` | job directories and their `metadata.json`: a record (status, request, failure category), an empty file or a text that does not parse |
| `tmp`, `handle` | `.metadata.json.tmp` of each job; where each writer of a job's record is with its write |
| `running_jobs`, `cancel_tx` | the registry and the watch channel in each entry |
| `exec` | the `run_job` task: where it stands, its copy of the request, the outcome |
| `group` | live processes of the job's process group: the script (`leader`), a background `child`, or a script whose runner is gone (`orphan`) |
| `creator`, `canceler` | handlers in `create_job` and `cancel_job` |
| `shutdown` | the shutdown future; `shutting_down` is "not off" |
| `spawned`, `accepted`, `overlapped`, `lost` | history only: scripts started, requests accepted, keys whose record had two writers at once, keys whose unreadable record recovery removed |

A step is what happens between two points where somebody else can act: a lock, an
await, a file access. So `create_job` is `CreateCheck` (the flag, before the lock),
then under `create_lock` one of `CreateInvalid`, `CreateExisting`, `CreateConflict`
or `CreateInsert`, `CreateDir`, `CreatePersist`, with `CreateSetupFails` for an I/O
error. `transition_metadata_status` is a read and a write because nothing guards
`metadata.json`, and the write itself is three steps (`atomic_write`): `Open` creates the
temporary file, or truncates it under whoever has it open; `Fill` writes to the file
that was opened, whatever its name is by now, and where a longer text was written
before a shorter one the rest of it stays (`Overlay`); `Publish` renames what the temporary file
holds by then, or fails since another writer has renamed it. The writers of a record are
the handlers of `cancel_job` (`CancelRead`, `CancelOpen`, `CancelFill`, `CancelPublish`),
`begin_shutdown` (`ShutdownRead`, `ShutdownOpen`, `ShutdownFill`, `ShutdownSignal`) and the job's own
task, which stores `canceling` (`MarkOpen`, `MarkFill`, `MarkPublish`) and the final status
(`FinishOpen`, `FinishFill`, `FinishPublish`). A cancel request ends when its write fails; the
others ignore it. `execute_process` leaves its loop by `TimedOut`, `ObserveCancel`,
`LogLimit`, `Reap` or `WaitError`; the first three go on to `Terminate`. A script that
exits leads to `drain`, which lasts until every process that holds the pipes is
gone. `finish_job` ends with `FinishRemove`, also when its write has failed
(`FinishPersistFails` for errors other than a file renamed by somebody else). `Exit` and
`Crash` lose all memory; `Start` is `recover_interrupted_jobs`, which removes the
directory of a record that does not parse (`lost`).

Left out: log contents, work directories, timestamps, redaction, the text of
errors, reads that change nothing. The first write of a record, in `create_job`, is one
step: nobody else writes before there is a record to read. Reading a file is one step.
How long two texts are is left open: the one written last over another in the same file
either covers it or leaves the end of it, and then the file does not parse.
`wait_for_drain` may end at any time, which covers its timeout.

## 4. `Scheduler` and the code

| Variable | Code |
|---|---|
| `row` | `job_runs`: status, `runner_run_id`, `infra_retry_count`, `cancel_retry_count`, and which cancel timestamps are set |
| `pipeline` | `pipeline_runs.status` |
| `late` | rows whose cancel timestamp is older than `cancel_stuck_timeout_seconds` |
| `pc`, `psnap`, `snap`, `cur`, `seen` | where the loop is, the rows it listed and still has to do, the row at hand, the runner's last answer |
| `canceler` | `cancel_pipeline` requests, each made once, with the rows it listed |
| `run` | runs on the runners, by dispatch key |
| `orphans` | dispatch keys whose script goes on after its runner crashed |
| `faults` | how many faults have happened |

The dispatch key is not stored: only `requeue_job_run_for_infra_retry` makes a new
one and it counts `infra_retry_count` in the same statement, so attempt `n` of job
`j` has key `<<j, n>>`. A method of `db.rs` holds the connection's mutex and is one
step. Each call of a runner is an await: the state it was based on (`snap`) is old
when the answer is used, and updates apply to the row as it is by then. An error
propagated by `?` is `Abort`: the rest of the tick is skipped. Rows are listed
without ORDER BY, so phases take them in any order; `cancel_pipeline` lists by
`job_index`, so it takes the first.

`run` is what `RunnerJobs` leaves visible: a key is bound once; a cancellation that
looked the job up before it ended may overwrite a final status with
`cancel_requested` (`CancelRun`); a restart fails or cancels what was not over
(`Recovered`), though not its script, which goes on (`orphans`) unless the host went down with
the runner, until it ends by itself (`OrphanEnds`). `out` records how a run ended for its runner. `CreateConflict` is the
runner's refusal of a bound key with another request: it happens for jobs with an
artifact input, since each attempt uploads the input again under a new id.

A crash of the server leaves the loop at `down` and forgets everything it had in
memory; `Restart` begins again with the first tick, so pipelines are recovered by the
same `requires_recovery` as always. Runs on the runners go on meanwhile.

Left out of this module: `process_push_events` (see `Intake`; it can end a tick
early, which `CreateFails` also does), the branches for a runner, pipeline or definition that
is not in the database (rows of these tables are not deleted while runs exist),
the values of inputs and outputs.

## 5. The other modules and the code

In all of them a method of `db.rs` is one step (it holds the connection's mutex and
runs one transaction), a file operation is one step, and another task, a handler on
another thread or a crash may come between any two. Names of actions are those of
the functions where a function is one step.

### `Intake`

| Variable | Code |
|---|---|
| `event`, `received` | `push_events`: status by event key; the keys that are not processed yet, in the order of `received_at`, which is what `list_unprocessed_push_events` reads |
| `versions`, `schema` | `workflow_versions`; what `workflow_schema_report` says of each now |
| `pipeline` | `pipeline_runs` with their `job_runs`; `prev` is a row of `job_run_previous`, `sel` the recorded artifact selection |
| `skipped` | the lines the log has of incompatible workflows |
| `pc`, `events`, `runs`, `snap` | the tick: events listed, pipelines still to make for the first, jobs listed |
| `enq` | where each task stands in `enqueue_workflow_run_with_artifacts` |

A push is its event key, so a push that repeats another (same refs, same revisions)
is the same push: `create_push_event` is INSERT OR IGNORE. `ReadWorkflows` is the
list of workflows and branch matches; `EnqueueReport`, `create_pipeline_run`,
`add_workflow_run_artifact_selections`, `create_job_run`, `add_previous_job` are the calls
of one enqueue, by the loop or by a caller. `EnqueueFails` is an error of any of them
(the caller answers with it, the tick ends with it), `DispatchAborts` an error while a
job is prepared: the first job needs a selection or the last one an output that is
not recorded. `PollEnded` lets a job end in any way. Every job is required;
the rest of dispatch and poll is in `Scheduler`. The constants are assumed to be what the
database and the requests can hold (`DefinitionsAssumption`, `PromotedIsManual`), with
"current" among the reports (`ReportsAssumption`: a version that has just been saved has
it) and the loop none of the callers (`TasksAssumption`).

### `Artifacts`

| Variable | Code |
|---|---|
| `disk` | artifact directories of runner A: temporary files, `blob`, the digest in `metadata.json` |
| `writer` | `store_bytes` in progress, for an output of the job and for an upload |
| `cleaner` | the pass of `run_artifact_cleanup_loop` |
| `script` | the first job on A: attempt, state, ids of its registered outputs |
| `pc`, `held`, `todo`, `persisted` | the server's loop between two calls, outputs still to copy |
| `archive`, `server_artifacts` | the source archive's file; rows with their files |
| `job`, `second`, `input`, `got` | the first job's row; the second job, the blob it was given, what it read |
| `kept`, `copies`, `residue` | history for the properties |

`atomic_write` is `WriteTemp` and `Rename`; a crash between them leaves the temporary
file. `StoreFails` is an error at any of its steps, `recover_incomplete_artifacts` is what
start does before requests are served. The expiry loop lists, and then looks at and
removes one directory at a time; removing is two steps, so others see half of it.
The server's loop uploads the source (`UploadBegins`, `UploadAnswered`, and the ways
in which an upload fails or its answer is lost), starts the first job, polls it,
downloads each output and registers it (`OutputMirrored`: `insert_server_artifact`, an
upsert that keeps the old row and returns the new id). `RetryOrFail` is the budget of
`max_infra_retries`. The second job is on A (`SecondOnSameRunner`, then `SecondReads`)
or elsewhere (`ensure_runner_has_artifact`).

### `WorkflowSchema` and `Catalog`

Kinds, literals and bindings are small sets: a literal is one of six classes, which
is all `value_matches` tells apart; `short` is a length limit that a long text
exceeds. A binding to an output without a name is read as no binding (`models.rs:285`), so it
passes every check but that of a required input; one draft of the run has it. `Accepted` and `LiteralsFit` are `validate_workflow_runners` and what it calls;
`Diffs` and `Report` are `schema_diff.rs` with `workflow_schema_report`.

`Catalog` has `runner`, `runner_jobs` and `version` for the tables, `process` for what
really runs at each URL, `task` for the health loop and requests about runners,
`editor` for saves. A refresh is `capabilities`, `list`, `replace` and `health`: two
calls of the runner, two transactions, with the URL that was read at its begin. A
call of a runner reads `process` when the answer is made. `Restarts` and `Fails` are
external: what processes do. `create_runner`, `update_runner`, `ToggleReads` and
`ToggleWrites`, `test_runner` are the requests of administrators. `ReadSchema` reads one
job's schema, `CheckPasses` validates, `Save` stores what was read. A draft whose save
is refused changes nothing (`SaveRefused`).

`source`, `moved` and `overtaken` are history for `KnownFromItsUrl`: the URL that gave the stored
jobs, how often the URL of a row was changed, and the runners with an answer that was
stored after such a change. A row is remembered as read together with `moved`, since a
URL may be changed away and back during one refresh: a comparison of URLs alone would
not see it, and the answers of two refreshes may then be stored the wrong way round.
`DraftsAssumption` says that a draft is a sequence of jobs and that `Runners` has every runner
one may name.

### `RequestGate`

Time is the runner's clock in ticks. `sign` is the server: a timestamp in whole
seconds of its own clock, which is `ahead` by a constant. A delivery (`Deliver`) may
happen at any time and any number of times; `Outcome` has the checks in the code's
order: key, timestamp, nonce, permission, rate. It is one step, since nothing is
waited for between them and the mutexes are held one after the other within a tick; the
change of each table by each outcome is `Accepts`, `Limits`, `Forbids`, `Repeated`,
`Rejects`. Pruning of nonces and of windows is part of every call, as in the code.
The rotation is the documented one: `rotate_runner_key`, `AddKey`, `RunnerRestart`,
`ServerRestart`, `RemoveKey`; the guards on the operator's steps (add before the server
restarts, remove when no request of the old key can be fresh) are the order that the
README of the runner describes, and the only thing taken from a document.
A window is counted for a scope and the name of the key's `auth.servers` entry (`CounterOf`,
`NameOf`; `rate_limit.rs:38`), so a server has two windows of each scope while it changes its key.
Signatures and digests are external: they do their work.

### `Accounts`

`boot` is `bootstrap-admin` (count, then create), `login` and `session` a login (delete
the old sessions, or ignore that this fails, `DeleteSessionsFails`; then create one), `req`, `row`, `dir`, `audited` the creation of a
repository: `init_bare_repo`, `create_repo`, `get_repo`, `install_post_receive_hook`,
`record_audit_event`, and the rollback `delete_repo`, `cleanup_bare_repo`, whose failure is
only logged (`CleanupFails`) and may leave all of the directory or a part. `recon` is
`reconcile-hooks`, a process of its own that lists rows and writes hooks one by one.
`used` are rows that a workflow refers to, so that they cannot be deleted. A crash
ends every request of the server where it stands. `beside`, `spared`, `kept` and `littered` are
history: which logins and bootstraps were under way at the same time (they have different
names, `AccountsActors`), which sessions a login failed to delete, which rows and directories
could not be removed.

## 6. Runs

All passing runs are exhaustive for their instance.

| Run | Instance | Checks |
|---|---|---|
| `runner_safety` | 2 keys, a manifest of each mode, 2 create handlers, 4 kinds of faults: crash, failing set-up, wait, last write | `TypeOK`, `AtMostOneExecution`, `RegistryExclusive` |
| `runner_cancel` | 1 key, 2 bodies, a cancel handler, a shutdown and the task as writers of one record, 6 kinds of faults, fairness | `AcceptedIsDurable`, `RegistryIsComplete`, `TerminalChange`, `ImplementsExecutor`, `EventuallyReleased`, `TerminalUnlessOverwritten` |
| `runner_poll` | 1 key, 1 cancel request | `EventuallyTerminal` is violated |
| `scheduler_safety` | 2 consecutive jobs, the second with an artifact input, 1 cancel request, any 2 of 8 faults (all but failed transfers) | `TypeOK`, `RetryBudgets`, `SuccessIsReal`, `NoOverlap`, `PipelineSuccessIsReal` |
| `scheduler_live` | 3 jobs in 2 pipelines, any 2 of 9 faults, crashes of the server among them, fairness | `JobsEnd`, `PipelinesEnd` |
| `scheduler_allowed` | 1 job that is allowed to fail | `PipelinesEnd` is violated |
| `intake` | 1 push, 2 workflows (a push one of two jobs, a manual one with a promoted artifact), 1 caller, 1 change, 1 fault, fairness | `IntakeTypeOK`, `PushesDelivered`, `InsertedInOrder`, `PushesProcessed`, `EnqueuedJobsEnd` |
| `artifacts` | 2 outputs of which the second job needs the first, 1 retry, 1 expiry, 1 fault of 5 kinds, fairness | `ArtifactsTypeOK`, `DirectoriesSound`, `KeptUntilExpired`, `SecondGetsRecorded`, `ExpiredIsRemoved`, `SecondStarts` |
| `artifacts_source` | 1 output, 1 retry, a git that fails | `SourceIsWhole` is violated |
| `catalog` | 2 runners, 2 URLs, 3 manifests, the loop, an administrator and an editor, 1 change of a row and 1 of a process, fairness | `CatalogTypeOK`, `SnapshotsAccepted`, `ReportIsSound`, `KnownFromItsUrl`, `HealthConverges` |
| `gate` | 4 requests and an upload, 2 keys with an entry each, 5 ticks, a tolerance of 1 second of 2 ticks, a window of 2 ticks, limit 2, 1 restart | `GateTypeOK`, `AcceptedOnce`, `LimiterCounts`, `RotationIsSeamless` |
| `accounts` | 2 of each request, 2 names, 2 errors, 1 crash | `AccountsTypeOK`, `ProvisioningIsSound`, `HooksRestored`, `OnlyOverlapping` |

Several of these are conjunctions of named parts, each with a comment of its own in
the module: `RegistryIsComplete` (`RunningIsRegistered`, `LeaderIsRegistered`),
`NoOverlap` (`OneLiveAttempt`, `Sequential`), `PushesDelivered` (`OncePerPush`,
`NoPushLost`), `InsertedInOrder` (`PushOrder`, `PushSuccessIsWhole`, `SelectionsFirst`),
`DirectoriesSound` (`NothingTorn`, `NoResidue`), `LimiterCounts` (`BurstBounded`,
`LimitedWhenFull`), `ProvisioningIsSound` (`OkIsWhole`, `NothingLeftBehind`,
`RowHasRepository`), `OnlyOverlapping` (`OneSession`, `OneBootstrap`).

Bounds. Two keys are enough for a conflict between jobs and for a retry beside
another job; two create handlers for every race on one key, because the third
waits for the lock like the second; a cancel handler, a shutdown and the task are three
writers of one record, one more than it takes to tear it, and `cancel_job` never touches
another job's files, so one key is enough there. In `runner_safety` nobody but the tasks
writes a record, so that two keys can be explored; with a canceler or a shutdown (a fault,
`"shutdown"`) what may become of records is the matter of `runner_cancel`, where the refinement
says more of a key than `AtMostOneExecution`.
A fault is an event of the environment, counted by `faults` and bounded by `MaxFaults`;
the retry budgets are 1, which has both outcomes of each. Two jobs are a
pair of consecutive ones, three make two pipelines share a tick, which is where an
aborted tick of one harms the other. In `intake` one push is reported by its hook
again and again, one fault can hit any call of an enqueue, and a caller's pipeline is
inserted beside the loop's; a second push would only be behind the first in the
order of `received_at`. In `artifacts` two attempts make two artifacts of one output, so
the wrong one can be taken; each kind of fault can happen at each step. In `catalog` one
change of a row meets a refresh at any of its four steps, and the save of two jobs
meets one change of what they advertise between its reads. In `gate` the clock goes
on until a nonce is forgotten (4 ticks) and a tick more; everything the gate does is about
differences of times. Four requests are twice the limit, or fill the windows of both keys;
the upload is what neither key may do. Server and runner have the same clock there; other
clocks are in the theorem. `accounts` has two of everything that can race with its like, and two
errors are enough for a step that fails and the step that should undo it.

Fairness. Tokio polls every task that can go on, so each handler, each `run_job`
task, the shutdown future, the reconcile loop, the health loop and the expiry loop
are weakly fair; HTTP calls have a timeout, so they return. A stopped runner or server
is started by its supervisor. Processes of a job end some day: for scripts the timeout
sees to that, for a background child that holds the pipes nothing does, and
without it `EventuallyReleased` fails. In `Intake` a job that is polled again and again is
over some day (strong fairness of `PollEnded`, since polls of others and ticks that
end early come between). Clients, users, operators, expiry and faults get no fairness.
The conjunct `StopStep /\ shutting_down` does not force an operator to stop the runner.
`RequestGate` and `Accounts` have safety properties only and no fairness. Deadlock is not
checked in `Intake`, `Artifacts`, `RequestGate` and `Accounts`, where the bounds (requests,
ids, the clock) leave states in which nothing need happen any more.

### What the violations show

* `runner_poll`: a cancel request reads `metadata.json` (running), the job
  finishes and stores its result, the request writes back what it read with
  `cancel_requested`. The job's task is gone; the README tells clients to poll until
  a terminal status, which does not come before a restart.
* `scheduler_allowed`: no branch of `terminal_pipeline_status` covers a failed job
  that is allowed to fail; the pipeline is `running` when all is over.
* `artifacts_source`: `git archive -o` opens its file before it looks up the commit; when
  it fails, the empty file stays, the transfer error is retried, and the retry finds
  the file and takes it for the source archive.

### What the passing runs exclude, and why

The instances and properties leave out combinations for which they do not hold of
this code. They are recorded here, since each is a change of constants away:

* Two writers of one `metadata.json` share its temporary file (`storage.rs:16`), and neither a
  cancellation nor a shutdown waits for `finish_job`. Example: a cancel request has written its
  text, `finish_job` truncates the file, the cancel request renames the empty file. If the
  runner crashes there, recovery finds a record that does not parse and removes the job's
  directory (`store.rs:350`); the key is free, and a retry of the request runs the script a
  second time. The same may come of a longer text under a shorter one. The model has this, and
  the properties say what is left: `AtMostOneExecution` holds of keys not in `lost`,
  `AcceptedIsDurable` until a key is lost and, where no two writers overlapped, for good;
  `TerminalChange` admits an unreadable record where two overlapped; the abstract specification
  has a step in which a key is lost (`Lose`). Each of them is violated without its exception.
* `TerminalUnlessOverwritten` names the three accidents after which a job stays without a
  terminal status: the late writer of `runner_poll`; a final write that failed, or whose text
  another writer's took the place of; and a record that recovery removed.
* `Scheduler` takes it that a runner keeps the record of each run. A runner that has lost one answers
  404 to every poll, which `Scheduler` does not have beyond a poll that fails.
* A create request that passed the test of `shutting_down` before it waited for
  `create_lock` is admitted after `begin_shutdown` and is not signaled, although the
  runner's README (line 619) says that creation is rejected by then
  (`store.rs:82`). The model has it; no property is about it.
* `JobsEnd` with an artifact input: a lost reply, then a retry with the same key and
  a new artifact id: a conflict, on every tick (`scheduler.rs:839`; the test at
  `web/tests.rs:2291` expects the job to succeed).
* `JobsEnd` with a cancel request: the loop may requeue the job between the
  runner's answer and `mark_job_run_cancel_requested`, which leaves
  `cancel_requested` without a run; and a late cancellation of a run that has ended
  is refused on every tick, so its budget is never used up
  (`retry_stuck_cancellation` asks before it looks).
* `PipelinesEnd` with a cancel request: a pipeline with a succeeded and a canceled
  job stays `running`, and recovery may write back `running` over `canceled`. With a
  server crash (which the property excludes by `<>(pc = "down")`; `JobsEnd` does not):
  nothing finalizes a pipeline whose last job was stored just before.
* `NoOverlap` admits orphans. When a runner crashes, its scripts go on, recovery reports them as
  failed for an infrastructure reason (`store.rs:379`), and the server starts the next
  attempt, and the next job when that succeeds. Nothing in the code looks for such a script;
  `NoOverlap` says that of two scripts of a job, or of a required job and the one after it, that
  overlap, the older one is an orphan.
* `JobsEnd` has dispatches that fail a bounded number of times. A saved workflow in which an optional
  input is bound to an output without a name cannot be dispatched at all: its preparation
  fails in every tick (`scheduler.rs:734`), and no retry is counted.
* `NoOverlap` with a failed transfer after a lost reply: the new key starts a
  second run beside the first. With a failed output transfer: a job whose
  cancellation was recorded late may be run again while its successor runs.
* `RunningIsRegistered` without writes that fail in `finish_job`, which ignores them;
  `LeaderIsRegistered` without a failing `try_wait`, which leaves the script alive.
* After a crash of the runner its scripts go on: exclusivity is of the registry, not
  of the host. A background child that survives SIGTERM is left when the script
  itself ends in the grace period (`execution.rs:719`).
* Canceling a pipeline that is over rewrites its status (`scheduler.rs:216`); no
  document says otherwise.
* `InsertedInOrder` is about pipelines of the tick where it speaks of order and
  completeness: one requested from the web is dispatched while it is inserted, so
  its second job may start with its first, and it may be final before its last job
  is there. A crash after the first job's row leaves a shorter pipeline that may succeed:
  `PushSuccessIsWhole` and `EnqueuedJobsEnd` exclude faults.
* `SelectionsFirst` leaves out reruns: `rerun_pipeline` copies the selections it finds and
  validates nothing (`routes.rs:968`), so the rerun of a pipeline that was cut off, or is
  still being made, before its selections were stored has none. Its first job cannot be
  prepared, and every tick ends there (`scheduler.rs:705`).
* `NoOverlap` in a pipeline of three jobs: a late cancellation stores `canceled` for the first
  job, the second is blocked although its own run, whose create reply was lost, is
  alive, and `next_ready_job_status` takes a blocked job for passed, so the third starts
  beside the run of the second. The run has two jobs, and the theorem says so
  (`ShortPipelines`).
* Every manual trigger of HEAD makes the same event key: the second is taken for the
  first (`routes.rs:549`), like any push that repeats another.
* `SecondStarts` when an output was copied twice: the id that `insert_server_artifact`
  returned names no row, and every tick ends at the second job.
* `KnownFromItsUrl` leaves out runners whose URL changed during a refresh: the answer of
  the old URL is stored under the new one, until the next refresh.
* `ReportIsSound` leaves out limits on literals and the sources of promoted artifacts,
  which the comparison does not look at (`schema_diff.rs:209`).
* `AcceptedOnce` is about one life of the runner's process (`seen_nonces` is in
  memory) and a server whose clock is ahead by at most the tolerance less a second:
  beyond it a nonce is forgotten while its timestamp is still good.
* `LimiterCounts` is per scope and key entry: a server that rotates its key has two windows, and
  may send twice as much while both keys are in use. Entries to which the operator gives one
  name share a window (`NameOf`).
* `ProvisioningIsSound` leaves out rows that a rollback could not delete (`kept`), whose
  directory is removed all the same, and directories that could not be removed (`littered`),
  which is only logged (`routes.rs:539`). A creation whose audit event fails answers with
  an error though the repository exists (`routes.rs:471`); a `reconcile-hooks` that had
  listed a row rolled back since makes a directory with nothing but a hook.
* `OnlyOverlapping`: overlapping logins leave two sessions, and so does a login that failed to
  delete the old one, which it ignores (`routes.rs:284`); overlapping `bootstrap-admin` leave two
  administrators.

## 7. Proofs

TLAPS proves that every safety invariant of the passing runs, the action property
`TerminalChange` and the refinement `ImplementsExecutor` hold for every value of the
constants that satisfies the assumptions of the modules: any number of jobs, keys,
requests, runners, pipelines and handlers, any budgets, any faults. Every proof has the
same plan. A property is seldom inductive, so an invariant that is (listed below) is shown
to hold at first and to be kept by each action, by one lemma per action or per
group of actions with the same effect; the theorem follows from it. Each of these
invariants was checked by TLC on the run's instance before it was proved.

### `RunnerJobsProofs`

| Theorem | Statement |
|---|---|
| `TypeCorrect` | `Spec => []TypeOK` |
| `StoreInvariant` | `Spec => []JobStoreInv` |
| `ExecutedOnce` | `Spec => []AtMostOneExecution` |
| `Exclusive` | `Spec => []RegistryExclusive` |
| `Refinement` | `Spec => ImplementsExecutor` |
| `Durable` | `Spec => []AcceptedIsDurable` |
| `InPlace` | `Spec => [](TypeOK /\ JobStoreInv /\ ProgressInv)` |
| `RegistryComplete` | `Spec => []RegistryIsComplete` |
| `TerminalStays` | `Spec => TerminalChange` |

Assumptions: `ConcurrencyAssumption` (every name has a mode), `FaultsAssumption`,
`NoReqAssumption` (the stand-in for no request is not a request), `WritersAssumption` (the
writers of a record have different names).

`AtMostOneExecution` is not inductive: that a task at `start` has not spawned yet
needs that its key was fresh, which needs that a key being set up has no record,
which needs that at most one handler is setting up (the lock) and that recovery
removes directories only if they have no record that can be read. `JobStoreInv` says this in seven
parts: `RecordInv` (a file with a record names a request, and a spawned key that is not lost has a
file), `ExecInv` (a task remembers a request and is registered), `CreatorInv` (one handler at a
time, of a key without record), `SeenInv` (what a canceler or the shutdown has read is a
record of a key that has one), `DownInv` (nothing is left of a process that is down), `AloneInv` and
`RequestInv`. `AloneInv` is what remains of an atomic write: where no two writers of a record
overlapped, the one who is writing has the temporary file to himself, so what he
renames is his own text. `RequestInv` holds in spite of overlaps: every text of a key that can still be written or
published, in a file, a task or a handler's hand, carries the one request that was
accepted for the key; so whatever parses is that request's record, and writing it back
cannot bind the key anew. The refinement follows: `CreatePersist` is `Bind`, `Spawn` is `Run`, a
`Start` that removes an unreadable record is `Lose`, everything else stutters; while a record
cannot be read its key is bound to the request accepted for it (`Bound`).
`RegistryExclusive` is inductive by itself; its one step of interest is
that the check is symmetric although it looks only at the mode of the newcomer.

`ProgressInv` adds where a task stands when its record is terminal, when it says running,
and when its script lives, and what the temporary file may hold meanwhile: a terminal text is written by the task
alone, in its last write, and a canceler or the shutdown can put but one text in its place
(`MarkedInPlace`). So a record that says running has a task that is registered and has
something left to publish, and a terminal one changes only by a text of a canceler, or one torn
between two writers.

### `SchedulerProofs`

| Theorem | Statement |
|---|---|
| `SchedulerInvariant` | `Spec => []SchedInv` |
| `SchedulerTypeCorrect` | `Spec => []TypeOK` |
| `BudgetsKept` | `Spec => []RetryBudgets` |
| `JobSuccessIsReal` | `Spec => []SuccessIsReal` |
| `PipelineShownIsReal` | `Spec => []PipelineSuccessIsReal` |
| `OneAttempt` | without failed transfers of inputs, `Spec => []OneLiveAttempt` |
| `RunsDoNotOverlap` | without failed transfers of inputs or outputs and with `ShortPipelines`, `Spec => []NoOverlap` |

The loop acts on rows it has listed some awaits ago while requests write the same
rows. The argument is that the two halves of a row do not mix. The key of a row
(`infra_retry_count`, `runner_run_id`) and its cancel retries are written by the loop
alone, so what it has listed of them holds until its own next write (`Listing`,
`CancelsCounted`): that is why comparing an old row keeps the budgets. The status may be
anybody's, but `success` is written only for an answer about the row's own key
(`SeenIsSo`), and what a run has come to is never overwritten (`RunsSound`). A step is
followed through what it may do to a row (`RowMove`), a run (`RunKept`) and the loop
(`LoopUpdated`), so that no lemma has to look at all actions and all conjuncts at once.

Both theorems speak of scripts that outlive their runner. An orphan is one whose runner has
reported what the run came to (`OrphansSound`), so the loop may go on from it; that a script that
is not an orphan does not overlap is then the same argument as without crashes of runners.

`OneAttempt` and `RunsDoNotOverlap` have hypotheses, which name what section 6 says the code
does otherwise: an input transfer that fails after a lost reply makes a new key while
the run of the old one may live; an output transfer that fails may have a finished job
run again; and a third job may start beside the second. `OneAttempt` needs
only the first and is about pipelines of any length. `ShortPipelines` (no job whose
predecessor has a predecessor) holds for the two jobs of `scheduler_safety`. The invariant
behind the second half of `NoOverlap` is `Ahead`: while a job is being created or has a live
run, the run of the required job before it has come to success.

### `IntakeProofs`

| Theorem | Statement |
|---|---|
| `IntakeInvariant` | `Spec => []IntakeInv` |
| `IntakeTypeCorrect` | `Spec => []IntakeTypeOK` |
| `EveryPushDelivered` | `Spec => []PushesDelivered` |
| `InsertionInOrder` | `Spec => []InsertedInOrder` |

`IntakeInv` has nine parts. `EventsInv`: what is listed is received, not processed, and
listed once. `VersionsInv`, `PipelinesInv`, `BoundsInv`: shapes, and that a pipeline has at most
the jobs of its version. `TasksInv`: a task that has inserted a pipeline is the only one
that adds to it, with the version, trigger and push it was asked for; and a pipeline the
loop is making has not started (the loop is one task: it dispatches after it has
enqueued). `ListsInv`: the runs still to make for a push are of versions that exist and
trigger, one for each workflow and ref. `WholeInv`: without a fault, a push's
pipeline is whole or the one in the making. `DeliveryInv`: each workflow that a push triggers
in every version is still listed, in the loop's hand, or delivered; so it is delivered
when nothing is listed or in hand, which is when `mark_push_event_processed` may run.
`CountInv` bounds the pipelines of a push by the faults so far, plus one once no pipeline
is to be made any more (`ToMake`): a crash or an error pays for the repetition that it
causes.

### `ArtifactsProofs`

| Theorem | Statement |
|---|---|
| `ArtifactsInvariant` | `Spec => []ArtifactsInv` |
| `ArtifactsTypeCorrect` | `Spec => []ArtifactsTypeOK` |
| `DirectoriesStaySound` | `Spec => []DirectoriesSound` |
| `KeptTillExpiry` | `Spec => []KeptUntilExpired` |
| `RecordedIsUsed` | `Spec => []SecondGetsRecorded` |

The runner and the server are taken apart. `StoreInv` is about directories: each holds what was
returned for it and nothing else (`Keeps`), an incomplete one is someone's (`Accounted`), a
writer is alone in one that has not been returned (`WriterInv`, `TwoWriters`), and the cleaner
removes only expired ones (`CleanerInv`). The server sees of all this no more than that
`kept`, once set, stays (`Stored`), and `ServerInv` follows the bytes: those in hand
(`HeldInv`), those in the rows of outputs copied so far (`PersistedInv`), those of the
recorded outputs (`OutputsInv`). `DownstreamInv` has what the second job got. That a job
has one recorded set of outputs comes from `Phase`: the loop works for the first
job only while its row waits for it.

### `CatalogProofs` and `WorkflowSchemaProofs`

| Theorem | Statement |
|---|---|
| `ReportSound` | a definition accepted against its snapshot and not called incompatible is accepted against what is advertised now |
| `CatalogTypeCorrect` | `CatalogSpec => []CatalogTypeOK` |
| `SavedAccepted` | `CatalogSpec => []SnapshotsAccepted` |
| `ReportAlwaysSound` | `CatalogSpec => []ReportIsSound` |
| `KnownFromOwnUrl` | `CatalogSpec => []KnownFromItsUrl` |

`ReportSound` is about every definition, snapshot and catalogue. Its hypothesis `Plain` says that
"required" is a Boolean. No difference of the report is incompatible
(`NoneIncompatible`), so every job is still advertised (`JobCompared`), every bound input
is there with its kind and nothing is newly required (`InputsKept`), and every output that
another job reads is there with its kind (`OutputsKept`).

`CatalogInv` adds to the types that a save at its last step holds a definition accepted
against the schemas it holds (`EditorChecked`), that a row read by a refresh has the
URL of its runner as long as the runner has not moved (`RowsRead`), and that the jobs
stored between the two transactions of a refresh come from that URL unless overtaken
(`JobsStored`). `SavedAccepted` follows, and with `ReportSound` and the types (which give
`Plain`) `ReportAlwaysSound`.

### `RequestGateProofs`

| Theorem | Statement |
|---|---|
| `GateTypeCorrect` | `GateSpec => []GateTypeOK` |
| `NoReplay` | `GateSpec => []AcceptedOnce` |
| `LimiterExact` | `GateSpec => []LimiterCounts` |
| `SeamlessRotation` | `GateSpec => []RotationIsSeamless` |

`GrantsRemembered`: a request let through is remembered, or was let through longer ago than
the retention, and then its timestamp is no longer fresh. This is where the
assumption on the clock is used (`ClocksAssumption`: the server is ahead by no more than a second
less than the tolerance), and where it is needed. `KeysInv`: the key that signs is
trusted and in the runner's list, and so is the key of each request that is still
fresh. `WindowsCount`: a window counts what was let through in it, less than the limit was
let through before it in one window's length, and a window that was pruned is over.
`LimiterExact` has two halves, each for a scope and the name of a key's entry, in which requests of
other scopes and names do not count (`OtherCounters`): at most twice the limit less one in any stretch of a
window's length, and a refusal only when the limit was reached in the last one.

### `AccountsProofs`

| Theorem | Statement |
|---|---|
| `AccountsInvariant` | `AccountsSpec => []AccountsInv` |
| `AccountsTypeCorrect` | `AccountsSpec => []AccountsTypeOK` |
| `ProvisioningSound` | `AccountsSpec => []ProvisioningIsSound` |
| `ReconcileRestores` | `AccountsSpec => []HooksRestored` |
| `OverlapNeeded` | `AccountsSpec => []OnlyOverlapping` |

The state falls into three parts that no step mixes: users with their bootstraps
(`UserInv`), sessions with their logins (`SessionInv`: a session that a login about to create its
own still finds belongs to one it overlaps with, or is one it failed to delete) and repositories with creations and
`reconcile-hooks` (`RepoInv`). `RepoInv` says what a creation has made when it stands at a
step and what is left of it afterwards (`StepOK`), that names of rows are unique, and which
hooks `reconcile-hooks` has written so far (`HooksSoFar`). A row that is not there yet is in no
list, so nobody else touches its directory: without this, `StepOK` is not inductive.

### Only model-checked

All liveness, since fairness and ENABLED are out of the prover's reach:
`EventuallyReleased`, `TerminalUnlessOverwritten`, `JobsEnd`, `PipelinesEnd`, `PushesProcessed`,
`EnqueuedJobsEnd`, `ExpiredIsRemoved`, `SecondStarts` and `HealthConverges`. The three violations
are counterexamples of TLC.

## 8. Plan

Done: the modules of section 2 and the proofs of section 7.

What may follow:

1. `RunsDoNotOverlap` for pipelines of any length, of a weaker property: which of two
   consecutive runs may be alive when the first job was blocked. It needs a history
   of lost replies in the invariant.
2. An abstract specification of a dispatched job, between `IdempotentExecutor` and the run
   tables, that `Scheduler` implements for each job, so that `SuccessIsReal` is a step of a
   refinement.
3. `SourceIsWhole` under the hypothesis that no archive fails.

### Not modelled

Rendering and parsing of pages, forms, CSRF tokens and cookies; configuration and
manifests, which are read once at start; signatures, digests and password hashes; the
windows of login attempts (a map that is never pruned, `app.rs:344`); log contents,
redaction and timings; the audit list; blobs of the server that a crash leaves without
a row; the wire format of the control socket.
